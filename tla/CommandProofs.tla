---------------------------- MODULE CommandProofs ----------------------------
(***************************************************************************)
(* Proofs about what the commands of the Workbench answer, for any         *)
(* runtime, any requests, any evidence and any amount of trouble: the      *)
(* witness of an ordinary run reproduces, what is called sufficient was    *)
(* earned, no decision forgets what the one before established, a stop     *)
(* that was recorded is found again, and what is called complete is whole. *)
(***************************************************************************)
EXTENDS WorkbenchProofs, FiniteSetTheorems

-----------------------------------------------------------------------------
(* Replay: a witness keeps what its run was, so an ordinary one reproduces. *)

Files == [program : Programs, request : Inputs]

\* An outcome is that of a run of these files, in time or late, with some
\* verdict of the front end, with the core or without.
Judged(ran, test, outcome) ==
  \E late, valid, coreUp \in BOOLEAN :
    outcome = Outcome([Printed(ran, late) EXCEPT !.valid = valid], test, coreUp)

\* What a recording holds of its run, from the first step on.
RecordingRuns ==
  /\ recording.step # "idle" => "test" \in DOMAIN recording
  /\ recording.step \in {"index", "classify", "seal"} =>
       /\ {"ran", "loaded"} \subseteq DOMAIN recording
       /\ recording.ran \in Files /\ recording.loaded \in Inputs
  /\ recording.step \in {"index", "classify"} =>
       "result" \in DOMAIN recording
       /\ \E late \in BOOLEAN : recording.result = Printed(recording.ran, late)
  /\ recording.step = "classify" => "valid" \in DOMAIN recording /\ recording.valid \in BOOLEAN
  /\ recording.step = "seal" =>
       "outcome" \in DOMAIN recording /\ Judged(recording.ran, recording.test, recording.outcome)

WitnessRuns ==
  witness # NoWitness =>
    /\ witness.ran \in Files /\ witness.program \in Programs /\ witness.asked \in Inputs
    /\ Judged(witness.ran, witness.test, witness.outcome)

SearchRuns ==
  minimizing # NotMinimizing =>
    /\ minimizing.current \in Inputs
    /\ minimizing.inputs.where = "files" \/ minimizing.inputs.program \in Programs

\* What a replay runs: the files as they are, or what the witness kept.
ReplayRuns ==
  /\ replaying.step # "idle" => witness # NoWitness /\ witness.test = NoTest
  /\ replaying.step \in {"validate", "execute"} =>
       /\ "inputs" \in DOMAIN replaying
       /\ \/ replaying.inputs.where = "files"
          \/ /\ replaying.inputs.where # "files"
             /\ replaying.inputs.program = witness.program
             /\ replaying.inputs.request = witness.asked

RunsInv ==
  /\ runtime \in Runtimes /\ trouble \in Nat
  /\ RecordingRuns /\ WitnessRuns /\ SearchRuns /\ ReplayRuns

LEMMA MishapsCount ==
  ASSUME trouble \in Nat, NEW n \in Nat, Mishaps(n)
  PROVE  trouble' \in Nat /\ (trouble' = trouble => n = 0)
  BY DEF Mishaps

LEMMA MishapCounts ==
  ASSUME trouble \in Nat, NEW b \in BOOLEAN, Mishap(b)
  PROVE  trouble' \in Nat /\ (trouble' = trouble => ~b)
<1>1. CASE b
  <2>1. Mishaps(1)
    BY <1>1 DEF Mishap
  <2>2. QED
    BY <2>1, MishapsCount
<1>2. CASE ~b
  <2>1. Mishaps(0)
    BY <1>2 DEF Mishap
  <2>2. QED
    BY <1>2, <2>1, MishapsCount
<1>3. QED
  BY <1>1, <1>2

LEMMA WithNew ==
  ASSUME NEW r, NEW g, NEW f \in DOMAIN g
  PROVE  f \in DOMAIN With(r, g) /\ With(r, g)[f] = g[f]
  BY DEF With

LEMMA WithOld ==
  ASSUME NEW r, NEW g, NEW f \in DOMAIN r, f \notin DOMAIN g
  PROVE  f \in DOMAIN With(r, g) /\ With(r, g)[f] = r[f]
  BY DEF With

\* The files on disk are an input of the program.
LEMMA DiskRuns ==
  ASSUME RequestsOK
  PROVE  disk \in Files /\ disk.program \in Programs /\ disk.request \in Inputs
  BY InputAssumption DEF RequestsOK, Files

\* The documents of runs have their fields, killed or not.
LEMMA PrintedFields ==
  ASSUME runtime \in Runtimes, NEW ran \in Files, NEW late \in BOOLEAN
  PROVE  /\ {"valid", "ends", "status", "failure", "effect", "returned"} \subseteq DOMAIN Printed(ran, late)
         /\ Printed(ran, late).valid \in BOOLEAN
<1> DEFINE d == runtime.runs[ran.program][ran.request]
<1>1. /\ {"valid", "ends", "status", "failure", "effect", "returned"} \subseteq DOMAIN d
      /\ d.valid \in BOOLEAN
  BY RuntimeAssumption DEF Files
<1>2. Printed(ran, late) = IF late THEN Killed(d) ELSE d
  BY DEF Printed
<1> HIDE DEF d
<1>3. QED
  BY <1>1, <1>2 DEF Killed

\* A result judged with the front end's own verdict is the result.
LEMMA JudgedResult ==
  ASSUME runtime \in Runtimes, NEW ran \in Files, NEW late \in BOOLEAN, NEW test,
         NEW coreUp \in BOOLEAN
  PROVE  Judged(ran, test, Outcome(Printed(ran, late), test, coreUp))
<1> DEFINE r == Printed(ran, late)
           j == [r EXCEPT !.valid = r.valid]
<1>1. /\ {"valid", "ends", "status", "failure", "effect", "returned"} \subseteq DOMAIN r
      /\ r.valid \in BOOLEAN
  BY PrintedFields
<1> HIDE DEF r
<1>2. /\ j.valid = r.valid /\ j.ends = r.ends /\ j.status = r.status
      /\ j.failure = r.failure /\ j.effect = r.effect /\ j.returned = r.returned
  BY <1>1
<1> HIDE DEF j
<1>3. Outcome(j, test, coreUp) = Outcome(r, test, coreUp)
  BY <1>2 DEF Outcome, Classify, RuntimeStatus
<1>4. QED
  BY <1>1, <1>3 DEF Judged, r, j

\* A run was made: the recording holds which, and what it printed.
LEMMA RanHolds ==
  ASSUME RequestsOK, NEW late \in BOOLEAN, NEW g, recording' = With(recording, g),
         "test" \in DOMAIN recording, "test" \notin DOMAIN g,
         {"step", "ran", "loaded", "result"} \subseteq DOMAIN g,
         g.step = "index", g.ran = disk, g.loaded = disk.request, g.result = Printed(disk, late),
         UNCHANGED runtime
  PROVE  RecordingRuns'
<1>1. /\ recording'["step"] = "index" /\ recording'["ran"] = disk
      /\ recording'["loaded"] = disk.request /\ recording'["result"] = Printed(disk, late)
      /\ {"ran", "loaded", "result"} \subseteq DOMAIN recording'
  BY WithNew
<1>2. "test" \in DOMAIN recording'
  BY WithOld
<1>3. Printed(disk, late)' = Printed(disk', late)
  BY DEF Printed
<1>4. recording'.result = Printed(recording'.ran, late)
  BY <1>1
<1>5. (\E l \in BOOLEAN : recording.result = Printed(recording.ran, l))'
  BY <1>4 DEF Printed
<1>6. QED
  BY <1>1, <1>2, <1>5, DiskRuns DEF RecordingRuns

\* What does not change stays as it holds.
LEMMA RecordingStays == ASSUME RecordingRuns, UNCHANGED <<runtime, recording>> PROVE RecordingRuns'
<1>1. (\E late \in BOOLEAN : recording.result = Printed(recording.ran, late))'
        <=> (\E late \in BOOLEAN : recording.result = Printed(recording.ran, late))
  BY DEF Printed
<1>2. Judged(recording.ran, recording.test, recording.outcome)'
        <=> Judged(recording.ran, recording.test, recording.outcome)
  BY DEF Judged, Printed
<1>3. QED
  BY <1>1, <1>2 DEF RecordingRuns

LEMMA WitnessStays == ASSUME WitnessRuns, UNCHANGED <<runtime, witness>> PROVE WitnessRuns'
<1>1. Judged(witness.ran, witness.test, witness.outcome)'
        <=> Judged(witness.ran, witness.test, witness.outcome)
  BY DEF Judged, Printed
<1>2. QED
  BY <1>1 DEF WitnessRuns

LEMMA SearchStays == ASSUME SearchRuns, UNCHANGED minimizing PROVE SearchRuns'
  BY DEF SearchRuns

LEMMA ReplayStays == ASSUME ReplayRuns, UNCHANGED <<witness, replaying>> PROVE ReplayRuns'
  BY DEF ReplayRuns

LEMMA RecordingKeepsRuns ==
  ASSUME CommandInv, RunsInv, RecordingStep, UNCHANGED <<replaying, minimizing>>
  PROVE  RunsInv'
<1> USE DEF RunsInv
<1>0. PhasesOK /\ OneCommand /\ RequestsOK
  BY DEF CommandInv
<1>1. recording # NotRecording
  BY <1>0, RecordingSteps
<1>2. recording.step # "idle" /\ replaying = NotReplaying /\ "test" \in DOMAIN recording
  BY <1>0, <1>1 DEF PhasesOK, OneCommand, RecordingRuns
<1>3. SearchRuns' /\ ReplayRuns'
  BY <1>2 DEF SearchRuns, ReplayRuns, NotReplaying
<1>4. CASE Observe
  <2>1. PICK late \in BOOLEAN :
          /\ Mishap(late)
          /\ LET result == Printed(disk, late)
                 g == [step |-> "index", native |-> TRUE, ran |-> disk, loaded |-> disk.request,
                       result |-> result,
                       stream |-> Observed(result, recording.policy)]
             IN recording' = With(recording, g) \/ recording' = [recording EXCEPT !.step = "execute"]
    BY <1>4 DEF Observe
  <2>2. trouble' \in Nat /\ UNCHANGED <<runtime, witness>>
    BY <1>4, <2>1, MishapCounts DEF Observe
  <2> DEFINE g == [step |-> "index", native |-> TRUE, ran |-> disk, loaded |-> disk.request,
                   result |-> Printed(disk, late),
                   stream |-> Observed(Printed(disk, late), recording.policy)]
  <2>3. CASE recording' = With(recording, g)
    <3>1. /\ "test" \notin DOMAIN g /\ {"step", "ran", "loaded", "result"} \subseteq DOMAIN g
          /\ g.step = "index" /\ g.ran = disk /\ g.loaded = disk.request /\ g.result = Printed(disk, late)
      OBVIOUS
    <3> HIDE DEF g
    <3>2. RecordingRuns'
      BY <1>0, <1>2, <2>2, <2>3, <3>1, RanHolds
    <3>3. QED
      BY <1>3, <2>2, <3>2 DEF WitnessRuns, Judged, Printed
  <2>4. CASE recording' = [recording EXCEPT !.step = "execute"]
    <3>1. recording'.step = "execute" /\ "test" \in DOMAIN recording'
      BY <1>0, <1>2, <2>4 DEF PhasesOK
    <3>2. RecordingRuns'
      BY <3>1 DEF RecordingRuns
    <3>3. QED
      BY <1>3, <2>2, <3>2 DEF WitnessRuns, Judged, Printed
  <2>5. QED
    BY <2>1, <2>3, <2>4
<1>5. CASE Execute
  <2>1. PICK late \in BOOLEAN :
          /\ Mishap(late)
          /\ recording' = With(recording,
                               [step |-> "index", native |-> FALSE, ran |-> disk, loaded |-> disk.request,
                                result |-> Printed(disk, late), stream |-> NoStream])
    BY <1>5 DEF Execute
  <2>2. trouble' \in Nat /\ UNCHANGED <<runtime, witness>>
    BY <1>5, <2>1, MishapCounts DEF Execute
  <2> DEFINE g == [step |-> "index", native |-> FALSE, ran |-> disk, loaded |-> disk.request,
                   result |-> Printed(disk, late), stream |-> NoStream]
  <2>3. /\ "test" \notin DOMAIN g /\ {"step", "ran", "loaded", "result"} \subseteq DOMAIN g
        /\ g.step = "index" /\ g.ran = disk /\ g.loaded = disk.request /\ g.result = Printed(disk, late)
        /\ recording' = With(recording, g)
    BY <2>1
  <2> HIDE DEF g
  <2>4. RecordingRuns'
    BY <1>0, <1>2, <2>2, <2>3, RanHolds
  <2>5. QED
    BY <1>3, <2>2, <2>4 DEF WitnessRuns, Judged, Printed
<1>6. CASE IndexStatics
  <2> DEFINE fresh == runtime.runs[disk.program][disk.request]
             g == [step   |-> "classify",
                   valid  |-> IF recording.native THEN TRUE ELSE fresh.valid,
                   mapped |-> recording.native /\ runtime.mapped,
                   map    |-> IF recording.native THEN runtime.maps[recording.ran.program]
                              ELSE runtime.maps[disk.program]]
  <2>1. recording' = With(recording, g) /\ recording.step = "index" /\ UNCHANGED <<runtime, trouble, witness>>
    BY <1>6 DEF IndexStatics, worldVars
  <2>2. fresh.valid \in BOOLEAN
    BY <1>0, DiskRuns, RuntimeAssumption
  <2> HIDE DEF fresh
  <2>3. DOMAIN g = {"step", "valid", "mapped", "map"} /\ g.step = "classify" /\ g.valid \in BOOLEAN
    BY <2>2
  <2> HIDE DEF g
  <2>4. /\ recording'["step"] = "classify" /\ recording'["valid"] \in BOOLEAN
        /\ "valid" \in DOMAIN recording'
    BY <2>1, <2>3, WithNew
  <2>5. {"ran", "loaded", "result", "test"} \subseteq DOMAIN recording
    BY <1>2, <2>1 DEF RecordingRuns
  <2>6. /\ recording'["ran"] = recording["ran"] /\ recording'["loaded"] = recording["loaded"]
        /\ recording'["result"] = recording["result"]
        /\ {"ran", "loaded", "result", "test"} \subseteq DOMAIN recording'
    BY <2>1, <2>3, <2>5, WithOld
  <2>7. (\E l \in BOOLEAN : recording.result = Printed(recording.ran, l))'
    BY <2>1, <2>6 DEF RecordingRuns, Printed
  <2>8. RecordingRuns'
    BY <2>1, <2>4, <2>6, <2>7 DEF RecordingRuns
  <2>9. QED
    BY <1>3, <2>1, <2>8 DEF WitnessRuns, Judged, Printed
<1>7. CASE ClassifyRun
  <2>1. PICK coreUp \in BOOLEAN :
          /\ Mishap(~coreUp)
          /\ recording' = With(recording,
               [step |-> "seal",
                outcome |-> Outcome([recording.result EXCEPT !.valid = recording.valid],
                                    recording.test, coreUp)])
    BY <1>7 DEF ClassifyRun
  <2>2. trouble' \in Nat /\ UNCHANGED <<runtime, witness>> /\ recording.step = "classify"
    BY <1>7, <2>1, MishapCounts DEF ClassifyRun
  <2> DEFINE o == Outcome([recording.result EXCEPT !.valid = recording.valid], recording.test, coreUp)
             g == [step |-> "seal", outcome |-> o]
  <2>3. Judged(recording.ran, recording.test, o)
    BY <2>2 DEF RecordingRuns, Judged
  <2> HIDE DEF o
  <2>4. DOMAIN g = {"step", "outcome"} /\ g.step = "seal" /\ g.outcome = o /\ recording' = With(recording, g)
    BY <2>1 DEF o
  <2> HIDE DEF g
  <2>5. recording'["step"] = "seal" /\ recording'["outcome"] = o /\ "outcome" \in DOMAIN recording'
    BY <2>4, WithNew
  <2>6. {"ran", "loaded", "test"} \subseteq DOMAIN recording
    BY <1>2, <2>2 DEF RecordingRuns
  <2>7. /\ recording'["ran"] = recording["ran"] /\ recording'["loaded"] = recording["loaded"]
        /\ recording'["test"] = recording["test"]
        /\ {"ran", "loaded", "test"} \subseteq DOMAIN recording'
    BY <2>4, <2>6, WithOld
  <2>8. Judged(recording.ran, recording.test, recording.outcome)'
    BY <2>2, <2>3, <2>5, <2>7 DEF Judged, Printed
  <2>9. RecordingRuns'
    BY <2>2, <2>5, <2>7, <2>8 DEF RecordingRuns
  <2>10. QED
    BY <1>3, <2>2, <2>9 DEF WitnessRuns, Judged, Printed
<1>8. CASE SealWitness
  <2> DEFINE g == [program |-> disk.program, request |-> disk.request, kept |-> TRUE]
             r == With(recording, g)
  <2>1. /\ witness' = NewWitness(r) /\ recording' = NotRecording /\ recording.step = "seal"
        /\ UNCHANGED <<runtime, trouble>>
    BY <1>8 DEF SealWitness, worldVars
  <2>2. DOMAIN g = {"program", "request", "kept"} /\ g.program = disk.program
    OBVIOUS
  <2> HIDE DEF g
  <2>3. {"ran", "loaded", "test", "outcome"} \subseteq DOMAIN recording
    BY <1>2, <2>1 DEF RecordingRuns
  <2>4. /\ r["ran"] = recording["ran"] /\ r["loaded"] = recording["loaded"]
        /\ r["test"] = recording["test"] /\ r["outcome"] = recording["outcome"]
    BY <2>2, <2>3, WithOld
  <2>5. r["program"] = disk.program
    BY <2>2, WithNew
  <2> HIDE DEF r
  <2>6. /\ witness'.ran = recording.ran /\ witness'.program = disk.program
        /\ witness'.asked = recording.loaded /\ witness'.test = recording.test
        /\ witness'.outcome = recording.outcome
    BY <2>1, <2>4, <2>5 DEF NewWitness
  <2>7. Judged(witness.ran, witness.test, witness.outcome)'
    BY <2>1, <2>6 DEF RecordingRuns, Judged, Printed
  <2>8. WitnessRuns'
    BY <1>0, <2>1, <2>6, <2>7, DiskRuns DEF WitnessRuns, RecordingRuns
  <2>9. RecordingRuns'
    BY <2>1 DEF RecordingRuns, NotRecording
  <2>10. QED
    BY <1>3, <2>1, <2>8, <2>9
<1>9. QED
  BY <1>4, <1>5, <1>6, <1>7, <1>8 DEF RecordingStep

\* What a step of another command leaves alone.
LEMMA OthersKeepRuns ==
  ASSUME RunsInv, trouble' \in Nat, UNCHANGED <<runtime, witness, recording, replaying, minimizing>>
  PROVE  RunsInv'
  BY RecordingStays, WitnessStays, SearchStays, ReplayStays DEF RunsInv

\* A new recording holds its test.
LEMMA StartingHolds ==
  ASSUME NEW test, NEW policy, StartRecording(test, policy)
  PROVE  RecordingRuns'
<1>1. recording'.step = "observe" /\ "test" \in DOMAIN recording'
  BY DEF StartRecording
<1>2. QED
  BY <1>1 DEF RecordingRuns

LEMMA StartedKeepsRuns ==
  ASSUME RunsInv, RecordingRuns', trouble' \in Nat, UNCHANGED <<runtime, witness, replaying, minimizing>>
  PROVE  RunsInv'
  BY WitnessStays, SearchStays, ReplayStays DEF RunsInv

LEMMA ReplayKeepsRuns ==
  ASSUME CommandInv, RunsInv, StartReplay \/ ReplayStep, UNCHANGED minimizing
  PROVE  RunsInv'
<1> USE DEF RunsInv
<1>1. SUFFICES ASSUME UNCHANGED <<runtime, witness, recording>>, trouble' \in Nat PROVE ReplayRuns'
  <2>1. CASE StartReplay
    <3>1. UNCHANGED <<runtime, witness, recording, trouble>>
      BY <2>1 DEF StartReplay, worldVars
    <3>2. QED
      BY <1>1, <3>1, RecordingStays, WitnessStays, SearchStays
  <2>2. CASE ReplayStep
    <3>1. UNCHANGED <<runtime, witness, recording>>
      BY <2>2 DEF ReplayStep, OpenReplay, ValidateReplay, ExecuteReplay
    <3>2. PICK b \in BOOLEAN : Mishap(b)
      BY <2>2, Zenon DEF ReplayStep, OpenReplay, ValidateReplay, ExecuteReplay
    <3>3. trouble' \in Nat
      BY <3>2, MishapCounts
    <3>4. QED
      BY <1>1, <3>1, <3>3, RecordingStays, WitnessStays, SearchStays
  <2>3. QED
    BY <2>1, <2>2
<1>2. replaying' = NotReplaying => ReplayRuns'
  BY DEF ReplayRuns, NotReplaying
<1>3. CASE StartReplay
  <2>1. witness # NoWitness
    BY <1>3 DEF StartReplay
  <2>2. CASE witness.test = NoTest /\ replaying' = [step |-> "open"]
    BY <1>1, <2>1, <2>2 DEF ReplayRuns
  <2>3. replaying' = NotReplaying \/ (witness.test = NoTest /\ replaying' = [step |-> "open"])
    BY <1>3 DEF StartReplay, BlockReplay
  <2>4. QED
    BY <1>2, <2>2, <2>3
<1>4. CASE OpenReplay
  <2>1. replaying.step = "open" /\ (replaying' = NotReplaying \/
          (ReplayInputs.where # "unavailable" /\ replaying' = [step |-> "validate", inputs |-> ReplayInputs]))
    BY <1>4, Zenon DEF OpenReplay, BlockReplay
  <2>2. CASE ReplayInputs.where # "unavailable" /\ replaying' = [step |-> "validate", inputs |-> ReplayInputs]
    <3>1. \/ ReplayInputs.where = "files"
          \/ /\ ReplayInputs.where # "files"
             /\ ReplayInputs.program = witness.program /\ ReplayInputs.request = witness.asked
      BY <2>2 DEF ReplayInputs
    <3>2. /\ replaying'.step = "validate" /\ replaying'.inputs = ReplayInputs
          /\ "inputs" \in DOMAIN replaying'
      BY <2>2
    <3>3. QED
      BY <1>1, <2>1, <3>1, <3>2 DEF ReplayRuns
  <2>3. QED
    BY <1>2, <2>1, <2>2
<1>5. CASE ValidateReplay
  <2>1. /\ replaying.step = "validate"
        /\ replaying' = NotReplaying \/ replaying' = [replaying EXCEPT !.step = "execute"]
    BY <1>5 DEF ValidateReplay, BlockReplay, CompareReplay
  <2>2. CASE replaying' = [replaying EXCEPT !.step = "execute"]
    <3>1. "inputs" \in DOMAIN replaying' /\ replaying'.inputs = replaying.inputs
      BY <2>1, <2>2 DEF ReplayRuns
    <3>2. QED
      BY <1>1, <2>1, <3>1 DEF ReplayRuns
  <2>3. QED
    BY <1>2, <2>1, <2>2
<1>6. CASE ExecuteReplay
  BY <1>2, <1>6 DEF ExecuteReplay, BlockReplay, CompareReplay
<1>7. QED
  BY <1>3, <1>4, <1>5, <1>6 DEF ReplayStep

\* A candidate of an input is an input.
LEMMA CandidateIsInput ==
  ASSUME witness.asked \in Seq(Int), NEW m, Searching(m, witness.asked), m.left # {}, m.current \in Inputs
  PROVE  [m.current EXCEPT ![m.index] = Candidate(m)] \in Inputs
<1> DEFINE asked == witness.asked
<1>1. /\ m.left \subseteq 1..4 /\ m.index \in Nat \ {0} /\ m.index <= Len(asked)
      /\ m.left \subseteq Candidates(asked[m.index])
      /\ m.current \in Seq(Int) /\ Len(m.current) = Len(asked)
  BY DEF Searching
<1>2. m.current[m.index] = asked[m.index] /\ m.index \in DOMAIN m.current
  BY <1>1, Untouched
<1>3. Turn(m) \in Candidates(m.current[m.index])
  BY <1>1, <1>2, TurnIsLeft
<1>4. Candidate(m) = Halves(m.current[m.index])[Turn(m)]
  BY <1>2 DEF Candidate
<1>5. QED
  BY <1>2, <1>3, <1>4, InputAssumption

LEMMA SearchKeepsRuns ==
  ASSUME CommandInv, RunsInv, StartMinimization \/ MinimizationStep
  PROVE  RunsInv'
<1> USE DEF RunsInv
<1>0. PhasesOK /\ OneCommand /\ RequestsOK /\ SearchOK
  BY DEF CommandInv
<1>1. UNCHANGED <<runtime, recording, replaying>>
  BY DEF StartMinimization, MinimizationStep, TryCandidate, NoReduction, Reduce, worldVars
<1>2. CASE StartMinimization
  <2>1. UNCHANGED witness /\ witness # NoWitness
    BY <1>2 DEF StartMinimization
  <2>2. PICK gone \in BOOLEAN, most \in MaxAttempts :
          /\ Mishap(gone)
          /\ \/ minimizing' = NotMinimizing
             \/ /\ ReplayInputs.where # "unavailable"
                /\ minimizing' = [step |-> "try", inputs |-> ReplayInputs, most |-> most,
                                  index |-> 1, left |-> WorkFrom(witness.asked, 1),
                                  current |-> witness.asked, attempts |-> 0, changes |-> <<>>]
    BY <1>2, Zenon DEF StartMinimization
  <2>3. trouble' \in Nat
    BY <2>2, MishapCounts
  <2>4. ReplayInputs.where # "unavailable" =>
          ReplayInputs.where = "files" \/ ReplayInputs.program = witness.program
    BY DEF ReplayInputs
  <2>5. SearchRuns'
    BY <2>1, <2>2, <2>4 DEF SearchRuns, WitnessRuns
  <2>6. QED
    BY <1>1, <2>1, <2>3, <2>5, RecordingStays, WitnessStays, ReplayStays
<1>3. CASE MinimizationStep
  <2>1. minimizing # NotMinimizing
    BY <1>0, <1>3, MinimizationSteps
  <2>2. /\ replaying = NotReplaying /\ Searching(minimizing, witness.asked) /\ witness # NoWitness
        /\ witness.asked \in Seq(Int)
    BY <1>0, <2>1 DEF OneCommand, SearchOK, RequestsOK
  <2>3. CASE TryCandidate
    <3>1. PICK down, late \in BOOLEAN, keep \in BOOLEAN :
            Mishap(down \/ late) /\ minimizing' = Tried(minimizing, keep, down)
      BY <2>3, Zenon DEF TryCandidate, Reproduces
    <3>2. minimizing.left # {} /\ UNCHANGED witness /\ trouble' \in Nat
      BY <2>3, <3>1, MishapCounts DEF TryCandidate
    <3> DEFINE e == Tried(minimizing, keep, down)
    <3>3. /\ e.inputs = minimizing.inputs
          /\ e.current = IF keep THEN [minimizing.current EXCEPT ![minimizing.index] = Candidate(minimizing)]
                         ELSE minimizing.current
      BY <2>2 DEF Tried, Advance, Searching
    <3> HIDE DEF e
    <3>4. e.current \in Inputs
      BY <2>1, <2>2, <3>2, <3>3, CandidateIsInput DEF SearchRuns
    <3>5. SearchRuns'
      BY <2>1, <3>1, <3>3, <3>4 DEF SearchRuns, e
    <3>6. QED
      BY <1>1, <3>2, <3>5, RecordingStays, WitnessStays, ReplayStays
  <2>4. CASE NoReduction
    <3>1. minimizing' = NotMinimizing /\ UNCHANGED <<witness, trouble>>
      BY <2>4 DEF NoReduction, worldVars
    <3>2. QED
      BY <1>1, <3>1, RecordingStays, WitnessStays, ReplayStays DEF SearchRuns
  <2>5. CASE Reduce
    <3> DEFINE cost(b) == IF b THEN 1 ELSE 0
    <3>1. PICK late, later, down \in BOOLEAN :
            /\ Mishaps(cost(late) + cost(later) + cost(down))
            /\ witness' = NewWitness(ReducedRun(late, later, down))
      BY <2>5, Zenon DEF Reduce
    <3>2. minimizing' = NotMinimizing
      BY <2>5, Zenon DEF Reduce
    <3>3. cost(late) + cost(later) + cost(down) \in Nat
      OBVIOUS
    <3> HIDE DEF cost
    <3>4. trouble' \in Nat
      BY <3>1, <3>3, MishapsCount
    <3> DEFINE files2 == CandidateFiles(minimizing.current)
    <3>5. files2.program \in Programs /\ files2.request = minimizing.current /\ files2 \in Files
      <4>1. FilesOf(minimizing.inputs).program \in Programs
        BY <1>0, <2>1, DiskRuns DEF FilesOf, SearchRuns
      <4>2. QED
        BY <2>1, <4>1 DEF CandidateFiles, Files, SearchRuns
    <3>6. /\ witness'.ran = files2 /\ witness'.program = files2.program
          /\ witness'.asked = files2.request /\ witness'.test = witness.test
          /\ witness'.outcome = Outcome(Printed(files2, later), witness.test, ~down)
      BY <3>1 DEF NewWitness, ReducedRun
    <3> HIDE DEF files2
    <3>7. Judged(files2, witness.test, Outcome(Printed(files2, later), witness.test, ~down))
      BY <3>5, JudgedResult
    <3>8. Judged(witness.ran, witness.test, witness.outcome)'
      BY <1>1, <3>6, <3>7 DEF Judged, Printed
    <3>9. WitnessRuns'
      BY <2>1, <3>5, <3>6, <3>8 DEF WitnessRuns, SearchRuns
    <3>10. RecordingRuns' /\ SearchRuns' /\ ReplayRuns'
      BY <1>1, <2>2, <3>2, RecordingStays DEF SearchRuns, ReplayRuns, NotReplaying
    <3>11. QED
      BY <1>1, <3>4, <3>9, <3>10
  <2>6. QED
    BY <1>3, <2>3, <2>4, <2>5 DEF MinimizationStep
<1>4. QED
  BY <1>2, <1>3
\* The other commands, and what is not a command.
LEMMA StartsKeepRuns ==
  ASSUME CommandInv, RunsInv, Command
  PROVE  RunsInv'
<1>0. trouble \in Nat
  BY DEF RunsInv
<1>1. CASE Record /\ UNCHANGED <<replaying, minimizing, stopping, diagnosis>>
  <2>1. PICK test, policy : StartRecording(test, policy)
    BY <1>1 DEF Record
  <2>2. UNCHANGED <<runtime, trouble, witness, replaying, minimizing>>
    BY <1>1 DEF Record, worldVars
  <2>3. QED
    BY <1>0, <2>1, <2>2, StartingHolds, StartedKeepsRuns
<1>2. CASE StartBreak /\ UNCHANGED diagnosis
  BY <1>0, <1>2, OthersKeepRuns DEF StartBreak, worldVars
<1>3. CASE StartReplay /\ UNCHANGED <<minimizing, stopping, diagnosis>>
  BY <1>3, ReplayKeepsRuns
<1>4. CASE StartMinimization /\ UNCHANGED <<stopping, diagnosis>>
  BY <1>4, SearchKeepsRuns
<1>5. CASE /\ StartDiagnosis(View(witness)) \/ AskSufficiency(View(witness))
           /\ UNCHANGED <<runtime, disk, witness, recording, replaying, minimizing, stopping>>
  <2>1. CASE StartDiagnosis(View(witness))
    <3>1. UNCHANGED trouble
      BY <2>1 DEF StartDiagnosis
    <3>2. QED
      BY <1>0, <1>5, <3>1, OthersKeepRuns
  <2>2. CASE AskSufficiency(View(witness))
    <3>1. PICK down \in BOOLEAN : Mishap(down)
      BY <2>2 DEF AskSufficiency
    <3>2. trouble' \in Nat
      BY <1>0, <3>1, MishapCounts
    <3>3. QED
      BY <1>5, <3>2, OthersKeepRuns
  <2>3. QED
    BY <1>5, <2>1, <2>2
<1>6. CASE AskTrace \/ AskWhy \/ AskWatch \/ AskInspect \/ AskStops
  <2>1. UNCHANGED <<runtime, trouble, witness, recording, replaying, minimizing>>
    BY <1>6 DEF AskTrace, AskWhy, AskWatch, AskInspect, AskStops, Answer, commandVars, worldVars
  <2>2. QED
    BY <1>0, <2>1, OthersKeepRuns
<1>7. QED
  BY <1>1, <1>2, <1>3, <1>4, <1>5, <1>6 DEF Command

LEMMA StepsKeepRuns ==
  ASSUME CommandInv, RunsInv, CommandStep
  PROVE  RunsInv'
<1>0. trouble \in Nat
  BY DEF RunsInv
<1>1. CASE RecordingStep /\ UNCHANGED <<replaying, minimizing, stopping, diagnosis>>
  BY <1>1, RecordingKeepsRuns
<1>2. CASE ReplayStep /\ UNCHANGED <<minimizing, stopping, diagnosis>>
  BY <1>2, ReplayKeepsRuns
<1>3. CASE MinimizationStep /\ UNCHANGED <<stopping, diagnosis>>
  BY <1>3, SearchKeepsRuns
<1>4. CASE StopStep /\ UNCHANGED diagnosis
  <2>1. CASE FetchSourceMap
    <3>1. UNCHANGED <<runtime, witness, replaying, minimizing>>
      BY <2>1 DEF FetchSourceMap
    <3>2. PICK late \in BOOLEAN : Mishap(late)
      BY <2>1, Zenon DEF FetchSourceMap
    <3>3. trouble' \in Nat
      BY <1>0, <3>2, MishapCounts
    <3>4. (\E policy : StartRecording(NoTest, policy)) \/ UNCHANGED recording
      BY <2>1 DEF FetchSourceMap, RecordTarget, AnswerBreak
    <3>5. QED
      BY <3>1, <3>3, <3>4, StartingHolds, StartedKeepsRuns, OthersKeepRuns
  <2>2. CASE FinishBreak
    BY <1>0, <2>2, OthersKeepRuns DEF FinishBreak, worldVars
  <2>3. QED
    BY <1>4, <2>1, <2>2 DEF StopStep
<1>5. CASE DiagnosisStep /\ UNCHANGED <<runtime, disk, witness, recording, replaying, minimizing, stopping>>
  <2>1. PICK down \in BOOLEAN : Mishap(down)
    BY <1>5, Zenon DEF DiagnosisStep, DecideNext, Project
  <2>2. trouble' \in Nat
    BY <1>0, <2>1, MishapCounts
  <2>3. QED
    BY <1>5, <2>2, OthersKeepRuns
<1>6. QED
  BY <1>1, <1>2, <1>3, <1>4, <1>5 DEF CommandStep

LEMMA RunsInit == Init => RunsInv
<1> SUFFICES ASSUME Init PROVE RunsInv
  OBVIOUS
<1>1. /\ runtime \in Runtimes /\ trouble = MaxTrouble /\ witness = NoWitness
      /\ recording = NotRecording /\ replaying = NotReplaying /\ minimizing = NotMinimizing
  BY DEF Init, RecordingInit, ReplayInit, MinimizationInit
<1>2. RecordingRuns /\ ReplayRuns
  BY <1>1 DEF RecordingRuns, ReplayRuns, NotRecording, NotReplaying
<1>3. WitnessRuns /\ SearchRuns
  BY <1>1 DEF WitnessRuns, SearchRuns
<1>4. QED
  BY <1>1, <1>2, <1>3, TroubleAssumption DEF RunsInv

LEMMA RunsStep == CommandInv /\ RunsInv /\ [Next]_workbenchVars => RunsInv'
<1> SUFFICES ASSUME CommandInv, RunsInv, [Next]_workbenchVars PROVE RunsInv'
  OBVIOUS
<1>0. trouble \in Nat
  BY DEF RunsInv
<1>1. CASE Command
  BY <1>1, StartsKeepRuns
<1>2. CASE CommandStep
  BY <1>2, StepsKeepRuns
<1>3. CASE ReadReport
  BY <1>0, <1>3, OthersKeepRuns DEF ReadReport, worldVars, commandVars
<1>4. CASE Edit /\ UNCHANGED <<replaying, minimizing, stopping, diagnosis>>
  <2>1. trouble' \in Nat /\ UNCHANGED <<runtime, witness, recording>>
    BY <1>0, <1>4 DEF Edit
  <2>2. QED
    BY <1>4, <2>1, OthersKeepRuns
<1>5. CASE Archive \/ UNCHANGED workbenchVars
  <2>1. UNCHANGED <<runtime, trouble, witness, recording, replaying, minimizing>>
    BY <1>5
       DEF Archive, workbenchVars, stopVars, minimizationVars, replayVars, recordingVars, worldVars
  <2>2. QED
    BY <1>0, <2>1, OthersKeepRuns
<1>6. QED
  BY <1>1, <1>2, <1>3, <1>4, <1>5 DEF Next, Developer

\* A run whose outcome is ordinary was in time, was accepted and was classified
\* by the core, and its signature is then the one of its document alone.
LEMMA OrdinarySignature ==
  ASSUME RunsInv, witness # NoWitness, witness.test = NoTest, Ordinary(witness)
  PROVE  WitnessSignature(witness.outcome) = ExecutionSignature(Printed(witness.ran, FALSE))
<1> DEFINE d == runtime.runs[witness.ran.program][witness.ran.request]
<1>1. /\ d.valid /\ d.ends /\ ~d.effect /\ ~d.long
      /\ d.status \in {"returned", "runtime_failure"}
      /\ witness.outcome.failure_class \in {"success", "runtime_failure"}
  BY DEF Ordinary
<1>2. PICK late, valid, coreUp \in BOOLEAN :
        witness.outcome = Outcome([Printed(witness.ran, late) EXCEPT !.valid = valid], NoTest, coreUp)
  BY DEF RunsInv, WitnessRuns, Judged
<1>3. /\ runtime \in Runtimes /\ witness.ran \in Files
  BY DEF RunsInv, WitnessRuns
<1>4. /\ {"valid", "ends", "status", "failure", "effect", "returned"} \subseteq DOMAIN Printed(witness.ran, late)
  BY <1>3, PrintedFields
<1>5. Printed(witness.ran, FALSE) = d /\ Printed(witness.ran, late) = IF late THEN Killed(d) ELSE d
  BY DEF Printed
<1>6. {"valid", "ends", "status", "failure", "effect", "returned"} \subseteq DOMAIN d
  BY <1>3, RuntimeAssumption DEF Files
<1> HIDE DEF d
<1> DEFINE j == [Printed(witness.ran, late) EXCEPT !.valid = valid]
<1>7. /\ j.valid = valid
      /\ ~late => /\ j.ends = d.ends /\ j.status = d.status /\ j.failure = d.failure
                  /\ j.effect = d.effect /\ j.returned = d.returned
      /\ late => ~j.ends
  BY <1>4, <1>5, <1>6 DEF Killed
<1>8. witness.outcome = Outcome(j, NoTest, coreUp)
  BY <1>2
<1> HIDE DEF j
<1>9. ~late
  BY <1>1, <1>7, <1>8 DEF Outcome
<1>10. coreUp /\ valid
  <2>1. RuntimeStatus(j) = IF ~valid THEN "CompileFailure"
                           ELSE IF d.status = "returned" THEN "Returned" ELSE "RuntimeFailure"
    <3>1. j.valid = valid /\ j.ends /\ j.status = d.status
      BY <1>1, <1>7, <1>9
    <3>2. CASE ~valid
      BY <3>1, <3>2 DEF RuntimeStatus
    <3>3. CASE valid /\ d.status = "returned"
      BY <3>1, <3>3 DEF RuntimeStatus
    <3>4. CASE valid /\ d.status = "runtime_failure"
      BY <3>1, <3>4 DEF RuntimeStatus
    <3>5. QED
      BY <1>1, <3>2, <3>3, <3>4
  <2>2. NoTest.kind = "none" /\ NoTest.verdict = "none"
    BY DEF NoTest
  <2>3. j.ends /\ ~j.effect
    BY <1>1, <1>7, <1>9
  <2>4. coreUp
    <3>1. ~coreUp => Classify(j, NoTest, coreUp) = "unavailable"
      BY DEF Classify
    <3>2. ~coreUp => witness.outcome.failure_class = "infrastructure_bootstrap_failure"
      BY <1>8, <2>2, <2>3, <3>1 DEF Outcome
    <3>3. QED
      BY <1>1, <3>2
  <2>5. valid
    <3>1. ~valid => Classify(j, NoTest, coreUp) = "compile_failure"
      BY <2>1, <2>2, <2>3, <2>4 DEF Classify, Decide
    <3>2. ~valid => witness.outcome.failure_class = "compile_failure"
      BY <1>8, <2>2, <2>3, <3>1 DEF Outcome
    <3>3. QED
      BY <1>1, <3>2
  <2>6. QED
    BY <2>4, <2>5
<1>11. witness.outcome =
         [status |-> d.status,
          failure_class |-> IF d.status = "returned" THEN "success" ELSE "runtime_failure",
          failure |-> d.failure, returned_digest |-> d.returned, test_id |-> NoId]
  <2>1. j.valid /\ j.ends /\ ~j.effect /\ j.status = d.status
    BY <1>1, <1>7, <1>9, <1>10
  <2>2. RuntimeStatus(j) = IF d.status = "returned" THEN "Returned" ELSE "RuntimeFailure"
    BY <1>1, <2>1 DEF RuntimeStatus
  <2>3. NoTest.kind = "none" /\ NoTest.verdict = "none" /\ NoTest.id = NoId
    BY DEF NoTest
  <2>4. Classify(j, NoTest, coreUp) = IF d.status = "returned" THEN "success" ELSE "runtime_failure"
    BY <1>10, <2>1, <2>2, <2>3 DEF Classify, Decide
  <2>5. QED
    BY <1>1, <1>7, <1>8, <1>9, <2>1, <2>3, <2>4 DEF Outcome
<1>12. ExecutionSignature(d) =
         [failure_class |-> IF d.status = "returned" THEN "success" ELSE "runtime_failure",
          status |-> d.status, failure |-> d.failure, test_id |-> NoId, returned_digest |-> d.returned]
  BY <1>1 DEF ExecutionSignature
<1>13. QED
  BY <1>5, <1>11, <1>12 DEF WitnessSignature

\* The witness of an ordinary run reproduces, whatever the language, the program
\* and its requests are and however often the files were edited since, if they
\* stay as they are under the replay that runs them (replay_execute).
THEOREM OrdinaryWitnessesReproduce == Spec => OrdinaryRunsReproduce
<1> DEFINE Lucky == /\ replaying.step = "execute" /\ replaying' = NotReplaying /\ trouble' = trouble
                    /\ Undisturbed(witness) /\ Ordinary(witness)
                    /\ replaying.inputs.where = "files" =>
                         disk = [program |-> witness.program, request |-> witness.request]
<1>1. CommandInv /\ RunsInv /\ [Next]_workbenchVars
        => [Lucky => report'.status = "reproduced"]_workbenchVars
  <2> SUFFICES ASSUME CommandInv, RunsInv, Next, Lucky PROVE report'.status = "reproduced"
    OBVIOUS
  <2>1. replaying # NotReplaying /\ UNCHANGED replaying => FALSE
    BY DEF NotReplaying
  <2>2. replaying # NotReplaying /\ ~UNCHANGED replaying
    BY <2>1 DEF NotReplaying
  <2>3. ReplayStep
    <3>1. ~Archive
      BY <2>2 DEF Archive, stopVars, minimizationVars, replayVars
    <3>2. ~Command /\ ~ReadReport
      BY <2>2 DEF Command, ReadReport, Idle
    <3>3. CommandStep
      BY <2>2, <3>1, <3>2 DEF Next, Developer
    <3>4. ~StopStep
      BY <2>2 DEF StopStep, FetchSourceMap, FinishBreak
    <3>5. ~MinimizationStep
      BY <2>2 DEF MinimizationStep, TryCandidate, NoReduction, Reduce
    <3>6. QED
      BY <2>2, <3>3, <3>4, <3>5 DEF CommandStep
  <2>4. ExecuteReplay
    BY <2>3 DEF ReplayStep, OpenReplay, ValidateReplay
  <2>5. PICK down, late \in BOOLEAN :
          /\ Mishap(down \/ late)
          /\ ~down => CompareReplay(ExecutionSignature(Printed(FilesOf(replaying.inputs), late)))
    BY <2>4 DEF ExecuteReplay
  <2>6. ~down /\ ~late
    BY <2>5, MishapCounts DEF RunsInv
  <2>7. report' = ReplayReport(IF Reproduces(ExecutionSignature(Printed(FilesOf(replaying.inputs), FALSE)))
                               THEN "reproduced" ELSE "mismatch")
    BY <2>5, <2>6 DEF CompareReplay
  <2>8. witness # NoWitness /\ witness.test = NoTest
    BY DEF RunsInv, ReplayRuns
  <2>9. /\ FilesOf(replaying.inputs).program = witness.ran.program
        /\ FilesOf(replaying.inputs).request = witness.ran.request
    BY DEF RunsInv, ReplayRuns, FilesOf, Undisturbed
  <2>10. Printed(FilesOf(replaying.inputs), FALSE) = Printed(witness.ran, FALSE)
    BY <2>9 DEF Printed
  <2>11. Reproduces(ExecutionSignature(Printed(FilesOf(replaying.inputs), FALSE)))
    BY <2>8, <2>10, OrdinarySignature DEF Reproduces
  <2>12. QED
    BY <2>7, <2>11 DEF ReplayReport
<1>2. Spec => []RunsInv
  BY RunsInit, RunsStep, CommandsKeepInvariant, PTL DEF Spec
<1>3. QED
  BY <1>1, <1>2, CommandsKeepInvariant, PTL DEF Spec, OrdinaryRunsReproduce

-----------------------------------------------------------------------------
(* What a decision is made from.                                           *)

\* A view of a witness.
Viewed(v) ==
  /\ v.observed.schema = "trace"
  /\ v.tests \in Seq({v.tests[n] : n \in 1..Len(v.tests)})
  /\ \A n \in 1..Len(v.tests) : v.tests[n].schema = "test"
  /\ v.replaying \in BOOLEAN

LEMMA ViewShape == ASSUME NEW w PROVE Viewed(View(w))
<1>1. /\ View(w).observed.schema = "trace" /\ View(w).replaying \in BOOLEAN
      /\ View(w).tests = <<>>
         \/ View(w).tests = <<[schema |-> "test", failed |-> w.test.verdict = "FAIL"]>>
  BY DEF View, ObservedOf
<1>2. CASE View(w).tests = <<>>
  BY <1>1, <1>2 DEF Viewed
<1>3. CASE View(w).tests = <<[schema |-> "test", failed |-> w.test.verdict = "FAIL"]>>
  BY <1>1, <1>3 DEF Viewed
<1>4. QED BY <1>1, <1>2, <1>3

\* What is added to the documents: it holds one trace, the witness's own.
Rest(v) == v.tests \o OwnEvidence(v)
RestItems(v) == {v.tests[n] : n \in 1..Len(v.tests)} \cup {OwnEvidence(v)[n] : n \in 1..2}

LEMMA RestShape ==
  ASSUME NEW v, Viewed(v)
  PROVE  /\ Rest(v) \in Seq(RestItems(v))
         /\ \A n \in 1..Len(Rest(v)) :
              /\ Rest(v)[n].schema \in {"test", "trace", "provenance"}
              /\ Rest(v)[n].schema = "trace" => Rest(v)[n] = v.observed
<1> DEFINE more == [schema |-> "provenance",
                    claims |-> <<[kind |-> "value_origin_chain", status |-> "available"]>>]
           own == OwnEvidence(v)
<1>1. own = IF v.exact THEN <<v.observed, more>> ELSE <<v.observed>>
  BY DEF OwnEvidence
<1>2. more.schema = "provenance"
  OBVIOUS
<1> HIDE DEF more, own
<1>3. /\ own \in Seq({own[n] : n \in 1..2}) /\ Len(own) \in 1..2
      /\ \A n \in 1..Len(own) : own[n] = v.observed \/ own[n] = more
  <2>1. CASE own = <<v.observed>>
    <3>1. own[1] = v.observed /\ Len(own) = 1 BY <2>1
    <3>2. v.observed \in {own[n] : n \in 1..2} BY <3>1
    <3> DEFINE T == {own[n] : n \in 1..2}
    <3> HIDE DEF T
    <3>3. own \in Seq(T) BY <2>1, <3>2 DEF T
    <3>4. QED BY <3>1, <3>3 DEF T
  <2>2. CASE own = <<v.observed, more>>
    <3>1. own[1] = v.observed /\ own[2] = more /\ Len(own) = 2 BY <2>2
    <3>2. v.observed \in {own[n] : n \in 1..2} /\ more \in {own[n] : n \in 1..2} BY <3>1
    <3> DEFINE T == {own[n] : n \in 1..2}
    <3>3. v.observed \in T /\ more \in T BY <3>2
    <3> HIDE DEF T
    <3>4. own \in Seq(T) BY <2>2, <3>3
    <3>5. QED BY <3>1, <3>4 DEF T
  <2>3. QED BY <1>1, <2>1, <2>2
<1>4. own \in Seq(RestItems(v)) /\ v.tests \in Seq(RestItems(v))
  <2>1. own = OwnEvidence(v) BY DEF own
  <2>2. {own[n] : n \in 1..2} \subseteq RestItems(v) BY <2>1 DEF RestItems
  <2>3. {v.tests[n] : n \in 1..Len(v.tests)} \subseteq RestItems(v) BY DEF RestItems
  <2> HIDE DEF RestItems
  <2>4. QED BY <1>3, <2>2, <2>3 DEF Viewed
<1>5. Rest(v) = v.tests \o own BY DEF Rest, own
<1>6. /\ Rest(v) \in Seq(RestItems(v)) /\ Len(Rest(v)) = Len(v.tests) + Len(own)
      /\ \A n \in 1..Len(Rest(v)) :
           Rest(v)[n] = IF n <= Len(v.tests) THEN v.tests[n] ELSE own[n - Len(v.tests)]
  BY <1>4, <1>5, ConcatProperties
<1>7. ASSUME NEW n \in 1..Len(Rest(v))
      PROVE  /\ Rest(v)[n].schema \in {"test", "trace", "provenance"}
             /\ Rest(v)[n].schema = "trace" => Rest(v)[n] = v.observed
  <2>1. Len(v.tests) \in Nat /\ Len(own) \in Nat BY <1>4
  <2>2. CASE n <= Len(v.tests)
    <3>1. n \in 1..Len(v.tests) /\ Rest(v)[n] = v.tests[n] BY <1>6, <2>1, <2>2
    <3>2. QED BY <3>1 DEF Viewed
  <2>3. CASE n > Len(v.tests)
    <3>1. n - Len(v.tests) \in 1..Len(own) /\ Rest(v)[n] = own[n - Len(v.tests)]
      BY <1>6, <2>1, <2>3
    <3>2. Rest(v)[n] = v.observed \/ Rest(v)[n] = more BY <1>3, <3>1
    <3>3. QED BY <1>2, <3>2 DEF Viewed
  <2>4. QED BY <2>1, <2>2, <2>3
<1>8. QED BY <1>6, <1>7

\* A sequence, of whatever its elements are.
IsSeq(s) == s \in Seq({s[n] : n \in 1..Len(s)})

LEMMA EvidenceShape ==
  ASSUME NEW v, Viewed(v), NEW docs, IsSeq(docs)
  PROVE  LET all == AllEvidence(v, docs)
         IN /\ Len(docs) \in Nat /\ Len(Rest(v)) \in Nat
            /\ DOMAIN all = 1..(Len(docs) + Len(Rest(v)))
            /\ \A n \in 1..Len(docs) : all[n] = docs[n]
            /\ \A n \in 1..Len(Rest(v)) : all[Len(docs) + n] = Rest(v)[n]
<1> DEFINE S == {docs[n] : n \in 1..Len(docs)} \cup RestItems(v)
           all == AllEvidence(v, docs)
           rest == Rest(v)
<1>1. rest \in Seq(S)
  <2>1. rest \in Seq(RestItems(v)) BY RestShape
  <2>2. RestItems(v) \subseteq S OBVIOUS
  <2> HIDE DEF S, rest
  <2>3. QED BY <2>1, <2>2
<1>2. docs \in Seq(S)
  <2>1. {docs[n] : n \in 1..Len(docs)} \subseteq S OBVIOUS
  <2> HIDE DEF S
  <2>2. QED BY <2>1 DEF IsSeq
<1>3. all = docs \o rest
  BY DEF AllEvidence, Rest
<1> HIDE DEF S, all, rest
<1>6. /\ all \in Seq(S) /\ Len(all) = Len(docs) + Len(rest)
      /\ \A n \in 1..(Len(docs) + Len(rest)) :
           all[n] = IF n <= Len(docs) THEN docs[n] ELSE rest[n - Len(docs)]
  BY <1>1, <1>2, <1>3, ConcatProperties
<1>7. Len(docs) \in Nat /\ Len(rest) \in Nat BY <1>1, <1>2
<1>8. DOMAIN all = 1..(Len(docs) + Len(rest)) BY <1>6, <1>7
<1>9. \A n \in 1..Len(docs) : all[n] = docs[n] BY <1>6, <1>7
<1>10. ASSUME NEW n \in 1..Len(rest) PROVE all[Len(docs) + n] = rest[n]
  <2>1. /\ Len(docs) + n \in 1..(Len(docs) + Len(rest))
        /\ ~(Len(docs) + n <= Len(docs)) /\ (Len(docs) + n) - Len(docs) = n
    BY <1>7
  <2>2. QED BY <1>6, <2>1
<1>11. QED BY <1>7, <1>8, <1>9, <1>10 DEF all, rest

\* Each fact is one or it is not.
AreFacts(facts) ==
  /\ facts.failure_anchor_present \in BOOLEAN /\ facts.operation_identity_present \in BOOLEAN
  /\ facts.observation_complete \in BOOLEAN /\ facts.provenance_binding_present \in BOOLEAN
  /\ facts.replay_mismatch \in BOOLEAN /\ facts.replay_established \in BOOLEAN

LEMMA FactsAreFacts ==
  ASSUME NEW documents
  PROVE  AreFacts(Facts(documents))
BY DEF Facts, AreFacts

\* A decision that nothing is missing has all it asked for.
LEMMA NothingMissing ==
  ASSUME NEW facts, AreFacts(facts), NEW requested \in BOOLEAN, NEW budget,
         Decision(facts, requested, budget).status = "sufficient"
  PROVE  /\ facts.failure_anchor_present /\ facts.operation_identity_present
         /\ facts.observation_complete /\ facts.provenance_binding_present
         /\ ~facts.replay_mismatch
         /\ requested => facts.replay_established
<1>1. Gap(facts, requested /\ ~facts.replay_established, facts.replay_mismatch) = "none"
  BY DEF Decision
<1>2. QED BY <1>1 DEF Gap, AreFacts

\* What calls an observation complete is a complete trace, the witness's own or
\* one of the documents.
LEMMA CompleteTrace ==
  ASSUME NEW v, Viewed(v), NEW docs, IsSeq(docs), Weighed(v, docs).observation_complete
  PROVE  \/ v.observed.completeness = "complete"
         \/ \E n \in 1..Len(docs) : docs[n].schema = "trace" /\ docs[n].completeness = "complete"
<1> DEFINE all == AllEvidence(v, docs)
<1>1. PICK n \in TracePlaces(all) : TraceObservation(all[n]).completeness = "complete"
  BY DEF Weighed, Facts, Packed
<1>2. n \in DOMAIN all /\ all[n].schema = "trace" /\ all[n].completeness = "complete"
  BY <1>1 DEF TracePlaces, Places, TraceObservation
<1>3. /\ Len(docs) \in Nat /\ Len(Rest(v)) \in Nat
      /\ DOMAIN all = 1..(Len(docs) + Len(Rest(v)))
      /\ \A m \in 1..Len(docs) : all[m] = docs[m]
      /\ \A m \in 1..Len(Rest(v)) : all[Len(docs) + m] = Rest(v)[m]
  BY EvidenceShape
<1> HIDE DEF all
<1>4. CASE n <= Len(docs)
  <2>1. n \in 1..Len(docs) BY <1>2, <1>3, <1>4
  <2>2. QED BY <1>2, <1>3, <2>1
<1>5. CASE n > Len(docs)
  <2>1. n - Len(docs) \in 1..Len(Rest(v)) /\ Len(docs) + (n - Len(docs)) = n
    BY <1>2, <1>3, <1>5
  <2>2. all[n] = Rest(v)[n - Len(docs)] BY <1>3, <2>1
  <2>3. all[n] = v.observed BY <1>2, <2>1, <2>2, RestShape
  <2>4. QED BY <1>2, <2>3
<1>6. QED BY <1>2, <1>3, <1>4, <1>5

\* Documents that hold all the others hold, and overflow nothing, establish all
\* they did: each array but those of replays and minimizations only gains, and
\* those change only if they were empty.
LEMMA MoreFacts ==
  ASSUME NEW old, NEW new, NEW e,
         \A n \in DOMAIN old : e[n] \in DOMAIN new /\ new[e[n]] = old[n],
         ~Overflows(TracePlaces(new), TraceCap), ~Overflows(ClaimPlaces(new), ProvenanceCap),
         \A s \in {"replay", "minimization"} :
           \/ Places(old, {s}) = {}
           \/ /\ Places(new, {s}) = Places(old, {s})
              /\ \A n \in Places(old, {s}) : new[n] = old[n],
         NEW f \in FactNames, Facts(old)[f]
  PROVE  Facts(new)[f]
<1> DEFINE T(d) == {TraceObservation(d[n]) : n \in Packed(TracePlaces(d), TraceCap)}
           C(d) == {d[p[1]].claims[p[2]] : p \in Packed(ClaimPlaces(d), ProvenanceCap)}
           R(d) == {d[n].status : n \in Packed(Places(d, {"replay"}), ReplayCap)}
           M(d) == {d[n].status : n \in Packed(Places(d, {"minimization"}), MinimizationCap)}
<1>1. T(old) \subseteq T(new)
  <2> SUFFICES ASSUME NEW n \in Packed(TracePlaces(old), TraceCap)
               PROVE  TraceObservation(old[n]) \in T(new)
    OBVIOUS
  <2>1. n \in DOMAIN old /\ old[n].schema \in {"trace", "test"}
    BY DEF Packed, TracePlaces, Places
  <2>2. e[n] \in TracePlaces(new)
    BY <2>1 DEF TracePlaces, Places
  <2>3. e[n] \in Packed(TracePlaces(new), TraceCap) /\ new[e[n]] = old[n]
    BY <2>1, <2>2 DEF Packed
  <2>4. TraceObservation(new[e[n]]) = TraceObservation(old[n])
    BY <2>3
  <2>5. QED
    BY <2>3, <2>4
<1>2. C(old) \subseteq C(new)
  <2> SUFFICES ASSUME NEW p \in Packed(ClaimPlaces(old), ProvenanceCap)
               PROVE  old[p[1]].claims[p[2]] \in C(new)
    OBVIOUS
  <2>1. PICK n \in Places(old, {"provenance"}) : p \in {n} \X DOMAIN old[n].claims
    BY DEF Packed, ClaimPlaces
  <2>2. p[1] = n /\ p[2] \in DOMAIN old[n].claims
    BY <2>1
  <2>3. n \in DOMAIN old /\ old[n].schema = "provenance"
    BY DEF Places
  <2> DEFINE q == <<e[n], p[2]>>
  <2>4. e[n] \in Places(new, {"provenance"}) /\ new[e[n]] = old[n]
    BY <2>3 DEF Places
  <2>5. q \in {e[n]} \X DOMAIN new[e[n]].claims
    BY <2>2, <2>4
  <2>6. q \in ClaimPlaces(new)
    BY <2>4, <2>5 DEF ClaimPlaces
  <2>7. q \in Packed(ClaimPlaces(new), ProvenanceCap)
    BY <2>6 DEF Packed
  <2>8. new[q[1]].claims[q[2]] = old[p[1]].claims[p[2]]
    BY <2>2, <2>4
  <2> HIDE DEF q
  <2>9. QED
    BY <2>7, <2>8
<1>3. R(old) \subseteq R(new)
  <2>1. CASE Places(old, {"replay"}) = {}
    BY <2>1 DEF Packed
  <2>2. CASE /\ Places(new, {"replay"}) = Places(old, {"replay"})
             /\ \A n \in Places(old, {"replay"}) : new[n] = old[n]
    <3>1. Packed(Places(old, {"replay"}), ReplayCap) \subseteq Places(old, {"replay"})
      BY DEF Packed
    <3>2. QED
      BY <2>2, <3>1
  <2>3. QED
    BY <2>1, <2>2
<1>4. M(old) \subseteq M(new)
  <2>1. CASE Places(old, {"minimization"}) = {}
    BY <2>1 DEF Packed
  <2>2. CASE /\ Places(new, {"minimization"}) = Places(old, {"minimization"})
             /\ \A n \in Places(old, {"minimization"}) : new[n] = old[n]
    <3>1. Packed(Places(old, {"minimization"}), MinimizationCap) \subseteq Places(old, {"minimization"})
      BY DEF Packed
    <3>2. QED
      BY <2>2, <3>1
  <2>3. QED
    BY <2>1, <2>2
<1>5. ASSUME NEW d
      PROVE  Facts(d) =
               [failure_anchor_present     |-> \E o \in T(d) : o.anchor,
                operation_identity_present |-> \/ \E o \in T(d) : o.operation
                                               \/ \E o \in C(d) : NamesOperation(o),
                observation_complete       |-> \E o \in T(d) : o.completeness = "complete",
                provenance_binding_present |-> \E o \in C(d) : Binds(o),
                replay_established         |-> R(d) \cap {"replayed", "reproduced"} # {},
                replay_mismatch            |-> "mismatch" \in R(d),
                minimization_established   |-> M(d) \cap {"reduced", "no_reduction"} # {}]
  BY DEF Facts
<1> HIDE DEF T, C, R, M
<1>6. \A o \in T(old) : o \in T(new)
  BY <1>1
<1>7. \A o \in C(old) : o \in C(new)
  BY <1>2
<1>8. CASE f = "failure_anchor_present"
  BY <1>5, <1>6, <1>8
<1>9. CASE f = "operation_identity_present"
  BY <1>5, <1>6, <1>7, <1>9
<1>10. CASE f = "observation_complete"
  BY <1>5, <1>6, <1>10
<1>11. CASE f = "provenance_binding_present"
  BY <1>5, <1>7, <1>11
<1>12. CASE f = "replay_established"
  <2>1. /\ Facts(old)[f] = (R(old) \cap {"replayed", "reproduced"} # {})
        /\ Facts(new)[f] = (R(new) \cap {"replayed", "reproduced"} # {})
    BY <1>5, <1>12
  <2>2. R(old) \cap {"replayed", "reproduced"} # {}
    BY <2>1
  <2>3. R(new) \cap {"replayed", "reproduced"} # {}
    BY <1>3, <2>2
  <2>4. QED
    BY <2>1, <2>3
<1>13. CASE f = "replay_mismatch"
  <2>1. Facts(old)[f] = ("mismatch" \in R(old)) /\ Facts(new)[f] = ("mismatch" \in R(new))
    BY <1>5, <1>13
  <2>2. "mismatch" \in R(new)
    BY <1>3, <2>1
  <2>3. QED
    BY <2>1, <2>2
<1>14. CASE f = "minimization_established"
  <2>1. /\ Facts(old)[f] = (M(old) \cap {"reduced", "no_reduction"} # {})
        /\ Facts(new)[f] = (M(new) \cap {"reduced", "no_reduction"} # {})
    BY <1>5, <1>14
  <2>2. M(old) \cap {"reduced", "no_reduction"} # {}
    BY <2>1
  <2>3. M(new) \cap {"reduced", "no_reduction"} # {}
    BY <1>4, <2>2
  <2>4. QED
    BY <2>1, <2>3
<1>15. QED
  BY <1>8, <1>9, <1>10, <1>11, <1>12, <1>13, <1>14 DEF FactNames

\* A document whose schema was not there before forgets nothing.
LEMMA NothingForgotten ==
  ASSUME NEW v, Viewed(v), NEW before, IsSeq(before), NEW x, x.schema \in Schemas,
         \A n \in 1..Len(before) : before[n].schema # x.schema,
         ~Overflows(TracePlaces(AllEvidence(v, Append(before, x))), TraceCap),
         ~Overflows(ClaimPlaces(AllEvidence(v, Append(before, x))), ProvenanceCap),
         NEW f \in FactNames, Weighed(v, before)[f]
  PROVE  Weighed(v, Append(before, x))[f]
<1> DEFINE more == Append(before, x)
           old == AllEvidence(v, before)
           new == AllEvidence(v, more)
           L == Len(before)
           K == Len(Rest(v))
           e == [n \in DOMAIN old |-> IF n <= L THEN n ELSE n + 1]
<1>1. /\ L \in Nat /\ Len(more) = L + 1 /\ more[L + 1] = x
      /\ \A n \in 1..L : more[n] = before[n]
      /\ IsSeq(more)
  BY AppendFacts DEF IsSeq
<1>2. /\ K \in Nat /\ DOMAIN old = 1..(L + K)
      /\ \A n \in 1..L : old[n] = before[n]
      /\ \A n \in 1..K : old[L + n] = Rest(v)[n]
  BY EvidenceShape
<1>3. /\ DOMAIN new = 1..(Len(more) + K)
      /\ \A n \in 1..Len(more) : new[n] = more[n]
      /\ \A n \in 1..K : new[Len(more) + n] = Rest(v)[n]
  <2>1. ASSUME NEW m, IsSeq(m)
        PROVE  /\ DOMAIN AllEvidence(v, m) = 1..(Len(m) + K)
               /\ \A n \in 1..Len(m) : AllEvidence(v, m)[n] = m[n]
               /\ \A n \in 1..K : AllEvidence(v, m)[Len(m) + n] = Rest(v)[n]
    BY <2>1, EvidenceShape
  <2>2. QED
    BY <1>1, <2>1
<1> HIDE DEF more, old, new, L, K
<1>4. ASSUME NEW n \in DOMAIN old PROVE e[n] \in DOMAIN new /\ new[e[n]] = old[n]
  <2>1. n \in 1..(L + K) /\ e[n] = IF n <= L THEN n ELSE n + 1
    BY <1>2
  <2>2. CASE n <= L
    <3>1. n \in 1..L /\ n \in 1..Len(more) /\ n \in 1..(Len(more) + K)
      BY <1>1, <1>2, <2>1, <2>2
    <3>2. QED
      BY <1>1, <1>2, <1>3, <2>1, <2>2, <3>1
  <2>3. CASE n > L
    <3>1. n - L \in 1..K /\ L + (n - L) = n /\ Len(more) + (n - L) = n + 1
          /\ n + 1 \in 1..(Len(more) + K) /\ ~(n <= L)
      BY <1>1, <1>2, <2>1, <2>3
    <3>2. new[n + 1] = Rest(v)[n - L] /\ old[n] = Rest(v)[n - L]
      BY <1>2, <1>3, <3>1
    <3>3. QED
      BY <1>3, <2>1, <3>1, <3>2
  <2>4. QED
    BY <1>1, <2>1, <2>2, <2>3
<1>5. ASSUME NEW s \in {"replay", "minimization"}
      PROVE  \/ Places(old, {s}) = {}
             \/ /\ Places(new, {s}) = Places(old, {s})
                /\ \A n \in Places(old, {s}) : new[n] = old[n]
  <2>1. \A n \in DOMAIN old : old[n].schema = s => n \in 1..L
    <3> SUFFICES ASSUME NEW n \in DOMAIN old, n \notin 1..L PROVE old[n].schema # s
      OBVIOUS
    <3>1. n - L \in 1..K /\ L + (n - L) = n
      BY <1>1, <1>2
    <3>2. old[n] = Rest(v)[n - L]
      BY <1>2, <3>1
    <3>3. QED
      BY <3>1, <3>2, RestShape DEF K
  <2>2. \A n \in DOMAIN new : new[n].schema = s => n \in 1..L \/ n = L + 1
    <3> SUFFICES ASSUME NEW n \in DOMAIN new, n \notin 1..L, n # L + 1 PROVE new[n].schema # s
      OBVIOUS
    <3>1. n - Len(more) \in 1..K /\ Len(more) + (n - Len(more)) = n
      BY <1>1, <1>2, <1>3
    <3>2. new[n] = Rest(v)[n - Len(more)]
      BY <1>3, <3>1
    <3>3. QED
      BY <3>1, <3>2, RestShape DEF K
  <2>3. \A n \in 1..L : /\ n \in DOMAIN old /\ n \in DOMAIN new
                        /\ new[n] = before[n] /\ old[n] = before[n]
    <3>1. \A n \in 1..L : n \in 1..Len(more) /\ n \in 1..(L + K) /\ n \in 1..(Len(more) + K)
      BY <1>1, <1>2
    <3>2. QED
      BY <1>1, <1>2, <1>3, <3>1
  <2>4. new[L + 1] = x
    <3>1. L + 1 \in 1..Len(more)
      BY <1>1
    <3>2. QED
      BY <1>1, <1>3, <3>1
  <2>5. CASE x.schema = s
    <3>1. \A n \in 1..L : before[n].schema # s
      BY <2>5 DEF L
    <3>2. QED
      BY <2>1, <2>3, <3>1 DEF Places
  <2>6. CASE x.schema # s
    BY <2>1, <2>2, <2>3, <2>4, <2>6 DEF Places
  <2>7. QED
    BY <2>5, <2>6
<1>6. /\ ~Overflows(TracePlaces(new), TraceCap) /\ ~Overflows(ClaimPlaces(new), ProvenanceCap)
      /\ Facts(old)[f]
  BY DEF new, old, more, Weighed
<1> HIDE DEF e
<1>7. Facts(new)[f]
  BY <1>4, <1>5, <1>6, MoreFacts
<1>8. QED
  BY <1>7 DEF new, more, Weighed

-----------------------------------------------------------------------------
(* What is called sufficient was earned.                                   *)

\* What a sufficient answer r about the witness w rests on.
Earned(r, w) ==
  r.status = "sufficient" =>
    /\ \A f \in {"failure_anchor_present", "operation_identity_present", "observation_complete",
                 "provenance_binding_present"} : r.facts[f]
    /\ ~r.facts["replay_mismatch"]
    /\ View(w).replaying => r.facts["replay_established"]
    /\ \/ View(w).observed.completeness = "complete"
       \/ \E n \in DOMAIN r.documents :
            r.documents[n].schema = "trace" /\ r.documents[n].completeness = "complete"

\* The answer stays until the developer reads it, and nothing runs meanwhile
\* that could replace the witness it is about.
AnswersEvidence == report.kind \in {"diagnose", "sufficiency"}
EvidenceInv ==
  /\ diagnosis # NotDiagnosing => diagnosis.view = View(witness)
  /\ AnswersEvidence => Idle /\ Earned(report, witness)

\* Every answer is a decision of the core about the evidence it names.
LEMMA DecisionsAreEarned ==
  ASSUME NEW w, NEW docs, IsSeq(docs), NEW budget, NEW up \in BOOLEAN, NEW r,
         r.status = "sufficient" => Judge(View(w), docs, budget, up).status = "sufficient",
         r.facts = Judge(View(w), docs, budget, up).facts, r.documents = docs
  PROVE  Earned(r, w)
<1> SUFFICES ASSUME r.status = "sufficient" PROVE Earned(r, w)
  BY DEF Earned
<1> DEFINE v == View(w)
           facts == Weighed(v, docs)
<1>1. up
  BY DEF Judge, UnsupportedDecision
<1>2. Decision(facts, v.replaying, budget).status = "sufficient" /\ r.facts = facts
  BY <1>1 DEF Judge, Decision
<1>3. Viewed(v) /\ v.replaying \in BOOLEAN
  BY ViewShape DEF Viewed
<1>4. AreFacts(facts)
  BY FactsAreFacts DEF Weighed
<1> HIDE DEF v, facts
<1>5. /\ facts.failure_anchor_present /\ facts.operation_identity_present
      /\ facts.observation_complete /\ facts.provenance_binding_present
      /\ ~facts.replay_mismatch
      /\ v.replaying => facts.replay_established
  BY <1>2, <1>3, <1>4, NothingMissing
<1>6. \/ v.observed.completeness = "complete"
      \/ \E n \in 1..Len(docs) : docs[n].schema = "trace" /\ docs[n].completeness = "complete"
  BY <1>3, <1>5, CompleteTrace DEF facts
<1>7. DOMAIN docs = 1..Len(docs)
  BY DEF IsSeq
<1>8. QED
  BY <1>2, <1>5, <1>6, <1>7 DEF Earned, v

\* A command that says nothing of evidence leaves no answer about it.
LEMMA SilentEvidence ==
  ASSUME EvidenceInv, ~AnswersEvidence, SilentOnDiagnosis,
         diagnosis = NotDiagnosing, UNCHANGED diagnosis
  PROVE  EvidenceInv'
  BY DEF EvidenceInv, AnswersEvidence, Says, SilentOnDiagnosis

\* What a command that starts answers, of evidence.
LEMMA StartsAreEarned ==
  ASSUME CommandInv, EvidenceInv, Command
  PROVE  EvidenceInv'
<1>1. diagnosis = NotDiagnosing /\ ~AnswersEvidence
  BY DEF Command, Idle, AnswersEvidence, NoReport
<1>2. CASE Record /\ UNCHANGED <<replaying, minimizing, stopping, diagnosis>>
  BY <1>1, <1>2, RecordingSilent, SilentEvidence DEF Says, SilentOnDiagnosis
<1>3. CASE StartBreak /\ UNCHANGED diagnosis
  BY <1>1, <1>3, StopSilent, SilentEvidence DEF Says, SilentOnDiagnosis
<1>4. CASE StartReplay /\ UNCHANGED <<minimizing, stopping, diagnosis>>
  BY <1>1, <1>4, ReplaySilent, SilentEvidence DEF Says, SilentOnDiagnosis
<1>5. CASE StartMinimization /\ UNCHANGED <<stopping, diagnosis>>
  BY <1>1, <1>5, MinimizationSilent, SilentEvidence DEF Says, SilentOnDiagnosis
<1>6. CASE AskTrace \/ AskWhy \/ AskWatch \/ AskInspect \/ AskStops
  <2>1. UNCHANGED diagnosis
    BY <1>6 DEF AskTrace, AskWhy, AskWatch, AskInspect, AskStops, Answer, commandVars
  <2>2. QED
    BY <1>1, <1>6, <2>1, AnswersSilent, SilentEvidence DEF Says, SilentOnDiagnosis
<1>7. CASE StartDiagnosis(View(witness)) /\ UNCHANGED witness
  <2>1. diagnosis'.view = View(witness)
    BY <1>7 DEF StartDiagnosis
  <2>2. report' = NoReport
    BY <1>7 DEF StartDiagnosis
  <2>3. QED
    BY <1>7, <2>1, <2>2 DEF EvidenceInv, AnswersEvidence, NoReport
<1>8. CASE /\ AskSufficiency(View(witness))
           /\ UNCHANGED <<runtime, disk, witness, recording, replaying, minimizing, stopping>>
  <2>1. PICK down \in BOOLEAN, documents \in Evidence :
          LET d == Judge(View(witness), documents, 4, ~down)
          IN report' = [kind |-> "sufficiency", status |-> d.status, facts |-> d.facts,
                        documents |-> documents, exit |-> SufficiencyExit(d.status)]
    BY <1>8 DEF AskSufficiency
  <2> DEFINE up == ~down
             d == Judge(View(witness), documents, 4, up)
  <2>2. report'.status = d.status /\ report'.facts = d.facts /\ report'.documents = documents
    BY <2>1
  <2>3. IsSeq(documents) /\ up \in BOOLEAN
    BY EvidenceAssumption DEF IsSeq
  <2> HIDE DEF up
  <2>4. Earned(report', witness)
    BY <2>2, <2>3, DecisionsAreEarned
  <2>5. Idle' /\ UNCHANGED diagnosis
    BY <1>1, <1>8 DEF AskSufficiency, Command, Idle
  <2>6. QED
    BY <1>1, <1>8, <2>4, <2>5 DEF EvidenceInv
<1>9. QED
  BY <1>2, <1>3, <1>4, <1>5, <1>6, <1>7, <1>8 DEF Command

\* The end of an escalation.
LEMMA ConclusionsAreEarned ==
  ASSUME NEW reason, NEW status, NEW d, NEW facts, NEW w, UNCHANGED witness, witness = w,
         Idle', Conclude(reason, status, d, facts),
         \A r : r.status = status /\ r.facts = facts /\ r.documents = d.documents => Earned(r, w)
  PROVE  EvidenceInv'
<1>1. /\ diagnosis' = NotDiagnosing /\ report'.status = status /\ report'.facts = facts
      /\ report'.documents = d.documents
  BY DEF Conclude
<1>2. Earned(report', w)
  BY <1>1
<1>3. QED
  BY <1>1, <1>2 DEF EvidenceInv

\* A decision ends the escalation with its facts, or goes on to what it names.
DecidedBy(decision) ==
  \/ \E reason, status : /\ Conclude(reason, status, diagnosis, decision.facts)
                         /\ status = "sufficient" => decision.status = "sufficient"
  \/ /\ decision.status # "unsupported"
     /\ diagnosis' = [diagnosis EXCEPT !.step = "project", !.operation = decision.operation,
                                       !.facts = decision.facts]
     /\ UNCHANGED report

LEMMA DecideEnds ==
  ASSUME DecideNext
  PROVE  \E down \in BOOLEAN :
           /\ Mishap(down)
           /\ DecidedBy(Judge(diagnosis.view, diagnosis.documents, diagnosis.most - diagnosis.index,
                              ~down))
<1>1. PICK down \in BOOLEAN :
        /\ Mishap(down)
        /\ LET decision == Judge(diagnosis.view, diagnosis.documents,
                                 diagnosis.most - diagnosis.index, ~down)
           IN CASE decision.status = "sufficient" ->
                     Conclude("sufficient", "sufficient", diagnosis, decision.facts)
                [] decision.status = "unsupported" ->
                     Conclude("unsupported", "unsupported", diagnosis, decision.facts)
                [] decision.status = "ambiguous" /\ decision.stop ->
                     Conclude("budget_exhausted", "unknown", diagnosis, decision.facts)
                [] /\ decision.status = "ambiguous" /\ ~decision.stop
                   /\ decision.operation \in diagnosis.attempted ->
                     Conclude("projection_did_not_increase_evidence", "unknown", diagnosis,
                              decision.facts)
                [] OTHER ->
                     /\ diagnosis' = [diagnosis EXCEPT !.step = "project",
                                                       !.operation = decision.operation,
                                                       !.facts = decision.facts]
                     /\ UNCHANGED report
  BY Zenon DEF DecideNext
<1> DEFINE decision == Judge(diagnosis.view, diagnosis.documents,
                             diagnosis.most - diagnosis.index, ~down)
<1> HIDE DEF decision
<1>2. DecidedBy(decision)
  BY <1>1 DEF DecidedBy, decision
<1>3. QED
  BY <1>1, <1>2 DEF decision

LEMMA EscalationsAreEarned ==
  ASSUME CommandInv, EvidenceInv, DiagnosisStep,
         UNCHANGED <<runtime, disk, witness, recording, replaying, minimizing, stopping>>
  PROVE  EvidenceInv'
<1> DEFINE d == diagnosis
           v == View(witness)
<1>1. d # NotDiagnosing
  BY DiagnosisRuns
<1>2. /\ recording = NotRecording /\ replaying = NotReplaying /\ minimizing = NotMinimizing
      /\ stopping = NotStopping /\ Underway(d)
  BY <1>1 DEF CommandInv, OneCommand, DiagnosisInv
<1>3. d.view = v /\ ~AnswersEvidence
  BY <1>1 DEF EvidenceInv, Idle
<1>4. diagnosis' = NotDiagnosing => Idle'
  BY <1>2 DEF Idle
<1>5. CASE DecideNext
  <2>1. PICK down \in BOOLEAN :
          DecidedBy(Judge(d.view, d.documents, d.most - d.index, ~down))
    BY <1>5, DecideEnds
  <2> DEFINE up == ~down
             budget == d.most - d.index
             decision == Judge(v, d.documents, budget, up)
  <2>2. IsSeq(d.documents) /\ up \in BOOLEAN
    BY <1>2 DEF Underway, IsSeq
  <2>3. CASE \E reason, status : /\ Conclude(reason, status, d, decision.facts)
                                 /\ status = "sufficient" => decision.status = "sufficient"
    <3>1. PICK reason, status : /\ Conclude(reason, status, d, decision.facts)
                                /\ status = "sufficient" => decision.status = "sufficient"
      BY <2>3
    <3>2. diagnosis' = NotDiagnosing
      BY <3>1 DEF Conclude
    <3> HIDE DEF up, budget, d
    <3>3. \A r : r.status = status /\ r.facts = decision.facts /\ r.documents = d.documents
                   => Earned(r, witness)
      BY <2>2, <3>1, DecisionsAreEarned
    <3>4. QED
      BY <1>4, <3>1, <3>2, <3>3, ConclusionsAreEarned
  <2>4. CASE /\ diagnosis' = [d EXCEPT !.step = "project", !.operation = decision.operation,
                                       !.facts = decision.facts]
             /\ UNCHANGED report
    <3>1. diagnosis'.view = d.view
      BY <1>2, <2>4 DEF Underway
    <3>2. QED
      BY <1>3, <2>4, <3>1 DEF EvidenceInv, AnswersEvidence
  <2>5. QED
    BY <1>3, <2>1, <2>3, <2>4 DEF DecidedBy
<1>6. CASE Project
  <2>1. PICK down \in BOOLEAN, document \in Projections(diagnosis.view, diagnosis.operation) :
          LET e == [diagnosis EXCEPT !.documents = Append(@, document),
                                     !.attempted = @ \cup {diagnosis.operation}]
              after == IF down THEN NoFacts ELSE Facts(e.documents)
          IN IF \E f \in Increasing : after[f] /\ ~e.facts[f]
             THEN /\ diagnosis' = [e EXCEPT !.step = "decide", !.index = @ + 1]
                  /\ UNCHANGED report
             ELSE Conclude("projection_did_not_increase_evidence", "unknown", e, e.facts)
    BY <1>6, Zenon DEF Project
  <2> DEFINE e == [d EXCEPT !.documents = Append(@, document),
                            !.attempted = @ \cup {d.operation}]
  <2>2. CASE diagnosis' = [e EXCEPT !.step = "decide", !.index = @ + 1] /\ UNCHANGED report
    <3>1. diagnosis'.view = d.view
      BY <1>2, <2>2 DEF Underway
    <3>2. QED
      BY <1>3, <2>2, <3>1 DEF EvidenceInv, AnswersEvidence
  <2>3. CASE Conclude("projection_did_not_increase_evidence", "unknown", e, e.facts)
    <3>1. diagnosis' = NotDiagnosing
      BY <2>3 DEF Conclude
    <3>2. \A r : r.status = "unknown" => Earned(r, witness)
      BY DEF Earned
    <3> HIDE DEF e
    <3>3. QED
      BY <1>4, <2>3, <3>1, <3>2, ConclusionsAreEarned
  <2>4. QED
    BY <2>1, <2>2, <2>3, Zenon
<1>7. QED
  BY <1>5, <1>6 DEF DiagnosisStep

LEMMA EvidenceStep == CommandInv /\ EvidenceInv /\ [Next]_workbenchVars => EvidenceInv'
<1> SUFFICES ASSUME CommandInv, EvidenceInv, [Next]_workbenchVars PROVE EvidenceInv'
  OBVIOUS
<1>0. ~Idle => ~AnswersEvidence
  BY DEF EvidenceInv
<1>1. CASE Command
  BY <1>1, StartsAreEarned
<1>2. CASE CommandStep
  <2>1. CASE RecordingStep /\ UNCHANGED <<replaying, minimizing, stopping, diagnosis>>
    <3>1. recording # NotRecording /\ diagnosis = NotDiagnosing
      BY <2>1, RecordingSteps DEF CommandInv, OneCommand
    <3>2. QED
      BY <1>0, <2>1, <3>1, RecordingSilent, SilentEvidence DEF Says, SilentOnDiagnosis, Idle
  <2>2. CASE ReplayStep /\ UNCHANGED <<minimizing, stopping, diagnosis>>
    <3>1. replaying # NotReplaying /\ diagnosis = NotDiagnosing
      BY <2>2, ReplaySteps DEF CommandInv, OneCommand
    <3>2. QED
      BY <1>0, <2>2, <3>1, ReplaySilent, SilentEvidence DEF Says, SilentOnDiagnosis, Idle
  <2>3. CASE MinimizationStep /\ UNCHANGED <<stopping, diagnosis>>
    <3>1. minimizing # NotMinimizing /\ diagnosis = NotDiagnosing
      BY <2>3, MinimizationSteps DEF CommandInv, OneCommand
    <3>2. QED
      BY <1>0, <2>3, <3>1, MinimizationSilent, SilentEvidence DEF Says, SilentOnDiagnosis, Idle
  <2>4. CASE StopStep /\ UNCHANGED diagnosis
    <3>1. stopping # NotStopping /\ diagnosis = NotDiagnosing
      BY <2>4, StopSteps DEF CommandInv, OneCommand
    <3>2. QED
      BY <1>0, <2>4, <3>1, StopSilent, SilentEvidence DEF Says, SilentOnDiagnosis, Idle
  <2>5. CASE /\ DiagnosisStep
             /\ UNCHANGED <<runtime, disk, witness, recording, replaying, minimizing, stopping>>
    BY <2>5, EscalationsAreEarned
  <2>6. QED
    BY <1>2, <2>1, <2>2, <2>3, <2>4, <2>5 DEF CommandStep
<1>3. CASE ReadReport
  BY <1>3 DEF ReadReport, NoReport, EvidenceInv, AnswersEvidence, commandVars
<1>4. CASE UNCHANGED <<report, witness, commandVars>>
  BY <1>4 DEF EvidenceInv, AnswersEvidence, Idle, commandVars
<1>5. CASE Edit /\ UNCHANGED <<replaying, minimizing, stopping, diagnosis>>
  BY <1>4, <1>5 DEF Edit, commandVars
<1>6. CASE Archive \/ UNCHANGED workbenchVars
  BY <1>4, <1>6
     DEF Archive, workbenchVars, stopVars, minimizationVars, replayVars, recordingVars, commandVars
<1>7. QED
  BY <1>1, <1>2, <1>3, <1>5, <1>6 DEF Next, Developer

\* The facts of a sufficient answer are those of the documents it lists, made of
\* the witness that is still there (diagnostic_sufficiency, diagnostic_loop).
THEOREM AnswersKeepEvidence == Spec => []EvidenceInv
<1>1. Init => EvidenceInv
  BY DEF Init, RecordingInit, DiagnosisInit, EvidenceInv, AnswersEvidence, NoReport
<1>2. QED
  BY <1>1, EvidenceStep, CommandsKeepInvariant, PTL DEF Spec

\* What diagnose and sufficiency call sufficient rests on evidence, for any
\* witness, any documents that are brought along, any lengths of the arrays and
\* any outages of the core (diagnostic_sufficiency, diagnostic_loop).
THEOREM WhatSufficesIsEarned == Spec => []SufficientIsEarned
<1>1. EvidenceInv => SufficientIsEarned
  BY DEF EvidenceInv, AnswersEvidence, Earned, SufficientIsEarned
<1>2. QED
  BY <1>1, AnswersKeepEvidence, PTL

-----------------------------------------------------------------------------
(* What a decision establishes the next one establishes.                   *)

\* The facts an escalation carries: those of its documents while it projects,
\* and those of all of them but the last when it decides again; that one is of
\* a kind that was not there before.
Carries(d) ==
  /\ d.step = "project" => d.facts = Weighed(d.view, d.documents)
  /\ d.step = "decide" /\ d.index > 0 =>
       \E before, x :
         /\ d.documents = Append(before, x) /\ IsSeq(before)
         /\ x.schema \in Schemas /\ \A n \in 1..Len(before) : before[n].schema # x.schema
         /\ d.facts = Weighed(d.view, before)
DecisionInv == diagnosis # NotDiagnosing => Carries(diagnosis)

LEMMA StartCarries == ASSUME NEW view, StartDiagnosis(view) PROVE DecisionInv'
<1>1. diagnosis'.step = "decide" /\ diagnosis'.index = 0
  BY DEF StartDiagnosis
<1>2. QED
  BY <1>1 DEF DecisionInv, Carries

\* What the core decides to project, it decided on the facts.
LEMMA DecideCarries ==
  ASSUME Underway(diagnosis), DecideNext
  PROVE  DecisionInv'
<1> DEFINE d == diagnosis
           decision(down) == Judge(d.view, d.documents, d.most - d.index, ~down)
<1>1. PICK down \in BOOLEAN : DecidedBy(decision(down))
  BY DecideEnds
<1>2. CASE diagnosis' = NotDiagnosing
  BY <1>2 DEF DecisionInv
<1>3. CASE /\ decision(down).status # "unsupported"
           /\ diagnosis' = [d EXCEPT !.step = "project", !.operation = decision(down).operation,
                                     !.facts = decision(down).facts]
  <2>1. decision(down).facts = Weighed(d.view, d.documents)
    BY <1>3 DEF Judge, Decision, UnsupportedDecision
  <2> HIDE DEF decision
  <2>2. /\ diagnosis'.step = "project" /\ diagnosis'.facts = decision(down).facts
        /\ diagnosis'.view = d.view /\ diagnosis'.documents = d.documents
    BY <1>3 DEF Underway
  <2>3. QED
    BY <2>1, <2>2 DEF DecisionInv, Carries
<1>4. QED
  BY <1>1, <1>2, <1>3 DEF DecidedBy, Conclude

\* The document of a projection joins those the facts are of.
LEMMA ProjectCarries ==
  ASSUME Underway(diagnosis), Carries(diagnosis), Project
  PROVE  DecisionInv'
<1> DEFINE d == diagnosis
           e(document) == [diagnosis EXCEPT !.documents = Append(@, document),
                                            !.attempted = @ \cup {diagnosis.operation}]
<1>1. PICK down \in BOOLEAN, document \in Projections(diagnosis.view, diagnosis.operation) :
        IF \E f \in Increasing : (IF down THEN NoFacts ELSE Facts(e(document).documents))[f]
                                 /\ ~e(document).facts[f]
        THEN /\ diagnosis' = [e(document) EXCEPT !.step = "decide", !.index = @ + 1]
             /\ UNCHANGED report
        ELSE Conclude("projection_did_not_increase_evidence", "unknown", e(document),
                      e(document).facts)
  BY Zenon DEF Project
<1>2. CASE Conclude("projection_did_not_increase_evidence", "unknown", e(document),
                    e(document).facts)
  BY <1>2 DEF Conclude, DecisionInv
<1>3. CASE diagnosis' = [e(document) EXCEPT !.step = "decide", !.index = @ + 1]
  <2>1. /\ diagnosis'.step = "decide" /\ diagnosis'.facts = d.facts /\ diagnosis'.view = d.view
        /\ diagnosis'.documents = Append(d.documents, document)
    BY <1>3 DEF Underway
  <2>2. d.step = "project" /\ document.schema = d.operation
    BY DEF Project, Projections, Underway, Schemas
  <2>3. d.operation \in Schemas /\ IsSeq(d.documents)
        /\ \A n \in 1..Len(d.documents) : d.documents[n].schema # d.operation
    BY <2>2 DEF Underway, IsSeq
  <2>4. d.facts = Weighed(d.view, d.documents)
    BY <2>2 DEF Carries
  <2> HIDE DEF d
  <2>5. \E before, x :
          /\ diagnosis'.documents = Append(before, x) /\ IsSeq(before)
          /\ x.schema \in Schemas /\ \A n \in 1..Len(before) : before[n].schema # x.schema
          /\ diagnosis'.facts = Weighed(diagnosis'.view, before)
    <3> WITNESS d.documents, document
    <3>1. QED
      BY <2>1, <2>2, <2>3, <2>4
  <2>6. QED
    BY <2>1, <2>5 DEF DecisionInv, Carries
<1>4. QED
  BY <1>1, <1>2, <1>3, Zenon

\* Only the commands of a diagnosis touch it.
LEMMA DiagnosisTouched ==
  ASSUME [Next]_workbenchVars
  PROVE  UNCHANGED diagnosis \/ DiagnosisStep \/ (diagnosis = NotDiagnosing /\ StartDiagnosis(View(witness)))
<1>1. CASE Command
  <2>1. AskSufficiency(View(witness)) => UNCHANGED diagnosis
    BY DEF AskSufficiency
  <2>2. AskTrace \/ AskWhy \/ AskWatch \/ AskInspect \/ AskStops => UNCHANGED diagnosis
    BY DEF AskTrace, AskWhy, AskWatch, AskInspect, AskStops, Answer, commandVars
  <2>3. diagnosis = NotDiagnosing
    BY <1>1 DEF Command, Idle
  <2>4. QED
    BY <1>1, <2>1, <2>2, <2>3 DEF Command
<1>2. CASE CommandStep
  BY <1>2 DEF CommandStep
<1>3. CASE ReadReport
  BY <1>3 DEF ReadReport, commandVars
<1>4. CASE Edit /\ UNCHANGED <<replaying, minimizing, stopping, diagnosis>>
  BY <1>4
<1>5. CASE Archive \/ UNCHANGED workbenchVars
  BY <1>5 DEF Archive, workbenchVars
<1>6. QED
  BY <1>1, <1>2, <1>3, <1>4, <1>5 DEF Next, Developer

LEMMA DecisionStep == CommandInv /\ DecisionInv /\ [Next]_workbenchVars => DecisionInv'
<1> SUFFICES ASSUME CommandInv, DecisionInv, [Next]_workbenchVars PROVE DecisionInv'
  OBVIOUS
<1>1. CASE UNCHANGED diagnosis
  BY <1>1 DEF DecisionInv, Carries
<1>2. CASE DiagnosisStep
  <2>1. Underway(diagnosis) /\ Carries(diagnosis)
    BY <1>2, DiagnosisRuns DEF CommandInv, DiagnosisInv, DecisionInv
  <2>2. QED
    BY <1>2, <2>1, DecideCarries, ProjectCarries DEF DiagnosisStep
<1>3. CASE StartDiagnosis(View(witness))
  BY <1>3, StartCarries
<1>4. QED
  BY <1>1, <1>2, <1>3, DiagnosisTouched

\* A decision forgets nothing, for any evidence and arrays of any length: what
\* the projection adds was not among the documents, so no array that had room
\* for all of them loses anything (diagnostic_loop, fixed).
THEOREM DecisionsForgetNothing == Spec => FactsGrow
<1> DEFINE all == AllEvidence(diagnosis.view, diagnosis.documents)
           Held == /\ diagnosis.step = "decide" /\ diagnosis.index > 0 /\ trouble' = trouble
                   /\ ~Overflows(TracePlaces(all), TraceCap)
                   /\ ~Overflows(ClaimPlaces(all), ProvenanceCap)
           now == IF diagnosis' = NotDiagnosing THEN report'.facts ELSE diagnosis'.facts
           Grown == \A f \in FactNames : diagnosis.facts[f] => now[f]
<1>1. CommandInv /\ RunsInv /\ EvidenceInv /\ DecisionInv /\ [Next]_workbenchVars
        => [Held => Grown]_workbenchVars
  <2> SUFFICES ASSUME CommandInv, RunsInv, EvidenceInv, DecisionInv, Next, Held PROVE Grown
    OBVIOUS
  <2>1. diagnosis # NotDiagnosing
    BY DEF NotDiagnosing
  <2>2. CASE UNCHANGED diagnosis
    BY <2>1, <2>2
  <2>3. CASE DiagnosisStep
    <3>1. DecideNext /\ Underway(diagnosis) /\ Carries(diagnosis) /\ Viewed(diagnosis.view)
      BY <2>1, <2>3, ViewShape
         DEF DiagnosisStep, Project, CommandInv, DiagnosisInv, DecisionInv, EvidenceInv
    <3>2. now = Weighed(diagnosis.view, diagnosis.documents)
      <4>1. PICK down \in BOOLEAN :
              /\ Mishap(down)
              /\ DecidedBy(Judge(diagnosis.view, diagnosis.documents,
                                 diagnosis.most - diagnosis.index, ~down))
        BY <3>1, DecideEnds
      <4> DEFINE decision == Judge(diagnosis.view, diagnosis.documents,
                                   diagnosis.most - diagnosis.index, ~down)
      <4>2. ~down
        BY <4>1, MishapCounts DEF RunsInv
      <4>3. decision.facts = Weighed(diagnosis.view, diagnosis.documents)
        BY <4>2 DEF Judge, Decision
      <4>4. \A reason, status, facts :
              Conclude(reason, status, diagnosis, facts)
                => diagnosis' = NotDiagnosing /\ report'.facts = facts
        BY DEF Conclude
      <4> HIDE DEF decision
      <4>6. CASE \E reason, status : Conclude(reason, status, diagnosis, decision.facts)
        BY <4>3, <4>4, <4>6
      <4>7. CASE diagnosis' = [diagnosis EXCEPT !.step = "project",
                                                !.operation = decision.operation,
                                                !.facts = decision.facts]
        <5>1. diagnosis'.step = "project" /\ diagnosis'.facts = decision.facts
          BY <3>1, <4>7 DEF Underway
        <5>2. QED
          BY <4>3, <5>1 DEF NotDiagnosing
      <4>8. DecidedBy(decision)
        BY <4>1 DEF decision
      <4>9. QED
        BY <4>6, <4>7, <4>8 DEF DecidedBy
    <3>3. PICK before, x :
            /\ diagnosis.documents = Append(before, x) /\ IsSeq(before)
            /\ x.schema \in Schemas /\ \A n \in 1..Len(before) : before[n].schema # x.schema
            /\ diagnosis.facts = Weighed(diagnosis.view, before)
      BY <3>1 DEF Carries
    <3> HIDE DEF now
    <3>4. QED
      BY <3>1, <3>2, <3>3, NothingForgotten
  <2>4. QED
    BY <2>1, <2>2, <2>3, DiagnosisTouched
<1>2. Init => DecisionInv
  BY DEF Init, DiagnosisInit, DecisionInv
<1>3. Spec => []RunsInv
  BY RunsInit, RunsStep, CommandsKeepInvariant, PTL DEF Spec
<1>4. Spec => []DecisionInv
  BY <1>2, DecisionStep, CommandsKeepInvariant, PTL DEF Spec
<1>5. QED
  BY <1>1, <1>3, <1>4, AnswersKeepEvidence, CommandsKeepInvariant, PTL DEF Spec, FactsGrow

-----------------------------------------------------------------------------
(* Breaks: a target is resolved against the source map of one run of the   *)
(* compiler, and the witness of the next run holds the same map, as long   *)
(* as no mishap was spent.                                                 *)

\* The recording under a break is of the files its target was resolved in, and
\* ends in a witness that has their map.
RecordsTarget ==
  (trouble = MaxTrouble /\ stopping.step = "record" /\ stopping.resolution.status = "resolved") =>
    LET map == runtime.maps[disk.program]
    IN /\ stopping.resolution = Resolve(map, stopping.target)
       /\ recording.step \in {"index", "classify", "seal"} => recording.ran = disk
       /\ recording.step \in {"classify", "seal"} => "map" \in DOMAIN recording /\ recording.map = map
       /\ recording = NotRecording => witness.map = map

\* What a break that recorded has answered is still true of the witness.
AnswersTarget ==
  (trouble = MaxTrouble /\ report.kind = "break" /\ report.set.status = "resolved"
   /\ report.set.executions = 2) =>
    /\ report.set.ops = Resolve(witness.map, report.set.target).ops
    /\ report.set.matched = MatchedEvents(witness, report.set.ops)

StopInv == trouble \in 0..MaxTrouble /\ RecordsTarget /\ AnswersTarget

\* Mishaps are spent and never given back.
LEMMA MishapsSpend ==
  ASSUME trouble \in 0..MaxTrouble, NEW n \in Nat, Mishaps(n)
  PROVE  trouble' \in 0..MaxTrouble /\ (trouble' = MaxTrouble => trouble = MaxTrouble /\ n = 0)
  BY TroubleAssumption DEF Mishaps

Spent ==
  /\ trouble' \in 0..MaxTrouble
  /\ trouble' = MaxTrouble => trouble = MaxTrouble

LEMMA MishapSpends ==
  ASSUME trouble \in 0..MaxTrouble, NEW b \in BOOLEAN, Mishap(b)
  PROVE  Spent /\ (trouble' = MaxTrouble => ~b)
<1>1. CASE b
  <2>1. Mishaps(1)
    BY <1>1 DEF Mishap
  <2>2. QED
    BY <2>1, MishapsSpend DEF Spent
<1>2. CASE ~b
  <2>1. Mishaps(0)
    BY <1>2 DEF Mishap
  <2>2. QED
    BY <1>2, <2>1, MishapsSpend DEF Spent
<1>3. QED
  BY <1>1, <1>2

\* A command changes neither the files nor the language, and spends what it
\* runs into.
LEMMA CommandsSpend ==
  ASSUME trouble \in 0..MaxTrouble, Command \/ CommandStep \/ ReadReport
  PROVE  Spent /\ UNCHANGED <<runtime, disk>>
<1>0. trouble' = trouble => Spent
  BY DEF Spent
<1>1. CASE ReadReport
  BY <1>0, <1>1 DEF ReadReport, worldVars
<1>2. CASE Record \/ StartBreak \/ StartReplay
  BY <1>0, <1>2 DEF Record, StartBreak, StartReplay, worldVars
<1>3. CASE StartMinimization
  <2>1. PICK gone \in BOOLEAN : Mishap(gone)
    BY <1>3, Zenon DEF StartMinimization
  <2>2. QED
    BY <1>3, <2>1, MishapSpends DEF StartMinimization
<1>4. CASE /\ StartDiagnosis(View(witness)) \/ AskSufficiency(View(witness))
           /\ UNCHANGED <<runtime, disk, witness, recording, replaying, minimizing, stopping>>
  <2>1. trouble' = trouble \/ \E down \in BOOLEAN : Mishap(down)
    BY <1>4, Zenon DEF StartDiagnosis, AskSufficiency
  <2>2. QED
    BY <1>0, <1>4, <2>1, MishapSpends
<1>5. CASE AskTrace \/ AskWhy \/ AskWatch \/ AskInspect \/ AskStops
  BY <1>0, <1>5 DEF AskTrace, AskWhy, AskWatch, AskInspect, AskStops, Answer, worldVars
<1>6. CASE RecordingStep
  <2>1. UNCHANGED <<runtime, disk>>
    BY <1>6 DEF RecordingStep, Observe, Execute, IndexStatics, ClassifyRun, SealWitness, worldVars
  <2>2. Spent
    <3>1. Observe => \E b \in BOOLEAN : Mishap(b)
      BY Zenon DEF Observe
    <3>2. Execute => \E b \in BOOLEAN : Mishap(b)
      BY Zenon DEF Execute
    <3>3. ClassifyRun => \E coreUp \in BOOLEAN : Mishap(~coreUp)
      BY Zenon DEF ClassifyRun
    <3>4. IndexStatics \/ SealWitness => trouble' = trouble
      BY DEF IndexStatics, SealWitness, worldVars
    <3>5. QED
      BY <1>0, <1>6, <3>1, <3>2, <3>3, <3>4, MishapSpends DEF RecordingStep
  <2>3. QED
    BY <2>1, <2>2
<1>7. CASE ReplayStep
  <2>1. UNCHANGED <<runtime, disk>>
    BY <1>7 DEF ReplayStep, OpenReplay, ValidateReplay, ExecuteReplay
  <2>2. \E b \in BOOLEAN : Mishap(b)
    <3>1. OpenReplay => \E b \in BOOLEAN : Mishap(b)
      BY Zenon DEF OpenReplay
    <3>2. ValidateReplay \/ ExecuteReplay => \E down, late \in BOOLEAN : Mishap(down \/ late)
      BY Zenon DEF ValidateReplay, ExecuteReplay
    <3>3. QED
      BY <1>7, <3>1, <3>2 DEF ReplayStep
  <2>3. QED
    BY <2>1, <2>2, MishapSpends
<1>8. CASE MinimizationStep
  <2>1. UNCHANGED <<runtime, disk>>
    BY <1>8 DEF MinimizationStep, TryCandidate, NoReduction, Reduce, worldVars
  <2>2. CASE TryCandidate
    <3>1. \E down, late \in BOOLEAN : Mishap(down \/ late)
      BY <2>2, Zenon DEF TryCandidate
    <3>2. QED
      BY <2>1, <3>1, MishapSpends
  <2>3. CASE NoReduction
    BY <1>0, <2>1, <2>3 DEF NoReduction, worldVars
  <2>4. CASE Reduce
    <3> DEFINE cost(b) == IF b THEN 1 ELSE 0
    <3>1. PICK late, later, down \in BOOLEAN : Mishaps(cost(late) + cost(later) + cost(down))
      BY <2>4, Zenon DEF Reduce
    <3>2. cost(late) + cost(later) + cost(down) \in Nat
      OBVIOUS
    <3>3. QED
      BY <2>1, <3>1, <3>2, MishapsSpend DEF Spent
  <2>5. QED
    BY <1>8, <2>2, <2>3, <2>4 DEF MinimizationStep
<1>9. CASE StopStep
  <2>1. CASE FetchSourceMap
    <3>1. PICK late \in BOOLEAN : Mishap(late)
      BY <2>1, Zenon DEF FetchSourceMap
    <3>2. QED
      BY <2>1, <3>1, MishapSpends DEF FetchSourceMap
  <2>2. CASE FinishBreak
    BY <1>0, <2>2 DEF FinishBreak, worldVars
  <2>3. QED
    BY <1>9, <2>1, <2>2 DEF StopStep
<1>10. CASE DiagnosisStep /\ UNCHANGED <<runtime, disk, witness, recording, replaying, minimizing, stopping>>
  <2>1. PICK down \in BOOLEAN : Mishap(down)
    BY <1>10, Zenon DEF DiagnosisStep, DecideNext, Project
  <2>2. QED
    BY <1>10, <2>1, MishapSpends
<1>11. QED
  BY <1>1, <1>2, <1>3, <1>4, <1>5, <1>6, <1>7, <1>8, <1>9, <1>10 DEF Command, CommandStep

\* An edit is a mishap of its own.
LEMMA EditSpends ==
  ASSUME trouble \in 0..MaxTrouble, Edit
  PROVE  Spent /\ trouble' # MaxTrouble
  BY TroubleAssumption DEF Edit, Spent

\* What the recording under a break keeps from step to step.
LEMMA RecordingKeepsTarget ==
  ASSUME CommandInv, RunsInv, StopInv, RecordingStep, UNCHANGED <<stopping, runtime, disk>>, Spent
  PROVE  RecordsTarget'
<1> SUFFICES ASSUME trouble' = MaxTrouble, stopping.step = "record",
                    stopping.resolution.status = "resolved"
             PROVE  RecordsTarget'
  BY DEF RecordsTarget
<1> DEFINE map == runtime.maps[disk.program]
<1>1. /\ stopping.resolution = Resolve(map, stopping.target)
      /\ recording.step \in {"index", "classify", "seal"} => recording.ran = disk
      /\ recording.step \in {"classify", "seal"} => "map" \in DOMAIN recording /\ recording.map = map
  BY DEF StopInv, RecordsTarget, Spent
<1>2. recording.step \in {"index", "classify", "seal"} => "ran" \in DOMAIN recording
  BY DEF RunsInv, RecordingRuns
<1>3. map' = map
  OBVIOUS
<1> HIDE DEF map
<1> SUFFICES /\ recording'.step \in {"index", "classify", "seal"} => recording'.ran = disk
             /\ recording'.step \in {"classify", "seal"}
                  => "map" \in DOMAIN recording' /\ recording'.map = map
             /\ recording' = NotRecording => witness'.map = map
  BY <1>1, <1>3 DEF RecordsTarget, map
<1>4. CASE Observe
  <2>1. PICK g : /\ recording' = With(recording, g) \/ recording' = [recording EXCEPT !.step = "execute"]
                 /\ {"step", "ran"} \subseteq DOMAIN g /\ g.step = "index" /\ g.ran = disk
    BY <1>4 DEF Observe
  <2>2. CASE recording' = With(recording, g)
    BY <2>1, <2>2, WithNew DEF NotRecording
  <2>3. CASE recording' = [recording EXCEPT !.step = "execute"]
    <3>1. "step" \in DOMAIN recording
      BY DEF CommandInv, PhasesOK
    <3>2. QED
      BY <2>3, <3>1 DEF NotRecording
  <2>4. QED
    BY <2>1, <2>2, <2>3
<1>5. CASE Execute
  <2>1. PICK g : /\ recording' = With(recording, g)
                 /\ {"step", "ran"} \subseteq DOMAIN g /\ g.step = "index" /\ g.ran = disk
    BY <1>5 DEF Execute
  <2>2. QED
    BY <2>1, WithNew DEF NotRecording
<1>6. CASE IndexStatics
  <2>1. recording.ran = disk /\ "ran" \in DOMAIN recording
    BY <1>1, <1>2, <1>6 DEF IndexStatics
  <2>2. PICK g : /\ recording' = With(recording, g)
                 /\ DOMAIN g = {"step", "valid", "mapped", "map"}
                 /\ g.step = "classify" /\ g.map = map
    BY <1>6, <2>1 DEF IndexStatics, map
  <2>3. recording'["step"] = "classify" /\ "map" \in DOMAIN recording' /\ recording'["map"] = map
    BY <2>2, WithNew
  <2>4. recording'["ran"] = disk
    BY <2>1, <2>2, WithOld
  <2>5. QED
    BY <2>3, <2>4 DEF NotRecording
<1>7. CASE ClassifyRun
  <2>1. /\ recording.ran = disk /\ "ran" \in DOMAIN recording
        /\ recording.map = map /\ "map" \in DOMAIN recording
    BY <1>1, <1>2, <1>7 DEF ClassifyRun
  <2>2. PICK g : /\ recording' = With(recording, g)
                 /\ DOMAIN g = {"step", "outcome"} /\ g.step = "seal"
    BY <1>7 DEF ClassifyRun
  <2>3. recording'["step"] = "seal"
    BY <2>2, WithNew
  <2>4. /\ recording'["ran"] = disk
        /\ "map" \in DOMAIN recording' /\ recording'["map"] = map
    BY <2>1, <2>2, WithOld
  <2>5. QED
    BY <2>3, <2>4 DEF NotRecording
<1>8. CASE SealWitness
  <2>1. recording.map = map /\ "map" \in DOMAIN recording
    BY <1>1, <1>8 DEF SealWitness
  <2> DEFINE g == [program |-> disk.program, request |-> disk.request, kept |-> TRUE]
             r == With(recording, g)
  <2>2. DOMAIN g = {"program", "request", "kept"}
    OBVIOUS
  <2> HIDE DEF g
  <2>3. r["map"] = map
    BY <2>1, <2>2, WithOld
  <2>4. witness' = NewWitness(r) /\ recording' = NotRecording
    BY <1>8 DEF SealWitness, g
  <2> HIDE DEF r
  <2>5. witness'.map = map
    BY <2>3, <2>4 DEF NewWitness
  <2>6. QED
    BY <2>4, <2>5 DEF NotRecording
<1>9. QED
  BY <1>4, <1>5, <1>6, <1>7, <1>8 DEF RecordingStep

\* The source map is fetched, and the recording of the target starts.
LEMMA FetchKeepsTarget ==
  ASSUME FetchSourceMap
  PROVE  RecordsTarget'
<1> SUFFICES ASSUME stopping'.step = "record", stopping'.resolution.status = "resolved"
             PROVE  RecordsTarget'
  BY DEF RecordsTarget
<1>1. UNCHANGED <<runtime, disk>>
  BY DEF FetchSourceMap
<1> DEFINE resolution == Resolve(runtime.maps[disk.program], stopping.target)
<1>2. \/ RecordTarget(stopping.target, resolution)
      \/ \E ops : RecordTarget(stopping.target, Resolution("opaque", ops))
      \/ stopping' = NotStopping
  BY Zenon DEF FetchSourceMap, AnswerBreak
<1>3. RecordTarget(stopping.target, resolution)
  BY <1>2 DEF RecordTarget, Resolution, NotStopping
<1>4. stopping'.resolution = resolution /\ stopping'.target = stopping.target
  BY <1>3 DEF RecordTarget
<1>5. PICK policy : StartRecording(NoTest, policy)
  BY <1>3 DEF RecordTarget
<1>6. recording'.step = "observe"
  BY <1>5, RecordingStarts
<1>7. QED
  BY <1>1, <1>4, <1>6 DEF RecordsTarget, NotRecording

\* What a finished break answers is what its witness answers.
LEMMA FinishAnswersTarget ==
  ASSUME StopInv, FinishBreak
  PROVE  AnswersTarget'
<1> SUFFICES ASSUME trouble' = MaxTrouble, report'.set.status = "resolved"
             PROVE  /\ report'.set.ops = Resolve(witness'.map, report'.set.target).ops
                    /\ report'.set.matched = MatchedEvents(witness', report'.set.ops)
  BY DEF AnswersTarget, MatchedEvents
<1>1. /\ stopping.step = "record" /\ recording = NotRecording
      /\ UNCHANGED <<runtime, disk, trouble, witness>>
      /\ report'.set = StopSet(stopping.target, stopping.resolution, 2,
                               MatchedEvents(witness, stopping.resolution.ops))
  BY DEF FinishBreak, StopReport, worldVars
<1>2. /\ report'.set.status = stopping.resolution.status
      /\ report'.set.ops = stopping.resolution.ops
      /\ report'.set.target = stopping.target
      /\ report'.set.matched = MatchedEvents(witness, stopping.resolution.ops)
  BY <1>1 DEF StopSet
<1>3. stopping.resolution = Resolve(witness.map, stopping.target)
  BY <1>1, <1>2 DEF StopInv, RecordsTarget
<1>4. QED
  BY <1>1, <1>2, <1>3

\* Anything else leaves the answer and its witness, or answers something else.
LEMMA OthersAnswer ==
  ASSUME StopInv, Spent,
         \/ UNCHANGED <<report, witness>>
         \/ report'.kind # "break"
         \/ report'.set.status # "resolved"
         \/ report'.set.executions # 2
  PROVE  AnswersTarget'
  BY DEF StopInv, Spent, AnswersTarget, MatchedEvents

LEMMA StopStepInv ==
  ASSUME CommandInv, RunsInv, StopInv, [Next]_workbenchVars
  PROVE  StopInv'
<1>0. /\ PhasesOK /\ OneCommand /\ RequestsOK
      /\ trouble \in 0..MaxTrouble
  BY DEF CommandInv, StopInv
<1>1. CASE Command
  <2>1. Spent /\ UNCHANGED <<runtime, disk>>
    BY <1>0, <1>1, CommandsSpend
  <2>2. stopping'.step # "record"
    BY <1>1 DEF Command, Idle, NotStopping, StartBreak, AskTrace, AskWhy, AskWatch, AskInspect, AskStops,
                Answer, commandVars
  <2>3. AnswersTarget'
    <3>1. CASE Record \/ StartBreak \/ StartReplay
      <4>1. Record \/ StartBreak => report'.kind # "break"
        BY DEF Record, StartBreak, NoReport
      <4>2. StartReplay => UNCHANGED <<report, witness>> \/ report'.kind # "break"
        BY ReplaySilent DEF StartReplay, Says
      <4>3. QED
        BY <2>1, <3>1, <4>1, <4>2, OthersAnswer
    <3>2. CASE StartMinimization
      <4>1. Says({"none", "minimize"}) /\ UNCHANGED witness
        BY <3>2, MinimizationSilent DEF StartMinimization
      <4>2. QED
        BY <2>1, <4>1, OthersAnswer DEF Says
    <3>3. CASE /\ StartDiagnosis(View(witness)) \/ AskSufficiency(View(witness))
               /\ UNCHANGED <<runtime, disk, witness, recording, replaying, minimizing, stopping>>
      <4>1. StartDiagnosis(View(witness)) => report'.kind # "break"
        BY DEF StartDiagnosis, NoReport
      <4>2. AskSufficiency(View(witness)) => report'.kind # "break"
        BY DEF AskSufficiency
      <4>3. QED
        BY <2>1, <3>3, <4>1, <4>2, OthersAnswer
    <3>4. CASE AskTrace \/ AskWhy \/ AskWatch \/ AskInspect
      <4>1. report'.kind # "break"
        BY <3>4 DEF AskTrace, AskWhy, AskWatch, AskInspect, Answer
      <4>2. QED
        BY <2>1, <4>1, OthersAnswer
    <3>5. CASE AskStops
      <4>1. PICK target, exit :
              report' = StopReport(WitnessStopSet(witness, target), exit)
        BY <3>5 DEF AskStops
      <4>2. report'.set.executions = 0
        BY <4>1 DEF StopReport, WitnessStopSet, StopSet
      <4>3. QED
        BY <2>1, <4>2, OthersAnswer
    <3>6. QED
      BY <1>1, <3>1, <3>2, <3>3, <3>4, <3>5 DEF Command
  <2>4. QED
    BY <2>1, <2>2, <2>3 DEF StopInv, RecordsTarget, Spent
<1>2. CASE CommandStep
  <2>1. Spent /\ UNCHANGED <<runtime, disk>>
    BY <1>0, <1>2, CommandsSpend
  <2>2. CASE RecordingStep /\ UNCHANGED <<replaying, minimizing, stopping, diagnosis>>
    <3>1. RecordsTarget'
      BY <2>1, <2>2, RecordingKeepsTarget
    <3>2. UNCHANGED <<report, witness>> \/ report'.kind # "break"
      BY <2>2 DEF RecordingStep, Observe, Execute, IndexStatics, ClassifyRun, SealWitness
    <3>3. QED
      BY <2>1, <3>1, <3>2, OthersAnswer DEF StopInv, Spent
  <2>3. CASE ReplayStep /\ UNCHANGED <<minimizing, stopping, diagnosis>>
    <3>1. replaying # NotReplaying /\ UNCHANGED witness
      BY <1>0, <2>3, ReplaySteps
    <3>2. stopping'.step # "record"
      BY <1>0, <2>3, <3>1 DEF OneCommand, NotStopping
    <3>3. Says({"none", "replay"})
      BY <2>3, ReplaySilent
    <3>4. QED
      BY <2>1, <3>1, <3>2, <3>3, OthersAnswer DEF StopInv, RecordsTarget, Spent, Says
  <2>4. CASE MinimizationStep /\ UNCHANGED <<stopping, diagnosis>>
    <3>1. minimizing # NotMinimizing
      BY <2>4 DEF MinimizationStep, TryCandidate, NoReduction, Reduce, SearchOver, NotMinimizing
    <3>2. stopping'.step # "record"
      BY <1>0, <2>4, <3>1 DEF OneCommand, NotStopping
    <3>3. UNCHANGED <<report, witness>> \/ report'.kind # "break"
      <4>1. TryCandidate => UNCHANGED <<report, witness>>
        BY DEF TryCandidate
      <4>2. NoReduction => report'.kind # "break"
        BY DEF NoReduction, MinimizationReport
      <4>3. Reduce => report' = MinimizationReport("reduced", minimizing)
        BY Zenon DEF Reduce
      <4>4. QED
        BY <2>4, <4>1, <4>2, <4>3 DEF MinimizationStep, MinimizationReport
    <3>4. QED
      BY <2>1, <3>2, <3>3, OthersAnswer DEF StopInv, RecordsTarget, Spent
  <2>5. CASE FetchSourceMap
    <3>1. RecordsTarget'
      BY <2>5, FetchKeepsTarget
    <3>2. \/ UNCHANGED report
          \/ report' = StopError
          \/ \E resolution : report' = StopReport(StopSet(stopping.target, resolution, 1, {}), "failure")
      <4>1. \/ \E target, resolution : RecordTarget(target, resolution)
            \/ AnswerBreak(StopError)
            \/ \E resolution : AnswerBreak(StopReport(StopSet(stopping.target, resolution, 1, {}), "failure"))
        BY <2>5, Zenon DEF FetchSourceMap
      <4>2. QED
        BY <4>1 DEF RecordTarget, AnswerBreak
    <3>3. UNCHANGED witness
      BY <2>5 DEF FetchSourceMap
    <3>4. AnswersTarget'
      <4>1. StopError.set.status # "resolved"
        BY SMTT(20) DEF StopError, StopReport
      <4>2. (\E resolution : report' = StopReport(StopSet(stopping.target, resolution, 1, {}), "failure"))
              => report'.set.executions # 2
        BY DEF StopReport, StopSet
      <4>3. QED
        BY <2>1, <3>2, <3>3, <4>1, <4>2, OthersAnswer
    <3>5. QED
      BY <2>1, <3>1, <3>4 DEF StopInv, Spent
  <2>6. CASE FinishBreak
    <3>1. stopping'.step # "record"
      BY <2>6 DEF FinishBreak, NotStopping
    <3>2. QED
      BY <2>1, <2>6, <3>1, FinishAnswersTarget DEF StopInv, RecordsTarget, Spent
  <2>7. CASE DiagnosisStep /\ UNCHANGED <<runtime, disk, witness, recording, replaying, minimizing, stopping>>
    <3>1. UNCHANGED report \/ report'.kind = "diagnose"
      <4>1. UNCHANGED report \/ \E reason, status, d, facts : Conclude(reason, status, d, facts)
        BY <2>7, Zenon DEF DiagnosisStep, DecideNext, Project
      <4>2. QED
        BY <4>1 DEF Conclude
    <3>2. RecordsTarget'
      BY <2>1, <2>7 DEF StopInv, RecordsTarget, Spent
    <3>3. QED
      BY <2>1, <2>7, <3>1, <3>2, OthersAnswer DEF StopInv, Spent
  <2>8. QED
    BY <1>2, <2>2, <2>3, <2>4, <2>5, <2>6, <2>7 DEF CommandStep, StopStep
<1>3. CASE ReadReport
  BY <1>0, <1>3, CommandsSpend, OthersAnswer
     DEF ReadReport, NoReport, commandVars, worldVars, StopInv, RecordsTarget, Spent
<1>4. CASE Edit
  BY <1>0, <1>4, EditSpends DEF StopInv, RecordsTarget, AnswersTarget, Spent
<1>5. CASE Archive \/ UNCHANGED workbenchVars
  <2>1. UNCHANGED <<runtime, disk, trouble, witness, report, recording, stopping>>
    BY <1>5
       DEF Archive, workbenchVars, stopVars, minimizationVars, replayVars, recordingVars, worldVars
  <2>2. QED
    BY <2>1 DEF StopInv, RecordsTarget, AnswersTarget, MatchedEvents
<1>6. QED
  BY <1>1, <1>2, <1>3, <1>4, <1>5 DEF Next, Developer

\* The stops a recording break reports are those the witness it wrote answers
\* later (StopSetsAgree), for any language, program and target: the map of the
\* compiler's first run is the one recorded with the second (record_stop_set,
\* witness_stop_set).
THEOREM BreaksAgree == Spec => []StopSetsAgree
<1>1. Init => StopInv
  BY TroubleAssumption
     DEF Init, RecordingInit, StopInit, StopInv, RecordsTarget, AnswersTarget, NotStopping, NoReport
<1>2. CommandInv /\ RunsInv /\ StopInv /\ [Next]_workbenchVars => StopInv'
  BY StopStepInv
<1>3. StopInv => StopSetsAgree
  BY DEF StopInv, AnswersTarget, StopSetsAgree, WitnessStopSet, StopSet, ResolveInWitness
<1>4. QED
  BY <1>1, <1>2, <1>3, CommandsKeepInvariant, RunsInit, RunsStep, PTL DEF Spec

-----------------------------------------------------------------------------
(* Completeness: a trace that is called complete shows every event of its  *)
(* run, and an answer that is called complete every value it refers to.    *)

\* The run of these files, and what the language emits in it.
RunOf(ran) == runtime.runs[ran.program][ran.request]
Emitted(ran) == RunOf(ran).stream

\* A policy limits events and values.
Limited(policy) == policy.events \in Nat /\ policy.values \in Nat

\* A stream is what was observed of the run of these files, or none.
Shows(ran, native, stream, policy) ==
  /\ ran \in Files /\ native \in BOOLEAN /\ Limited(policy)
  /\ stream = IF native THEN Observed(RunOf(ran), policy) ELSE NoStream

\* What a recording holds of its stream, from the first step on.
RecordingShows ==
  /\ recording.step # "idle" =>
       {"policy"} \subseteq DOMAIN recording /\ Limited(recording.policy)
  /\ recording.step \in {"index", "classify", "seal"} =>
       /\ {"ran", "native", "stream"} \subseteq DOMAIN recording
       /\ Shows(recording.ran, recording.native, recording.stream, recording.policy)

\* A trace that refers to no value and no effect.
Blank(trace) ==
  /\ trace.values = {} /\ trace.effects = {}
  /\ \A e \in ToSet(trace.events) : e.ins = {} /\ e.outs = {}

\* A trace is that of the stream, or one that is blank and not called complete.
Projected(trace, native, stream, limit) ==
  \/ native /\ trace = NativeTrace(stream, limit)
  \/ ~trace.complete /\ Blank(trace)

WitnessShows ==
  witness # NoWitness =>
    /\ Shows(witness.ran, witness.native, witness.stream, witness.policy)
    /\ Projected(witness.trace, witness.native, witness.stream, witness.policy.events)

ShowsInv == RecordingShows /\ WitnessShows /\ CompleteMeansWhole

\* The items of a sequence.
LEMMA SetOfSeq == ASSUME NEW s, NEW e \in ToSet(s) PROVE \E n \in DOMAIN s : e = s[n]
  BY DEF ToSet

\* The trace of any witness is one of the two.
LEMMA TracesProject ==
  ASSUME NEW native \in BOOLEAN, NEW valid, NEW stream, NEW execution, NEW limit
  PROVE  Projected(MakeTrace(native, valid, stream, execution, limit), native, stream, limit)
<1> DEFINE legacy == LegacyTrace(execution, limit)
<1>1. /\ legacy.complete = FALSE /\ legacy.values = {} /\ legacy.effects = {}
      /\ \A n \in DOMAIN legacy.events : legacy.events[n].ins = {} /\ legacy.events[n].outs = {}
  BY DEF LegacyTrace
<1>2. \A e \in ToSet(legacy.events) : e.ins = {} /\ e.outs = {}
  BY <1>1, SetOfSeq
<1>3. \/ native /\ MakeTrace(native, valid, stream, execution, limit) = NativeTrace(stream, limit)
      \/ MakeTrace(native, valid, stream, execution, limit) = legacy
  BY DEF MakeTrace
<1> HIDE DEF legacy
<1>4. QED
  BY <1>1, <1>2, <1>3 DEF Projected, Blank

\* A limit that a sequence keeps cuts nothing.
LEMMA FirstOfAll ==
  ASSUME NEW S, NEW s \in Seq(S), NEW limit \in Nat, ~(Len(s) > limit)
  PROVE  FirstOf(s, limit) = s
<1>1. (IF Len(s) < limit THEN Len(s) ELSE limit) = Len(s)
  OBVIOUS
<1>2. SubSeq(s, 1, Len(s)) = s
  OBVIOUS
<1>3. QED
  BY <1>1, <1>2 DEF FirstOf

\* There is one item for each place.
LEMMA AtCounts ==
  ASSUME NEW s, NEW places, IsFiniteSet(places)
  PROVE  /\ At(s, places) \in Seq({At(s, places)[k] : k \in 1..Cardinality(places)})
         /\ Len(At(s, places)) = Cardinality(places)
         /\ Cardinality(places) \in Nat
<1> DEFINE item(k) == s[CHOOSE n \in places : Cardinality({m \in places : m <= n}) = k]
           size == Cardinality(places)
<1>1. size \in Nat
  BY FS_CardinalityType
<1>2. At(s, places) = [k \in 1..size |-> item(k)]
  BY DEF At
<1> HIDE DEF item, size
<1>3. At(s, places) \in Seq({At(s, places)[k] : k \in 1..size}) /\ Len(At(s, places)) = size
  BY <1>1, <1>2
<1>4. QED
  BY <1>1, <1>3 DEF size

\* A stream that is complete is all the policy asked for, and every value.
LEMMA CompleteStream ==
  ASSUME runtime \in Runtimes, NEW ran, NEW native, NEW stream, NEW policy,
         Shows(ran, native, stream, policy), stream.status = "complete"
  PROVE  /\ stream.values = ToSet(Emitted(ran).values)
         /\ Len(stream.events) = Cardinality(Chosen(Emitted(ran).events, policy))
         /\ Len(stream.events) \in Nat
<1> DEFINE emitted == Emitted(ran)
           chosen == Chosen(emitted.events, policy)
           dropped == \/ Cardinality(chosen) > policy.events
                      \/ Len(emitted.values) > policy.values
                      \/ RunOf(ran).strict /\ chosen # DOMAIN emitted.events
<1>1. /\ emitted.events \in Seq({emitted.events[n] : n \in 1..Len(emitted.events)})
      /\ emitted.values \in Seq({emitted.values[n] : n \in 1..Len(emitted.values)})
  BY StreamAssumption DEF Shows, Files, Emitted, RunOf
<1>2. native /\ stream # NoStream
  BY DEF Shows, NoStream
<1>3. stream = [events  |-> FirstOf(At(emitted.events, chosen), policy.events),
                values  |-> ToSet(FirstOf(emitted.values, policy.values)),
                effects |-> emitted.effects,
                status  |-> IF dropped THEN "truncated" ELSE emitted.status]
  BY <1>2 DEF Shows, Observed, Emitted
<1>4. policy.events \in Nat /\ policy.values \in Nat
  BY DEF Shows, Limited
<1>5. IsFiniteSet(chosen)
  <2>1. chosen \subseteq 1..Len(emitted.events) /\ Len(emitted.events) \in Nat
    BY <1>1 DEF Chosen
  <2> HIDE DEF chosen
  <2>2. IsFiniteSet(1..Len(emitted.events))
    BY <2>1, FS_Interval
  <2>3. QED
    BY <2>1, <2>2, FS_Subset
<1> HIDE DEF emitted, chosen
<1>6. ~dropped
  BY <1>3
<1>7. FirstOf(emitted.values, policy.values) = emitted.values
  BY <1>1, <1>4, <1>6, FirstOfAll
<1>8. FirstOf(At(emitted.events, chosen), policy.events) = At(emitted.events, chosen)
  <2> DEFINE kept == At(emitted.events, chosen)
  <2>1. /\ kept \in Seq({kept[k] : k \in 1..Cardinality(chosen)})
        /\ Len(kept) = Cardinality(chosen)
    BY <1>5, AtCounts
  <2> HIDE DEF kept
  <2>2. ~(Len(kept) > policy.events)
    BY <1>6, <2>1
  <2>3. FirstOf(kept, policy.events) = kept
    BY <1>4, <2>1, <2>2, FirstOfAll
  <2>4. QED
    BY <2>3 DEF kept
<1>9. QED
  BY <1>3, <1>5, <1>7, <1>8, AtCounts DEF emitted, chosen

\* A trace that is complete has one event for each that was asked for, and
\* every value.
LEMMA CompleteTraceShows ==
  ASSUME RunsInv, WitnessShows, witness # NoWitness,
         witness.trace.complete, ~witness.trace.truncated
  PROVE  LET n == Cardinality(Chosen(Emitted(witness.ran).events, witness.policy))
         IN /\ n \in Nat
            /\ DOMAIN witness.trace.events = 1..n
            /\ \A i \in 1..n : witness.trace.events[i].seq = i
            /\ witness.trace.values = ToSet(Emitted(witness.ran).values)
<1> DEFINE w == witness
           raw == w.stream.events
<1>1. /\ Shows(w.ran, w.native, w.stream, w.policy)
      /\ w.trace = NativeTrace(w.stream, w.policy.events)
  BY DEF WitnessShows, Projected
<1>2. /\ w.stream.status = "complete"
      /\ ~(Len(raw) > w.policy.events)
      /\ DOMAIN w.trace.events = 1..(IF Len(raw) < w.policy.events THEN Len(raw) ELSE w.policy.events)
      /\ \A i \in DOMAIN w.trace.events : w.trace.events[i].seq = i
      /\ w.trace.values = w.stream.values
  <2> DEFINE trace == NativeTrace(w.stream, w.policy.events)
  <2>1. trace.complete = (w.stream.status = "complete")
    BY DEF NativeTrace
  <2>2. trace.truncated = (w.stream.status = "truncated" \/ Len(raw) > w.policy.events)
    BY DEF NativeTrace
  <2>3. /\ DOMAIN trace.events = 1..(IF Len(raw) < w.policy.events THEN Len(raw) ELSE w.policy.events)
        /\ \A i \in DOMAIN trace.events : trace.events[i].seq = i
        /\ trace.values = w.stream.values
    BY DEF NativeTrace
  <2> HIDE DEF trace
  <2>4. w.trace = trace
    BY <1>1 DEF trace
  <2>5. QED
    BY <2>1, <2>2, <2>3, <2>4
<1>3. /\ Len(raw) = Cardinality(Chosen(Emitted(w.ran).events, w.policy)) /\ Len(raw) \in Nat
      /\ w.stream.values = ToSet(Emitted(w.ran).values)
  BY <1>1, <1>2, CompleteStream DEF RunsInv
<1>4. w.policy.events \in Nat
  BY <1>1 DEF Shows, Limited
<1>5. (IF Len(raw) < w.policy.events THEN Len(raw) ELSE w.policy.events) = Len(raw)
  BY <1>2, <1>3, <1>4
<1>6. QED
  BY <1>2, <1>3, <1>5

\* A slice that is called complete was asked for everything and was not cut.
LEMMA CompleteSlice ==
  ASSUME NEW trace, NEW kind, NEW op, NEW start, NEW limit \in Nat,
         NEW n \in Nat, DOMAIN trace.events = 1..n, \A i \in 1..n : trace.events[i].seq = i,
         Slice(trace, kind, op, start, limit).status = "complete"
  PROVE  /\ Len(Slice(trace, kind, op, start, limit).events) = n
         /\ Slice(trace, kind, op, start, limit).values = trace.values
<1> DEFINE wanted(e) == /\ kind = "any" \/ e.kind = kind
                        /\ op = NoOp \/ e.op = op
                        /\ e.seq >= start
           places == {i \in DOMAIN trace.events : wanted(trace.events[i])}
           selected == At(trace.events, places)
           slice == Slice(trace, kind, op, start, limit)
<1>1. /\ slice.events = FirstOf(selected, limit)
      /\ \E mentioned : slice.values = {v \in trace.values : op = NoOp \/ v.op = op \/ v.id \in mentioned}
      /\ slice.status =
           Completeness(trace, kind = "any" /\ op = NoOp /\ start = NoEvent, Len(selected) > limit)
  BY DEF Slice
<1>2. kind = "any" /\ op = NoOp /\ start = NoEvent /\ ~(Len(selected) > limit)
  BY <1>1 DEF Completeness
<1>3. places = 1..n
  BY <1>2 DEF NoEvent
<1> HIDE DEF places, slice
<1>4. IsFiniteSet(places) /\ Cardinality(places) = n
  <2>1. IsFiniteSet(1..n) /\ Cardinality(1..n) = n
    BY FS_Interval
  <2>2. QED
    BY <1>3, <2>1
<1>5. Len(selected) = n /\ FirstOf(selected, limit) = selected
  BY <1>2, <1>4, AtCounts, FirstOfAll
<1>6. slice.values = trace.values
  BY <1>1, <1>2
<1>7. QED
  BY <1>1, <1>5, <1>6 DEF slice

LEMMA SliceNeeds ==
  ASSUME NEW trace, NEW kind, NEW op, NEW start, NEW limit,
         Slice(trace, kind, op, start, limit).status = "complete"
  PROVE  trace.complete /\ ~trace.truncated
  BY DEF Slice, Completeness

\* The origins of a value are marked by what the trace holds.
LEMMA OriginsAreReferences ==
  ASSUME NEW values, NEW start, NEW r \in ToSet(OriginChain(values, start))
  PROVE  \E id : r = Reference(values, id)
<1> DEFINE path == OriginPath(values, start)
<1>1. OriginChain(values, start) = [n \in 1..(Len(path) - 1) |-> Reference(values, path[n + 1])]
  BY DEF OriginChain
<1>2. PICK n \in 1..(Len(path) - 1) : r = OriginChain(values, start)[n]
  BY <1>1, SetOfSeq
<1>3. QED
  BY <1>1, <1>2

\* What an answer refers to but operations: values, marked by whether the trace
\* holds them, or what it does hold; of an older trace, nothing.
LEMMA NativeReferences ==
  ASSUME NEW w, NEW value, NEW op, NEW claim \in NativeAnswer(w, value, op).claims,
         NEW r \in claim.refs, claim.kind # "operation_identity"
  PROVE  /\ r.observed = TRUE \/ \E id : r = Reference(w.trace.values, id)
         /\ ~Blank(w.trace)
<1> DEFINE trace == w.trace
           target == TargetOperation(w, value, op)
           at == {e \in ToSet(trace.events) : e.op = target}
           asked == {v \in trace.values : v.id = value}
           chain == OriginChain(trace.values, value)
           ins == UNION {e.ins : e \in at}
           outs == UNION {e.outs : e \in at}
           shown == {f \in trace.effects : \E e \in at : e.effect = f.id}
<1>1. \/ asked # {} /\ claim.refs = {Reference(trace.values, value)}
      \/ asked # {} /\ claim.refs = ToSet(chain)
      \/ claim = [kind |-> "operation_identity", refs |-> {[id |-> target, observed |-> at # {}]}]
      \/ claim.refs = {Reference(trace.values, i) : i \in ins}
      \/ claim.refs = {Reference(trace.values, i) : i \in outs}
      \/ \E f \in shown : claim.refs = {[id |-> f.id, observed |-> TRUE]}
  BY DEF NativeAnswer
<1>2. claim.refs = {Reference(trace.values, value)} => \E id : r = Reference(trace.values, id)
  OBVIOUS
<1>3. claim.refs = ToSet(chain) => \E id : r = Reference(trace.values, id)
  BY OriginsAreReferences
<1>4. claim.refs = {Reference(trace.values, i) : i \in ins}
        => ins # {} /\ \E id : r = Reference(trace.values, id)
  OBVIOUS
<1>5. claim.refs = {Reference(trace.values, i) : i \in outs}
        => outs # {} /\ \E id : r = Reference(trace.values, id)
  OBVIOUS
<1>6. (\E f \in shown : claim.refs = {[id |-> f.id, observed |-> TRUE]})
        => trace.effects # {} /\ r.observed = TRUE
  OBVIOUS
<1>7. asked # {} => trace.values # {}
  OBVIOUS
<1>8. ins # {} \/ outs # {} => ~Blank(trace)
  BY DEF Blank
<1> HIDE DEF ins, outs, shown, asked, chain, trace, target, at
<1>9. Blank(trace) => trace.values = {} /\ trace.effects = {}
  BY DEF Blank
<1>10. QED
  BY <1>1, <1>2, <1>3, <1>4, <1>5, <1>6, <1>7, <1>8, <1>9 DEF trace

\* An answer that is called complete was found in a trace that is, which holds
\* every value that was emitted.
LEMMA CompleteAnswer ==
  ASSUME RunsInv, WitnessShows, witness # NoWitness, NEW value, NEW op,
         Why(witness, value, op).status = "complete",
         NEW claim \in Why(witness, value, op).claims, NEW r \in claim.refs,
         claim.kind # "operation_identity", \E v \in ToSet(Emitted(witness.ran).values) : v.id = r.id
  PROVE  r.observed
<1> DEFINE w == witness
<1>1. /\ Shows(w.ran, w.native, w.stream, w.policy)
      /\ Projected(w.trace, w.native, w.stream, w.policy.events)
  BY DEF WitnessShows
<1>2. w.native /\ Why(w, value, op) = NativeAnswer(w, value, op)
  BY DEF Why, LegacyAnswer
<1>3. w.stream.status = "complete"
  BY <1>2 DEF NativeAnswer, AnswerStatus
<1>4. w.stream.values = ToSet(Emitted(w.ran).values)
  BY <1>1, <1>3, CompleteStream DEF RunsInv
<1>5. /\ r.observed = TRUE \/ \E id : r = Reference(w.trace.values, id)
      /\ ~Blank(w.trace)
  BY <1>2, NativeReferences
<1>6. w.trace = NativeTrace(w.stream, w.policy.events)
  BY <1>1, <1>5 DEF Projected, Blank
<1>7. w.trace.values = w.stream.values
  BY <1>6 DEF NativeTrace
<1>8. CASE \E id : r = Reference(w.trace.values, id)
  BY <1>4, <1>7, <1>8 DEF Reference
<1>9. QED
  BY <1>5, <1>8

\* A slice that is called complete holds all that was asked for.
LEMMA SliceIsWhole ==
  ASSUME RunsInv, WitnessShows, witness # NoWitness,
         NEW kind, NEW op, NEW start, NEW limit \in SliceLimits,
         Slice(witness.trace, kind, op, start, limit).status = "complete"
  PROVE  LET slice == Slice(witness.trace, kind, op, start, limit)
         IN /\ Len(slice.events) = Cardinality(Chosen(Emitted(witness.ran).events, witness.policy))
            /\ slice.values = ToSet(Emitted(witness.ran).values)
<1>1. witness.trace.complete /\ ~witness.trace.truncated
  BY SliceNeeds
<1>2. limit \in Nat
  BY SliceAssumption
<1>3. QED
  BY <1>1, <1>2, CompleteTraceShows, CompleteSlice

-----------------------------------------------------------------------------

\* A step of a recording keeps what the recording was started with.
LEMMA RecordingGoesOn ==
  ASSUME RecordingShows, recording.step # "idle", NEW g, recording' = With(recording, g),
         DOMAIN g \cap {"policy"} = {}
  PROVE  /\ {"policy"} \subseteq DOMAIN recording'
         /\ recording'.policy = recording.policy
         /\ Limited(recording.policy)
<1>1. {"policy"} \subseteq DOMAIN recording /\ Limited(recording.policy)
  BY DEF RecordingShows
<1>2. "policy" \in DOMAIN recording' /\ recording'["policy"] = recording["policy"]
  BY <1>1, WithOld
<1>3. QED
  BY <1>1, <1>2

\* A run was made and observed, or executed.
LEMMA RanShows ==
  ASSUME RequestsOK, RecordingShows, recording.step # "idle", UNCHANGED runtime,
         NEW g, recording' = With(recording, g), DOMAIN g \cap {"policy"} = {},
         {"step", "ran", "native", "stream"} \subseteq DOMAIN g,
         g.step = "index", g.ran = disk,
         \/ /\ g.native = TRUE
            /\ g.stream = Observed(RunOf(disk), recording.policy)
         \/ g.native = FALSE /\ g.stream = NoStream
  PROVE  RecordingShows'
<1>1. /\ recording'["step"] = "index" /\ recording'["ran"] = disk
      /\ recording'["native"] = g.native /\ recording'["stream"] = g.stream
      /\ {"ran", "native", "stream"} \subseteq DOMAIN recording'
  BY WithNew
<1>2. /\ {"policy"} \subseteq DOMAIN recording'
      /\ recording'.policy = recording.policy
      /\ Limited(recording.policy)
  BY RecordingGoesOn
<1>3. disk \in Files
  BY DiskRuns
<1>4. Shows(disk, g.native, g.stream, recording.policy)
  BY <1>2, <1>3 DEF Shows
<1>5. Shows(recording'.ran, recording'.native, recording'.stream, recording'.policy)
  BY <1>1, <1>2, <1>4
<1>6. Shows(recording.ran, recording.native, recording.stream, recording.policy)'
  BY <1>5 DEF Shows, RunOf
<1>7. QED
  BY <1>1, <1>2, <1>6 DEF RecordingShows

\* What was observed stays as it was.
LEMMA ObservedStays ==
  ASSUME RecordingShows, recording.step \in {"index", "classify"}, UNCHANGED runtime,
         NEW g, recording' = With(recording, g), "step" \in DOMAIN g,
         DOMAIN g \cap {"policy", "ran", "native", "stream"} = {},
         g.step \in {"classify", "seal"}
  PROVE  RecordingShows'
<1>1. /\ {"ran", "native", "stream"} \subseteq DOMAIN recording
      /\ Shows(recording.ran, recording.native, recording.stream, recording.policy)
  BY DEF RecordingShows
<1>2. /\ {"policy"} \subseteq DOMAIN recording'
      /\ recording'.policy = recording.policy
      /\ Limited(recording.policy)
  BY RecordingGoesOn
<1>3. /\ "ran" \in DOMAIN recording' /\ recording'["ran"] = recording["ran"]
      /\ "native" \in DOMAIN recording' /\ recording'["native"] = recording["native"]
      /\ "stream" \in DOMAIN recording' /\ recording'["stream"] = recording["stream"]
  BY <1>1, WithOld
<1>4. Shows(recording'.ran, recording'.native, recording'.stream, recording'.policy)
  BY <1>1, <1>2, <1>3
<1>5. Shows(recording.ran, recording.native, recording.stream, recording.policy)'
  BY <1>4 DEF Shows, RunOf
<1>6. QED
  BY <1>2, <1>3, <1>5 DEF RecordingShows

\* A process that was killed made no observation.
LEMMA ObservationsAreRuns ==
  ASSUME runtime \in Runtimes, NEW ran \in Files, NEW late \in BOOLEAN,
         IsObservation(Printed(ran, late))
  PROVE  Printed(ran, late) = RunOf(ran)
<1> DEFINE d == RunOf(ran)
<1>1. {"valid", "ends", "status", "failure", "effect", "returned"} \subseteq DOMAIN d
  BY RuntimeAssumption DEF Files, RunOf
<1>2. Printed(ran, late) = IF late THEN Killed(d) ELSE d
  BY DEF Printed, RunOf
<1> HIDE DEF d
<1>3. Killed(d).ends = FALSE
  BY <1>1 DEF Killed
<1>4. QED
  BY <1>2, <1>3 DEF IsObservation, d

\* The witness of a recording holds what its recording observed.
LEMMA MadeShows ==
  ASSUME NEW r, Shows(r.ran, r.native, r.stream, r.policy)
  PROVE  LET w == NewWitness(r)
         IN /\ Shows(w.ran, w.native, w.stream, w.policy)
            /\ Projected(w.trace, w.native, w.stream, w.policy.events)
<1> DEFINE w == NewWitness(r)
<1>1. /\ w.ran = r.ran /\ w.native = r.native /\ w.stream = r.stream
      /\ w.policy = r.policy
      /\ w.trace = MakeTrace(r.native, r.valid, r.stream,
                             TracedExecution(r.result, r.valid, r.outcome), r.policy.events)
  BY DEF NewWitness
<1> HIDE DEF w
<1>2. Projected(w.trace, w.native, w.stream, w.policy.events)
  BY <1>1, TracesProject DEF Shows
<1>3. QED
  BY <1>1, <1>2 DEF w

LEMMA WitnessShown ==
  ASSUME NEW r, Shows(r.ran, r.native, r.stream, r.policy), UNCHANGED runtime,
         witness' = NewWitness(r)
  PROVE  WitnessShows'
<1>1. /\ Shows(witness'.ran, witness'.native, witness'.stream, witness'.policy)
      /\ Projected(witness'.trace, witness'.native, witness'.stream, witness'.policy.events)
  BY MadeShows
<1>2. Shows(witness.ran, witness.native, witness.stream, witness.policy)'
  BY <1>1 DEF Shows, RunOf
<1>3. QED
  BY <1>1, <1>2 DEF WitnessShows, Projected

LEMMA ShownStays == ASSUME WitnessShows, UNCHANGED <<runtime, witness>> PROVE WitnessShows'
  BY DEF WitnessShows, Shows, RunOf, Projected

LEMMA ShowingStays == ASSUME RecordingShows, UNCHANGED <<runtime, recording>> PROVE RecordingShows'
  BY DEF RecordingShows, Shows, RunOf

\* What does not answer with a trace or a reason leaves the last answer true.
LEMMA SaysNothing ==
  ASSUME CompleteMeansWhole, UNCHANGED runtime,
         UNCHANGED <<report, witness>> \/ report'.kind \notin {"trace", "why"}
  PROVE  CompleteMeansWhole'
  BY DEF CompleteMeansWhole

LEMMA StartShows ==
  ASSUME NEW test, NEW policy, Limited(policy), StartRecording(test, policy)
  PROVE  RecordingShows'
<1>1. /\ recording'.step = "observe" /\ {"policy"} \subseteq DOMAIN recording'
      /\ recording'.policy.events = policy.events /\ recording'.policy.values = policy.values
  BY DEF StartRecording, Policy
<1>2. QED
  BY <1>1 DEF RecordingShows, Limited

LEMMA RecordingKeepsShows ==
  ASSUME CommandInv, RunsInv, ShowsInv, RecordingStep
  PROVE  ShowsInv'
<1>0. PhasesOK /\ RequestsOK /\ runtime \in Runtimes /\ RecordingShows /\ WitnessShows
  BY DEF CommandInv, RunsInv, ShowsInv
<1>1. recording.step # "idle" /\ "step" \in DOMAIN recording
  BY <1>0, RecordingSteps DEF PhasesOK
<1>2. UNCHANGED runtime
  BY DEF RecordingStep, Observe, Execute, IndexStatics, ClassifyRun, SealWitness, worldVars
<1>3. UNCHANGED <<report, witness>> \/ report'.kind \notin {"trace", "why"}
  BY DEF RecordingStep, Observe, Execute, IndexStatics, ClassifyRun, SealWitness
<1>4. CompleteMeansWhole'
  BY <1>2, <1>3, SaysNothing DEF ShowsInv
<1>5. CASE Observe
  <2>1. PICK late \in BOOLEAN :
          LET result == Printed(disk, late)
              g == [step |-> "index", native |-> TRUE, ran |-> disk, loaded |-> disk.request,
                    result |-> result,
                    stream |-> Observed(result, recording.policy)]
          IN \/ IsObservation(result) /\ recording' = With(recording, g)
             \/ recording' = [recording EXCEPT !.step = "execute"]
    BY <1>5 DEF Observe
  <2>2. UNCHANGED witness
    BY <1>5 DEF Observe
  <2> DEFINE result == Printed(disk, late)
             g == [step |-> "index", native |-> TRUE, ran |-> disk, loaded |-> disk.request,
                   result |-> result,
                   stream |-> Observed(result, recording.policy)]
  <2>3. CASE IsObservation(result) /\ recording' = With(recording, g)
    <3>1. result = RunOf(disk)
      BY <1>0, <2>3, DiskRuns, ObservationsAreRuns
    <3> HIDE DEF result
    <3>2. /\ DOMAIN g = {"step", "native", "ran", "loaded", "result", "stream"}
          /\ g.step = "index" /\ g.ran = disk /\ g.native = TRUE
          /\ g.stream = Observed(RunOf(disk), recording.policy)
      BY <3>1
    <3> HIDE DEF g
    <3>3. RecordingShows'
      BY <1>0, <1>1, <1>2, <2>3, <3>2, RanShows
    <3>4. QED
      BY <1>0, <1>2, <1>4, <2>2, <3>3, ShownStays DEF ShowsInv
  <2>4. CASE recording' = [recording EXCEPT !.step = "execute"]
    <3>1. {"policy"} \subseteq DOMAIN recording /\ Limited(recording.policy)
      BY <1>0, <1>1 DEF RecordingShows
    <3>2. /\ {"policy"} \subseteq DOMAIN recording' /\ recording'.step = "execute"
          /\ recording'.policy = recording.policy
      BY <1>1, <2>4, <3>1
    <3>3. RecordingShows'
      BY <3>1, <3>2 DEF RecordingShows
    <3>4. QED
      BY <1>0, <1>2, <1>4, <2>2, <3>3, ShownStays DEF ShowsInv
  <2>5. QED
    BY <2>1, <2>3, <2>4
<1>6. CASE Execute
  <2>1. PICK g : /\ recording' = With(recording, g)
                 /\ DOMAIN g = {"step", "native", "ran", "loaded", "result", "stream"}
                 /\ g.step = "index" /\ g.ran = disk /\ g.native = FALSE /\ g.stream = NoStream
    BY <1>6 DEF Execute
  <2>2. RecordingShows'
    BY <1>0, <1>1, <1>2, <2>1, RanShows
  <2>3. UNCHANGED witness
    BY <1>6 DEF Execute
  <2>4. QED
    BY <1>0, <1>2, <1>4, <2>2, <2>3, ShownStays DEF ShowsInv
<1>7. CASE IndexStatics
  <2>1. PICK g : /\ recording' = With(recording, g)
                 /\ DOMAIN g = {"step", "valid", "mapped", "map"} /\ g.step = "classify"
    BY <1>7 DEF IndexStatics
  <2>2. recording.step = "index" /\ UNCHANGED witness
    BY <1>7 DEF IndexStatics
  <2>3. RecordingShows'
    BY <1>0, <1>2, <2>1, <2>2, ObservedStays
  <2>4. QED
    BY <1>0, <1>2, <1>4, <2>2, <2>3, ShownStays DEF ShowsInv
<1>8. CASE ClassifyRun
  <2>1. PICK g : /\ recording' = With(recording, g)
                 /\ DOMAIN g = {"step", "outcome"} /\ g.step = "seal"
    BY <1>8 DEF ClassifyRun
  <2>2. recording.step = "classify" /\ UNCHANGED witness
    BY <1>8 DEF ClassifyRun
  <2>3. RecordingShows'
    BY <1>0, <1>2, <2>1, <2>2, ObservedStays
  <2>4. QED
    BY <1>0, <1>2, <1>4, <2>2, <2>3, ShownStays DEF ShowsInv
<1>9. CASE SealWitness
  <2> DEFINE g == [program |-> disk.program, request |-> disk.request, kept |-> TRUE]
             r == With(recording, g)
  <2>1. witness' = NewWitness(r) /\ recording' = NotRecording /\ recording.step = "seal"
    BY <1>9 DEF SealWitness
  <2>2. DOMAIN g = {"program", "request", "kept"}
    OBVIOUS
  <2> HIDE DEF g
  <2>3. /\ {"policy", "ran", "native", "stream"} \subseteq DOMAIN recording
        /\ Shows(recording.ran, recording.native, recording.stream, recording.policy)
    BY <1>0, <2>1 DEF RecordingShows
  <2>4. /\ r["ran"] = recording["ran"] /\ r["native"] = recording["native"]
        /\ r["stream"] = recording["stream"] /\ r["policy"] = recording["policy"]
    BY <2>2, <2>3, WithOld
  <2> HIDE DEF r
  <2>5. WitnessShows'
    BY <1>2, <2>1, <2>3, <2>4, WitnessShown
  <2>6. RecordingShows'
    BY <2>1 DEF RecordingShows, NotRecording
  <2>7. QED
    BY <1>4, <2>5, <2>6 DEF ShowsInv
<1>10. QED
  BY <1>5, <1>6, <1>7, <1>8, <1>9 DEF RecordingStep

\* The reduced run, when its observation came, was in time.
LEMMA ReduceShows ==
  ASSUME CommandInv, RunsInv, WitnessShows, Reduce
  PROVE  WitnessShows'
<1>0. PhasesOK /\ OneCommand /\ RequestsOK /\ SearchOK /\ runtime \in Runtimes
  BY DEF CommandInv, RunsInv
<1>1. PICK late, later, down \in BOOLEAN :
        /\ ReducedRun(late, later, down).native => ~later
        /\ witness' = NewWitness(ReducedRun(late, later, down))
  BY Zenon DEF Reduce
<1>2. UNCHANGED runtime /\ minimizing # NotMinimizing
  BY DEF Reduce, SearchOver, NotMinimizing
<1> DEFINE files2 == CandidateFiles(minimizing.current)
           r == ReducedRun(late, later, down)
<1>3. files2 \in Files
  <2>1. FilesOf(minimizing.inputs).program \in Programs
    BY <1>0, <1>2, DiskRuns DEF FilesOf, RunsInv, SearchRuns
  <2>2. QED
    BY <1>2, <2>1 DEF CandidateFiles, Files, RunsInv, SearchRuns
<1>4. /\ r.ran = files2 /\ r.native = IsObservation(Printed(files2, late))
      /\ r.stream = IF r.native THEN Observed(Printed(files2, later), r.policy) ELSE NoStream
      /\ r.policy = DefaultPolicy
  BY DEF ReducedRun
<1>5. r.native \in BOOLEAN
  BY <1>4 DEF IsObservation
<1>6. Limited(DefaultPolicy)
  BY DefaultAssumption DEF DefaultPolicy, Policy, Limited
<1>7. r.native => Printed(files2, later) = RunOf(files2)
  BY <1>1 DEF Printed, RunOf
<1> HIDE DEF files2, r
<1>8. Shows(r.ran, r.native, r.stream, r.policy)
  BY <1>3, <1>4, <1>5, <1>6, <1>7 DEF Shows
<1>9. QED
  BY <1>1, <1>2, <1>8, WitnessShown DEF r

LEMMA ShowsStep == CommandInv /\ RunsInv /\ ShowsInv /\ [Next]_workbenchVars => ShowsInv'
<1> SUFFICES ASSUME CommandInv, RunsInv, ShowsInv, [Next]_workbenchVars PROVE ShowsInv'
  OBVIOUS
<1>0. RecordingShows /\ WitnessShows /\ CompleteMeansWhole
  BY DEF ShowsInv
<1>1. ASSUME UNCHANGED <<runtime, witness, recording>>,
             UNCHANGED report \/ report'.kind \notin {"trace", "why"}
      PROVE  ShowsInv'
  BY <1>0, <1>1, ShowingStays, ShownStays, SaysNothing DEF ShowsInv
<1>2. ASSUME NEW test, NEW policy, Limited(policy), StartRecording(test, policy),
             UNCHANGED <<runtime, witness>>, UNCHANGED report \/ report'.kind \notin {"trace", "why"}
      PROVE  ShowsInv'
  BY <1>0, <1>2, StartShows, ShownStays, SaysNothing DEF ShowsInv
<1>3. CASE Command
  <2>1. CASE Record
    <3>1. PICK test \in Tests, policy \in Policies : StartRecording(test, policy)
      BY <2>1 DEF Record
    <3>2. Limited(policy)
      BY PolicyAssumption DEF Limited
    <3>3. UNCHANGED <<runtime, witness>> /\ report'.kind \notin {"trace", "why"}
      BY <2>1 DEF Record, worldVars, NoReport
    <3>4. QED
      BY <1>2, <3>1, <3>2, <3>3
  <2>2. CASE StartBreak
    BY <1>1, <2>2 DEF StartBreak, worldVars, NoReport
  <2>3. CASE StartReplay
    BY <1>1, <2>3, ReplaySilent DEF StartReplay, worldVars, Says
  <2>4. CASE StartMinimization
    BY <1>1, <2>4, MinimizationSilent DEF StartMinimization, Says
  <2>5. CASE /\ StartDiagnosis(View(witness)) \/ AskSufficiency(View(witness))
             /\ UNCHANGED <<runtime, disk, witness, recording, replaying, minimizing, stopping>>
    <3>1. StartDiagnosis(View(witness)) => report'.kind \notin {"trace", "why"}
      BY DEF StartDiagnosis, NoReport
    <3>2. AskSufficiency(View(witness)) => report'.kind \notin {"trace", "why"}
      BY DEF AskSufficiency
    <3>3. QED
      BY <1>1, <2>5, <3>1, <3>2
  <2>6. CASE AskTrace /\ witness # NoWitness
    <3>1. PICK kind \in Kinds, op \in {NoOp} \cup OpsOf(witness.map), start \in {NoEvent, 2},
                   limit \in SliceLimits :
            Answer("trace", Slice(witness.trace, kind, op, start, limit))
      BY <2>6 DEF AskTrace
    <3> DEFINE slice == Slice(witness.trace, kind, op, start, limit)
    <3>2. /\ UNCHANGED <<runtime, witness, recording>>
          /\ report'.kind = "trace" /\ report'.document = slice
      BY <3>1 DEF Answer, worldVars, commandVars
    <3>3. slice.status = "complete" =>
            /\ Len(slice.events) = Cardinality(Chosen(Emitted(witness.ran).events, witness.policy))
            /\ slice.values = ToSet(Emitted(witness.ran).values)
      BY <1>0, <2>6, SliceIsWhole
    <3> HIDE DEF slice
    <3>4. CompleteMeansWhole'
      BY <3>2, <3>3 DEF CompleteMeansWhole, Emitted, RunOf
    <3>5. QED
      BY <1>0, <3>2, <3>4, ShowingStays, ShownStays DEF ShowsInv
  <2>7. CASE AskWhy /\ witness # NoWitness
    <3>1. PICK value, op : Answer("why", Why(witness, value, op))
      BY <2>7 DEF AskWhy
    <3> DEFINE answer == Why(witness, value, op)
    <3>2. /\ UNCHANGED <<runtime, witness, recording>>
          /\ report'.kind = "why" /\ report'.document = answer
      BY <3>1 DEF Answer, worldVars, commandVars
    <3>3. answer.status = "complete" =>
            \A claim \in answer.claims : \A r \in claim.refs :
              claim.kind # "operation_identity" /\ (\E v \in ToSet(Emitted(witness.ran).values) : v.id = r.id)
                => r.observed
      BY <1>0, <2>7, CompleteAnswer
    <3> HIDE DEF answer
    <3>4. CompleteMeansWhole'
      BY <3>2, <3>3 DEF CompleteMeansWhole, Emitted, RunOf
    <3>5. QED
      BY <1>0, <3>2, <3>4, ShowingStays, ShownStays DEF ShowsInv
  <2>8. CASE AskWatch \/ AskInspect \/ AskStops
    BY <1>1, <2>8 DEF AskWatch, AskInspect, AskStops, Answer, StopReport, worldVars, commandVars
  <2>9. QED
    BY <1>3, <2>1, <2>2, <2>3, <2>4, <2>5, <2>6, <2>7, <2>8 DEF Command
<1>4. CASE CommandStep
  <2>1. CASE RecordingStep
    BY <2>1, RecordingKeepsShows
  <2>2. CASE ReplayStep
    BY <1>1, <2>2, ReplaySilent
       DEF ReplayStep, OpenReplay, ValidateReplay, ExecuteReplay, Says
  <2>3. CASE MinimizationStep
    <3>1. UNCHANGED <<runtime, recording>> /\ Says({"none", "minimize"})
      BY <2>3, MinimizationSilent
         DEF MinimizationStep, TryCandidate, NoReduction, Reduce, worldVars
    <3>2. CASE UNCHANGED witness
      BY <1>1, <3>1, <3>2 DEF Says
    <3>3. CASE Reduce
      <4>1. report'.kind = "minimize"
        <5>1. report' = MinimizationReport("reduced", minimizing)
          BY <3>3, Zenon DEF Reduce
        <5>2. QED
          BY <5>1 DEF MinimizationReport
      <4>2. QED
        BY <1>0, <3>1, <3>3, <4>1, ReduceShows, ShowingStays, SaysNothing DEF ShowsInv
    <3>4. QED
      BY <2>3, <3>2, <3>3 DEF MinimizationStep, TryCandidate, NoReduction
  <2>4. CASE StopStep
    <3>1. UNCHANGED <<runtime, witness>> /\ Says({"none", "break"})
      BY <2>4, StopSilent DEF StopStep, FetchSourceMap, FinishBreak, worldVars
    <3>2. \/ \E policy : Limited(policy) /\ StartRecording(NoTest, policy)
          \/ UNCHANGED recording
      <4>1. FinishBreak => UNCHANGED recording
        BY DEF FinishBreak
      <4>2. FetchSourceMap => \/ \E target, resolution : RecordTarget(target, resolution)
                              \/ \E answer : AnswerBreak(answer)
        BY Zenon DEF FetchSourceMap
      <4>3. ASSUME NEW target, NEW resolution, RecordTarget(target, resolution)
            PROVE  \E policy : Limited(policy) /\ StartRecording(NoTest, policy)
        <5>1. PICK q \in Policies :
                StartRecording(NoTest, Policy("selected", resolution.ops, q.events, q.values))
          BY <4>3 DEF RecordTarget
        <5>2. Limited(Policy("selected", resolution.ops, q.events, q.values))
          BY PolicyAssumption DEF Limited, Policy
        <5>3. QED
          BY <5>1, <5>2
      <4>4. QED
        BY <2>4, <4>1, <4>2, <4>3 DEF StopStep, AnswerBreak
    <3>3. QED
      BY <1>1, <1>2, <3>1, <3>2 DEF Says
  <2>5. CASE /\ DiagnosisStep
             /\ UNCHANGED <<runtime, disk, witness, recording, replaying, minimizing, stopping>>
    <3>1. UNCHANGED report \/ \E reason, status, d, facts : Conclude(reason, status, d, facts)
      BY <2>5, Zenon DEF DiagnosisStep, DecideNext, Project
    <3>2. UNCHANGED report \/ report'.kind = "diagnose"
      BY <3>1 DEF Conclude
    <3>3. QED
      BY <1>1, <2>5, <3>2
  <2>6. QED
    BY <1>4, <2>1, <2>2, <2>3, <2>4, <2>5 DEF CommandStep
<1>5. CASE ReadReport
  BY <1>1, <1>5 DEF ReadReport, NoReport, commandVars, worldVars
<1>6. CASE Edit
  BY <1>1, <1>6 DEF Edit
<1>7. CASE Archive \/ UNCHANGED workbenchVars
  BY <1>1, <1>7
     DEF Archive, workbenchVars, stopVars, minimizationVars, replayVars, recordingVars, worldVars
<1>8. QED
  BY <1>3, <1>4, <1>5, <1>6, <1>7 DEF Next, Developer

\* A trace or an answer that is called complete lacks nothing the capture policy
\* asked for and no value of the run (CompleteMeansWhole), for any language, any
\* selections, any limits on events, values and slices and any edits, stalls and
\* outages (trace_slice, _native_provenance_query).
THEOREM CompleteIsWhole == Spec => []CompleteMeansWhole
<1>1. Init => ShowsInv
  <2> SUFFICES ASSUME Init PROVE ShowsInv
    OBVIOUS
  <2>1. witness = NoWitness /\ recording = NotRecording /\ report = NoReport
    BY DEF Init, RecordingInit
  <2>2. QED
    BY <2>1 DEF ShowsInv, RecordingShows, WitnessShows, CompleteMeansWhole, NotRecording, NoReport
<1>2. ShowsInv => CompleteMeansWhole
  BY DEF ShowsInv
<1>3. QED
  BY <1>1, <1>2, ShowsStep, CommandsKeepInvariant, RunsInit, RunsStep, PTL DEF Spec
=============================================================================
