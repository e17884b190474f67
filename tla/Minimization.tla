---------------------------- MODULE Minimization ----------------------------
(***************************************************************************)
(* The minimize command (minimize_witness in analysis.py): a greedy search *)
(* for smaller integer arguments under which the run has the signature of  *)
(* the witness.  For each argument a few candidates are executed, the      *)
(* first that matches is kept, and the reduced request is recorded anew.   *)
(***************************************************************************)
EXTENDS Replay

CONSTANTS
  Inputs,       \* every request the candidates of the Requests can become
  MaxAttempts   \* values of --max-attempts

ASSUME AttemptAssumption == MaxAttempts \subseteq Nat

VARIABLE minimizing   \* the minimization in progress

minimizationVars == <<replayVars, minimizing>>

NotMinimizing == [step |-> "idle"]
MinimizationInit == minimizing = NotMinimizing

\* _candidates: zero, a unit, and the two halves, each once and never the value
\* itself; a candidate is named by its place among the four.
Halves(v) == <<0, IF v < 0 THEN -1 ELSE 1, v \div 2, v - v \div 2>>
Candidates(v) ==
  {i \in 1..4 : Halves(v)[i] # v /\ \A j \in 1..(i - 1) : Halves(v)[j] # Halves(v)[i]}

\* A candidate of an input is an input, and runs give documents.
ASSUME InputAssumption ==
  /\ Requests \subseteq Inputs
  /\ \A args \in Inputs : \A n \in DOMAIN args : \A i \in Candidates(args[n]) :
       [args EXCEPT ![n] = Halves(args[n])[i]] \in Inputs
ASSUME RuntimeAssumption ==
  \A r \in Runtimes : \A p \in Programs : \A q \in Inputs :
    /\ {"valid", "ends", "status", "failure", "effect", "returned"} \subseteq DOMAIN r.runs[p][q]
    /\ r.runs[p][q].valid \in BOOLEAN
ASSUME StreamAssumption ==
  \A r \in Runtimes : \A p \in Programs : \A q \in Inputs :
    LET stream == r.runs[p][q].stream
    IN /\ {"events", "values", "effects", "status"} \subseteq DOMAIN stream
       /\ stream.events \in Seq({stream.events[n] : n \in 1..Len(stream.events)})
       /\ stream.values \in Seq({stream.values[n] : n \in 1..Len(stream.values)})

\* The candidates of the argument at index, none past the last argument.
WorkFrom(args, index) ==
  IF index > Len(args) THEN {} ELSE Candidates(args[index])

\* The place of the candidate whose turn it is, and its value.
Turn(m) == CHOOSE i \in m.left : \A j \in m.left : i <= j
Candidate(m) == Halves(witness.asked[m.index])[Turn(m)]

MinimizationReport(status, m) ==
  [kind |-> "minimize", status |-> status, attempts |-> m.attempts, changes |-> m.changes,
   exit |-> IF status \in {"reduced", "no_reduction"} THEN "success" ELSE "failure"]

\* The recipe's executable and libraries, and then the inputs, which are
\* those of a replay; inputs that are gone end the command with an error.
StartMinimization ==
  /\ minimizing = NotMinimizing
  /\ witness # NoWitness
  /\ \E gone \in BOOLEAN, most \in MaxAttempts :
       /\ Mishap(gone)
       /\ LET none == [attempts |-> 0, changes |-> <<>>]
          IN CASE gone ->
                    minimizing' = NotMinimizing /\ report' = MinimizationReport("blocked", none)
               [] ~gone /\ ReplayInputs.where = "unavailable" ->
                    minimizing' = NotMinimizing /\ report' = MinimizationReport("error", none)
               [] OTHER ->
                    /\ minimizing' = [step |-> "try", inputs |-> ReplayInputs, most |-> most,
                                      index |-> 1, left |-> WorkFrom(witness.asked, 1),
                                      current |-> witness.asked, attempts |-> 0, changes |-> <<>>]
                    /\ report' = NoReport
  /\ UNCHANGED <<runtime, disk, witness, recording, replaying>>

\* The program the candidates run on; the request is the candidate.
CandidateFiles(candidate) ==
  [program |-> FilesOf(minimizing.inputs).program, request |-> candidate]

\* The search after a candidate was executed: one that matches is kept, and
\* the next one is of the next argument when this one is finished.
Advance(m, keep, finished) ==
  [m EXCEPT
     !.attempts = @ + 1,
     !.current  = IF keep THEN [@ EXCEPT ![m.index] = Candidate(m)] ELSE @,
     !.changes  = IF keep
                  THEN Append(@, [argument |-> m.index, from |-> m.current[m.index],
                                  to |-> Candidate(m)])
                  ELSE @,
     !.index    = IF finished THEN @ + 1 ELSE @,
     !.left     = IF finished THEN WorkFrom(witness.asked, m.index + 1)
                  ELSE @ \ {Turn(m)}]

\* Mutant of Tried: the candidates of an argument go on after one was kept.
TriedOn(m, keep, down) == Advance(m, keep, m.left = {Turn(m)})

\* Mutant of Tried: a candidate that could not be executed is tried again.
TriedAgain(m, keep, down) ==
  IF down THEN m ELSE Advance(m, keep, keep \/ m.left = {Turn(m)})

\* A candidate that matches ends the search for its argument.
Tried(m, keep, down) == Advance(m, keep, keep \/ m.left = {Turn(m)})

\* One candidate: executed through the process effect, without a validation.
\* An effect that fails has no signature.
TryCandidate ==
  /\ minimizing.step = "try"
  /\ minimizing.left # {}
  /\ minimizing.attempts < minimizing.most
  /\ \E down, late \in BOOLEAN :
       /\ ~(down /\ late)
       /\ Mishap(down \/ late)
       /\ LET m == minimizing
              candidate == [m.current EXCEPT ![m.index] = Candidate(m)]
              keep == ~down /\ Reproduces(ExecutionSignature(Printed(CandidateFiles(candidate), late)))
          IN minimizing' = Tried(m, keep, down)
  /\ UNCHANGED <<runtime, disk, witness, report, recording, replaying>>

SearchOver ==
  /\ minimizing.step = "try"
  /\ minimizing.left = {} \/ minimizing.attempts >= minimizing.most

\* No candidate was kept: the witness stays as it is.
NoReduction ==
  /\ SearchOver
  /\ minimizing.changes = <<>>
  /\ minimizing' = NotMinimizing
  /\ report' = MinimizationReport("no_reduction", minimizing)
  /\ UNCHANGED <<worldVars, witness, recording, replaying>>

\* What build_witness observes unless it is told otherwise; its cap of 2048
\* values is above twice the default.
DefaultPolicy == Policy("bounded", {}, DefaultLimit, 2 * DefaultLimit)

\* The run of the reduced request: observed, or executed when the observation
\* does not come.
ReducedRun(late, later, down) ==
  LET files == CandidateFiles(minimizing.current)
      native == IsObservation(Printed(files, late))
      result == Printed(files, later)
  IN [ran |-> files, program |-> files.program, request |-> files.request,
      loaded |-> files.request, kept |-> FALSE, test |-> witness.test,
      policy |-> DefaultPolicy, native |-> native,
      stream |-> IF native THEN Observed(result, DefaultPolicy) ELSE NoStream,
      mapped |-> native /\ runtime.mapped, map |-> runtime.maps[files.program],
      valid |-> result.valid, result |-> result,
      outcome |-> Outcome(result, witness.test, ~down)]

\* The reduced request is recorded: build_witness on a request file that is
\* removed afterwards, with the verdict of the imported test.
Reduce ==
  /\ SearchOver
  /\ minimizing.changes # <<>>
  /\ \E late, later, down \in BOOLEAN :
       LET cost(b) == IF b THEN 1 ELSE 0
       IN /\ ReducedRun(late, later, down).native => ~later
          /\ Mishaps(cost(late) + cost(later) + cost(down))
          /\ witness' = NewWitness(ReducedRun(late, later, down))
  /\ minimizing' = NotMinimizing
  /\ report' = MinimizationReport("reduced", minimizing)
  /\ UNCHANGED <<runtime, disk, recording, replaying>>

MinimizationStep == TryCandidate \/ NoReduction \/ Reduce
=============================================================================
