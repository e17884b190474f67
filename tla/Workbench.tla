------------------------------ MODULE Workbench ------------------------------
(***************************************************************************)
(* The debugger as a developer meets it (cli.py): commands that run one at *)
(* a time on one witness file, and an archive that several processes write *)
(* to.  A command starts when no other runs, loads the witness and answers *)
(* with a report and an exit status; the files it reads may be edited      *)
(* meanwhile.                                                              *)
(***************************************************************************)
EXTENDS StopTargets, Diagnosis, Retention

CONSTANTS
  Kinds,        \* event kinds asked of a trace
  SliceLimits,  \* values of --limit
  Values,       \* value identities asked for
  Bindings      \* bindings watched

ASSUME SliceAssumption == SliceLimits \subseteq Nat

VARIABLE atWork   \* the developer runs commands; else the archive is in use

workbenchVars == <<stopVars, diagnosis, retentionVars, atWork>>

commandVars == <<recording, replaying, minimizing, stopping, diagnosis>>

Idle ==
  /\ recording = NotRecording
  /\ replaying = NotReplaying
  /\ minimizing = NotMinimizing
  /\ stopping = NotStopping
  /\ diagnosis = NotDiagnosing

Init ==
  /\ RecordingInit
  /\ ReplayInit
  /\ MinimizationInit
  /\ StopInit
  /\ DiagnosisInit
  /\ RetentionInit
  /\ atWork \in BOOLEAN

-----------------------------------------------------------------------------
(* What the escalation loop sees of a witness.                             *)

Operations(document) == \E e \in ToSet(document.events) : e.op # NoOp
Failures(document) == \E e \in ToSet(document.events) : e.kind = "failure"

\* _witness_observations.
ObservedOf(w) ==
  [schema       |-> "trace",
   anchor       |-> w.outcome.failure # NoId \/ Failures(w.trace),
   operation    |-> Operations(w.trace),
   completeness |-> IF w.trace.truncated \/ w.stream.status = "truncated" THEN "truncated"
                    ELSE IF w.trace.complete \/ w.stream.status = "complete" THEN "complete"
                    ELSE "unknown"]

\* A slice, and an answer, as documents of evidence.
SliceDocument(slice) ==
  [schema |-> "trace", anchor |-> Failures(slice), operation |-> Operations(slice),
   completeness |-> IF slice.truncated THEN "truncated" ELSE slice.status]
AnswerDocument(answer) ==
  LET claims == SetToSeq(answer.claims)
      status(claim) ==
        CASE claim.kind = "operation_identity" ->
               IF \A r \in claim.refs : r.observed THEN "observed" ELSE "unknown"
          [] claim.kind \in {"value_origin_chain", "effect_provenance"} -> "observed"
          [] OTHER -> "unknown"
  IN [schema |-> "provenance",
      claims |-> [n \in 1..Len(claims) |-> [kind |-> claims[n].kind, status |-> status(claims[n])]]]

View(w) ==
  [observed  |-> ObservedOf(w),
   exact     |-> w.mapped,
   tests     |-> IF w.test = NoTest THEN <<>>
                 ELSE <<[schema |-> "test", failed |-> w.test.verdict = "FAIL"]>>,
   replaying |-> w.outcome.status \in {"budget_exhausted", "infrastructure_failure"},
   slice     |-> SliceDocument(Slice(w.trace, "any", NoOp, NoEvent, DefaultLimit)),
   answer    |-> AnswerDocument(Why(w, NoValue, NoOp))]

-----------------------------------------------------------------------------
(* Commands that answer from the witness alone.                            *)

Answer(kind, document) ==
  /\ report' = [kind |-> kind, exit |-> "success", document |-> document]
  /\ UNCHANGED <<worldVars, witness, commandVars>>

AskTrace ==
  \E kind \in Kinds, op \in {NoOp} \cup OpsOf(witness.map), start \in {NoEvent, 2}, limit \in SliceLimits :
    Answer("trace", Slice(witness.trace, kind, op, start, limit))

AskWhy ==
  \E value \in {NoValue} \cup Values, op \in {NoOp} \cup OpsOf(witness.map) :
    Answer("why", Why(witness, value, op))

AskWatch == \E binding \in Bindings : Answer("watch", Watch(witness, binding))

AskInspect ==
  \E event \in {NoEvent} \cup {e.seq : e \in ToSet(witness.trace.events)} :
    Answer("inspect", Inspect(witness, event))

\* break on a witness: nothing runs.
AskStops ==
  \E target \in Targets :
    LET set == WitnessStopSet(witness, target)
    IN /\ report' = StopReport(set, IF set.status \in {"resolved", "observed_only"}
                                    THEN "success" ELSE "failure")
       /\ UNCHANGED <<worldVars, witness, commandVars>>

-----------------------------------------------------------------------------

\* The developer reads the answer before the next command.
ReadReport ==
  /\ Idle
  /\ report # NoReport
  /\ report' = NoReport
  /\ UNCHANGED <<worldVars, witness, commandVars>>

\* main: one command at a time; all but record and break load the witness.
Command ==
  /\ Idle
  /\ report = NoReport
  /\ \/ Record /\ UNCHANGED <<replaying, minimizing, stopping, diagnosis>>
     \/ StartBreak /\ UNCHANGED diagnosis
     \/ /\ witness # NoWitness
        /\ \/ StartReplay /\ UNCHANGED <<minimizing, stopping, diagnosis>>
           \/ StartMinimization /\ UNCHANGED <<stopping, diagnosis>>
           \/ /\ StartDiagnosis(View(witness)) \/ AskSufficiency(View(witness))
              /\ UNCHANGED <<runtime, disk, witness, recording, replaying, minimizing, stopping>>
           \/ AskTrace
           \/ AskWhy
           \/ AskWatch
           \/ AskInspect
           \/ AskStops

\* The command that runs goes on.
CommandStep ==
  \/ RecordingStep /\ UNCHANGED <<replaying, minimizing, stopping, diagnosis>>
  \/ ReplayStep /\ UNCHANGED <<minimizing, stopping, diagnosis>>
  \/ MinimizationStep /\ UNCHANGED <<stopping, diagnosis>>
  \/ StopStep /\ UNCHANGED diagnosis
  \/ DiagnosisStep /\ UNCHANGED <<runtime, disk, witness, recording, replaying, minimizing, stopping>>

Developer ==
  /\ atWork
  /\ \/ Command
     \/ CommandStep
     \/ ReadReport
     \/ Edit /\ UNCHANGED <<replaying, minimizing, stopping, diagnosis>>
  /\ UNCHANGED <<retentionVars, atWork>>

Archive ==
  /\ ~atWork
  /\ RetentionNext
  /\ UNCHANGED <<stopVars, diagnosis, atWork>>

Next == Developer \/ Archive

Spec == Init /\ [][Next]_workbenchVars

-----------------------------------------------------------------------------
(* Properties.                                                             *)

\* The witness says what ran: nobody edited its inputs while it was recorded.
Undisturbed(w) ==
  w.ran.program = w.program /\ w.ran.request = w.request /\ w.asked = w.request

\* A run whose signature is the same with the core and without it: it returned
\* or failed in the language, without an effect, and its document was short.
Ordinary(w) ==
  LET result == runtime.runs[w.ran.program][w.ran.request]
  IN /\ result.valid /\ result.ends /\ ~result.effect /\ ~result.long
     /\ result.status \in {"returned", "runtime_failure"}
     /\ w.outcome.failure_class \in {"success", "runtime_failure"}

\* A witness of an ordinary run reproduces, whatever has become of the files
\* since: from the files while both are as recorded, else from its own copies
\* (_ReplayInputs), with the signature of the recording (replay_execute).  The
\* files a replay runs must not be edited under it, and nothing may stall.
OrdinaryRunsReproduce ==
  [][ (/\ replaying.step = "execute" /\ replaying' = NotReplaying /\ trouble' = trouble
       /\ Undisturbed(witness) /\ Ordinary(witness)
       /\ replaying.inputs.where = "files" =>
            disk = [program |-> witness.program, request |-> witness.request])
      => report'.status = "reproduced" ]_workbenchVars

\* When nothing stalls and nobody edits, the witness that minimize writes has
\* the signature of the one it reduced, although candidates are judged by the
\* bare process and the reduced run is observed and classified by the core.
ReducedKeepsSignature ==
  [][ (trouble' = MaxTrouble /\ report'.kind = "minimize" /\ report'.status = "reduced"
       /\ report # report')
      => WitnessSignature(witness'.outcome) = WitnessSignature(witness.outcome) ]_workbenchVars

\* The search of minimize keeps its bounds and its account: no more attempts
\* than allowed, one change of an argument at most and in their order, and the
\* current request differs from the recorded one exactly by those changes.
SearchKeepsAccount ==
  minimizing # NotMinimizing =>
    LET m == minimizing
        changed == {m.changes[n].argument : n \in DOMAIN m.changes}
    IN /\ m.attempts <= m.most
       /\ \A i, j \in DOMAIN m.changes : i < j => m.changes[i].argument < m.changes[j].argument
       /\ \A n \in DOMAIN m.changes :
            /\ m.changes[n].argument < m.index
            /\ m.changes[n].from = witness.asked[m.changes[n].argument]
            /\ m.changes[n].to = m.current[m.changes[n].argument]
       /\ \A a \in DOMAIN witness.asked : (m.current[a] # witness.asked[a]) <=> a \in changed

\* What trace and why call complete is all the capture policy asked for, and
\* every value of the run: each event the policy chose and each value the
\* language emitted is in the slice, and no reference of the answer is left
\* open that the language had a value for, whatever the limits cut (trace_slice,
\* _native_provenance_query).
CompleteMeansWhole ==
  (report.kind \in {"trace", "why"} /\ report.document.status = "complete") =>
    LET emitted == runtime.runs[witness.ran.program][witness.ran.request].stream
    IN IF report.kind = "trace"
       THEN /\ Len(report.document.events)
                 = Cardinality(Chosen(emitted.events, witness.policy))
            /\ report.document.values = ToSet(emitted.values)
       ELSE \A claim \in report.document.claims : \A r \in claim.refs :
              claim.kind # "operation_identity" /\ (\E v \in ToSet(emitted.values) : v.id = r.id)
                => r.observed

\* The stop set of a recording break and the one that break answers later from
\* the witness it wrote are the same stops, when nobody edited in between
\* (record_stop_set against witness_stop_set).
StopSetsAgree ==
  (report.kind = "break" /\ report.set.status = "resolved" /\ report.set.executions = 2
   /\ witness.mapped /\ trouble = MaxTrouble)
  => LET later == WitnessStopSet(witness, report.set.target)
     IN later.ops = report.set.ops /\ later.matched = report.set.matched

\* The escalation is bounded: no projection twice, none that was brought along,
\* and never more of them than the budget (diagnostic_loop).
EscalationBounded ==
  /\ diagnosis # NotDiagnosing =>
       LET made == SubSeq(diagnosis.documents, diagnosis.brought + 1, Len(diagnosis.documents))
           brought == SubSeq(diagnosis.documents, 1, diagnosis.brought)
       IN /\ Len(made) = diagnosis.index /\ diagnosis.index <= diagnosis.most
          /\ \A i \in DOMAIN made :
               /\ \A j \in DOMAIN made : made[i].schema = made[j].schema => i = j
               /\ \A j \in DOMAIN brought : brought[j].schema # made[i].schema
  /\ report.kind = "diagnose" => report.used <= report.most

\* A diagnosis is sufficient only on evidence: all of the failure, its
\* operation, a whole trace and a binding are established, a killed run was
\* replayed, no replay contradicts the witness, and what says that the trace is
\* whole is a trace that was not cut, the witness's or one of the documents
\* (diagnostic_sufficiency fails closed).
SufficientIsEarned ==
  (report.kind \in {"diagnose", "sufficiency"} /\ report.status = "sufficient") =>
    /\ \A f \in {"failure_anchor_present", "operation_identity_present", "observation_complete",
                 "provenance_binding_present"} : report.facts[f]
    /\ ~report.facts["replay_mismatch"]
    /\ View(witness).replaying => report.facts["replay_established"]
    /\ \/ View(witness).observed.completeness = "complete"
       \/ \E n \in DOMAIN report.documents :
            /\ report.documents[n].schema = "trace"
            /\ report.documents[n].completeness = "complete"

\* A decision never forgets what the one before established, unless the core
\* failed or an array overflowed (diagnostic_loop, fixed).
FactsGrow ==
  [][ (/\ diagnosis.step = "decide" /\ diagnosis.index > 0 /\ trouble' = trouble
       /\ LET all == AllEvidence(diagnosis.view, diagnosis.documents)
          IN /\ ~Overflows(TracePlaces(all), TraceCap)
             /\ ~Overflows(ClaimPlaces(all), ProvenanceCap))
      => LET now == IF diagnosis' = NotDiagnosing THEN report'.facts ELSE diagnosis'.facts
         IN \A f \in FactNames : diagnosis.facts[f] => now[f] ]_workbenchVars

\* How much of the running command is still to come, at most: of a recording, a
\* replay, a search for smaller arguments, a break and an escalation.
RecordingLeft ==
  [idle |-> 0, seal |-> 1, classify |-> 2, index |-> 3, execute |-> 4, observe |-> 5][recording.step]
ReplayLeft == [idle |-> 0, execute |-> 1, validate |-> 2, open |-> 3][replaying.step]
SearchLeft ==
  IF minimizing = NotMinimizing THEN 0 ELSE 1 + minimizing.most - minimizing.attempts
StopLeft == [idle |-> 0, record |-> 1, fetch |-> 7][stopping.step]
DiagnosisLeft ==
  IF diagnosis = NotDiagnosing THEN 0
  ELSE 2 * (diagnosis.most - diagnosis.index) + (IF diagnosis.step = "decide" THEN 1 ELSE 0)
StepsLeft == RecordingLeft + ReplayLeft + SearchLeft + StopLeft + DiagnosisLeft

\* Every command returns: it has a finite number of steps ahead of it, and each
\* uses one up, a candidate whose execution failed and a projection that added
\* nothing included; edits of the files do not prolong it (the loops of
\* minimize_witness and diagnostic_loop).
CommandsReturn ==
  [][ (~Idle /\ disk' = disk) => 0 <= StepsLeft' /\ StepsLeft' < StepsLeft ]_workbenchVars
=============================================================================
