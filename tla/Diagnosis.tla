------------------------------ MODULE Diagnosis ------------------------------
(***************************************************************************)
(* The diagnose and sufficiency commands (analysis.py): ask the native     *)
(* core what is missing, look at the witness that way, and ask again,      *)
(* within a budget.  The loop sees a witness as a view:                    *)
(*   observed   what its trace shows, as the document of a trace           *)
(*   exact      a frame has a source location the compiler vouches for     *)
(*   tests      the imported test result, as documents                     *)
(*   replaying  its run was killed or left no document                     *)
(*   slice      the document of trace_slice over the whole trace           *)
(*   answer     the document of provenance_query without a question        *)
(***************************************************************************)
EXTENDS EvidenceReducer, Bench

CONSTANT Evidence   \* sequences of documents a developer may bring along

ASSUME EvidenceAssumption ==
  \A documents \in Evidence : documents \in Seq({documents[n] : n \in 1..Len(documents)})

VARIABLE diagnosis   \* the diagnosis in progress

diagnosisVars == <<trouble, report, diagnosis>>

NotDiagnosing == [step |-> "idle"]
DiagnosisInit == diagnosis = NotDiagnosing

Schemas == {"trace", "provenance", "replay", "minimization"}

\* _witness_observations: the trace of the witness, and an origin chain when a
\* frame has an exact location.
OwnEvidence(view) ==
  IF view.exact
  THEN <<view.observed,
         [schema |-> "provenance",
          claims |-> <<[kind |-> "value_origin_chain", status |-> "available"]>>]>>
  ELSE <<view.observed>>

\* Mutant of Weighed: only the last document counts.
WeighedLast(view, documents) ==
  LET last == IF documents = <<>> THEN <<>> ELSE <<documents[Len(documents)]>>
  IN Facts(last \o view.tests \o OwnEvidence(view))

\* What a decision is made from: the documents, then the imported result, then
\* the witness itself.
AllEvidence(view, documents) == documents \o (view.tests \o OwnEvidence(view))
Weighed(view, documents) == Facts(AllEvidence(view, documents))

\* diagnostic_sufficiency.
Judge(view, documents, budget, coreUp) ==
  IF coreUp THEN Decision(Weighed(view, documents), view.replaying, budget)
  ELSE UnsupportedDecision

SufficiencyExit(status) == IF status = "sufficient" THEN "success" ELSE "failure"

\* The sufficiency command: one decision.
AskSufficiency(view) ==
  /\ diagnosis = NotDiagnosing
  /\ \E down \in BOOLEAN, documents \in Evidence :
       /\ Mishap(down)
       /\ LET d == Judge(view, documents, 4, ~down)
          IN report' = [kind |-> "sufficiency", status |-> d.status, facts |-> d.facts,
                        documents |-> documents, exit |-> SufficiencyExit(d.status)]
  /\ UNCHANGED diagnosis

\* Mutant of Supplied: what was brought along is not remembered.
SuppliedNothing(documents) == {}

\* A projection whose document was brought along counts as attempted.
Supplied(documents) == {documents[n].schema : n \in 1..Len(documents)} \cap Schemas

\* diagnose: a document that was brought along is not produced again.
StartDiagnosis(view) ==
  /\ diagnosis = NotDiagnosing
  /\ \E documents \in Evidence, most \in 1..MaxSteps :
       diagnosis' = [step |-> "decide", view |-> view, documents |-> documents,
                     brought |-> Len(documents), most |-> most, index |-> 0,
                     attempted |-> Supplied(documents),
                     operation |-> "none", facts |-> NoFacts]
  /\ report' = NoReport
  /\ UNCHANGED trouble

\* The end of the loop: the facts are those of the last decision.
Conclude(reason, status, d, facts) ==
  /\ diagnosis' = NotDiagnosing
  /\ report' = [kind     |-> "diagnose",
                reason   |-> reason,
                status   |-> status,
                used     |-> Len(d.documents) - d.brought,
                most     |-> d.most,
                facts    |-> facts,
                documents |-> d.documents,
                exit     |-> SufficiencyExit(status)]

\* One decision of the core: it ends the loop, or names a projection that was
\* not tried before.
DecideNext ==
  /\ diagnosis.step = "decide"
  /\ \E down \in BOOLEAN :
       /\ Mishap(down)
       /\ LET d == diagnosis
              decision == Judge(d.view, d.documents, d.most - d.index, ~down)
          IN CASE decision.status = "sufficient" ->
                    Conclude("sufficient", "sufficient", d, decision.facts)
               [] decision.status = "unsupported" ->
                    Conclude("unsupported", "unsupported", d, decision.facts)
               [] decision.status = "ambiguous" /\ decision.stop ->
                    Conclude("budget_exhausted", "unknown", d, decision.facts)
               [] /\ decision.status = "ambiguous" /\ ~decision.stop
                  /\ decision.operation \in d.attempted ->
                    Conclude("projection_did_not_increase_evidence", "unknown", d, decision.facts)
               [] OTHER ->
                    /\ diagnosis' = [d EXCEPT !.step = "project", !.operation = decision.operation,
                                              !.facts = decision.facts]
                    /\ UNCHANGED report

\* The document a projection produces.  The one of a replay is that of the
\* recorded trace; a minimization may end in any of its ways.
Projections(view, operation) ==
  CASE operation = "trace" -> {view.slice}
    [] operation = "provenance" -> {view.answer}
    [] operation = "replay" -> {[schema |-> "replay", status |-> "replayed"]}
    [] operation = "minimization" ->
         {[schema |-> "minimization", status |-> s] : s \in {"reduced", "no_reduction", "blocked"}}

\* A mismatch is not something a projection could add.
Increasing == FactNames \ {"replay_mismatch"}

\* The projection and the facts of all the documents with it: the loop goes on
\* when they establish what the decision had not.
Project ==
  /\ diagnosis.step = "project"
  /\ \E down \in BOOLEAN, document \in Projections(diagnosis.view, diagnosis.operation) :
       /\ Mishap(down)
       /\ LET d == [diagnosis EXCEPT !.documents = Append(@, document),
                                     !.attempted = @ \cup {diagnosis.operation}]
              after == IF down THEN NoFacts ELSE Facts(d.documents)
          IN IF \E f \in Increasing : after[f] /\ ~d.facts[f]
             THEN /\ diagnosis' = [d EXCEPT !.step = "decide", !.index = @ + 1]
                  /\ UNCHANGED report
             ELSE Conclude("projection_did_not_increase_evidence", "unknown", d, d.facts)

DiagnosisStep == DecideNext \/ Project
=============================================================================
