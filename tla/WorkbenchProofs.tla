--------------------------- MODULE WorkbenchProofs ---------------------------
(***************************************************************************)
(* Proofs about the composed Workbench, for any runtime, any programs and  *)
(* requests, any evidence and any amount of trouble: the archive behaves   *)
(* as Retention alone does, the escalation of a diagnosis is bounded, one  *)
(* command runs at a time and each returns, and the search of minimize     *)
(* keeps its account.                                                      *)
(***************************************************************************)
EXTENDS Workbench, RetentionProofs, SequenceTheorems

-----------------------------------------------------------------------------
(* The archive.                                                            *)

\* Whatever the developer does, the archive takes only the steps of Retention.
THEOREM ArchiveIsRetention == Spec => RetentionSpec
<1>1. Init => RetentionInit
  BY DEF Init
<1>2. [Next]_workbenchVars => [RetentionNext]_retentionVars
  <2> SUFFICES ASSUME [Next]_workbenchVars PROVE [RetentionNext]_retentionVars
    OBVIOUS
  <2>1. CASE Developer
    BY <2>1 DEF Developer
  <2>2. CASE Archive
    BY <2>2 DEF Archive
  <2>3. CASE UNCHANGED workbenchVars
    BY <2>3 DEF workbenchVars
  <2>4. QED
    BY <2>1, <2>2, <2>3 DEF Next
<1>3. QED
  BY <1>1, <1>2, PTL DEF Spec, RetentionSpec

\* A fetch from the archive never gives out what was not asked for.
THEOREM ArchiveFetchesAreTrue == Spec => []FetchNeverLies
  BY ArchiveIsRetention, FetchesAreTrue, PTL

\* A retain into the archive that gives up was overtaken twice.
THEOREM ArchiveGivesUpAfterTwo == Spec => []OvertakenTwice
  BY ArchiveIsRetention, GivesUpAfterTwo, PTL

-----------------------------------------------------------------------------
(* The escalation.                                                         *)

\* A diagnosis under way, in the terms of its loop: the documents are those
\* brought along and one for each projection made; all that could be projected
\* and is there was attempted; what was projected is there once; and the next
\* projection is within the budget and was not attempted.
Underway(d) ==
  /\ DOMAIN d = {"step", "view", "documents", "brought", "most", "index", "attempted",
                 "operation", "facts"}
  /\ d.step \in {"decide", "project"}
  /\ d.view.slice.schema = "trace"
  /\ d.view.answer.schema = "provenance"
  /\ d.documents \in Seq({d.documents[n] : n \in 1..Len(d.documents)})
  /\ d.brought \in Nat
  /\ d.index \in Nat
  /\ d.most \in Nat
  /\ d.index <= d.most
  /\ Len(d.documents) = d.brought + d.index
  /\ \A n \in 1..Len(d.documents) :
       d.documents[n].schema \in Schemas => d.documents[n].schema \in d.attempted
  /\ \A n \in (d.brought + 1)..Len(d.documents) :
       /\ d.documents[n].schema \in Schemas
       /\ \A m \in 1..Len(d.documents) : d.documents[m].schema = d.documents[n].schema => m = n
  /\ d.step = "project" =>
       d.index < d.most /\ d.operation \in Schemas /\ d.operation \notin d.attempted

DiagnosisInv ==
  /\ diagnosis = NotDiagnosing \/ Underway(diagnosis)
  /\ report.kind = "diagnose" => report.used <= report.most

\* A step that answers, if it does, with a report of one of these kinds.
Says(kinds) == report' = report \/ report'.kind \in kinds

\* One that tells nothing of a diagnosis, nor of what suffices for one.
SilentOnDiagnosis == Says({"none", "record", "replay", "minimize", "break", "trace", "why", "watch",
                           "inspect"})

\* The other commands report of themselves only.
LEMMA RecordingSilent == (RecordingStep \/ Record \/ Edit) => Says({"none", "record"})
  BY DEF RecordingStep, Record, Edit, Observe, Execute, IndexStatics, ClassifyRun, SealWitness,
         worldVars, Says, NoReport

LEMMA ReplaySilent == (StartReplay \/ ReplayStep) => Says({"none", "replay"})
  BY DEF StartReplay, ReplayStep, OpenReplay, ValidateReplay, ExecuteReplay, BlockReplay,
         CompareReplay, ReplayReport, NoReport, Says

LEMMA MinimizationSilent == (StartMinimization \/ MinimizationStep) => Says({"none", "minimize"})
<1> USE DEF Says
<1>1. StartMinimization => Says({"none", "minimize"})
  <2> SUFFICES ASSUME StartMinimization PROVE Says({"none", "minimize"})
    OBVIOUS
  <2>1. (\E status, m : report' = MinimizationReport(status, m)) \/ report' = NoReport
    BY Zenon DEF StartMinimization
  <2>2. QED
    BY <2>1 DEF MinimizationReport, NoReport
<1>2. TryCandidate => Says({"none", "minimize"})
  BY DEF TryCandidate
<1>3. NoReduction => Says({"none", "minimize"})
  BY DEF NoReduction, MinimizationReport
<1>4. Reduce => Says({"none", "minimize"})
  <2> SUFFICES ASSUME Reduce PROVE Says({"none", "minimize"})
    OBVIOUS
  <2>1. report' = MinimizationReport("reduced", minimizing)
    BY Zenon DEF Reduce
  <2>2. QED
    BY <2>1 DEF MinimizationReport
<1>5. QED
  BY <1>1, <1>2, <1>3, <1>4 DEF MinimizationStep

LEMMA StopSilent == (StartBreak \/ StopStep) => Says({"none", "break"})
<1> USE DEF Says
<1>1. StartBreak => Says({"none", "break"})
  BY DEF StartBreak, NoReport
<1>2. FetchSourceMap => Says({"none", "break"})
  <2> SUFFICES ASSUME FetchSourceMap PROVE Says({"none", "break"})
    OBVIOUS
  <2>1. \/ \E target, resolution : RecordTarget(target, resolution)
        \/ \E set, exit : AnswerBreak(StopReport(set, exit))
    BY Zenon DEF FetchSourceMap, StopError
  <2>2. QED
    BY <2>1 DEF RecordTarget, AnswerBreak, StopReport
<1>3. FinishBreak => Says({"none", "break"})
  BY DEF FinishBreak, StopReport
<1>4. QED
  BY <1>1, <1>2, <1>3 DEF StopStep

LEMMA AnswersSilent ==
  AskTrace \/ AskWhy \/ AskWatch \/ AskInspect \/ AskStops
    => Says({"trace", "why", "watch", "inspect", "break"})
  BY DEF AskTrace, AskWhy, AskWatch, AskInspect, AskStops, Answer, StopReport, Says

\* They keep the invariant, for the diagnosis they leave alone.
LEMMA SilentStep ==
  ASSUME DiagnosisInv, UNCHANGED diagnosis, SilentOnDiagnosis
  PROVE  DiagnosisInv'
  BY DEF DiagnosisInv, Says, SilentOnDiagnosis

\* What a core that answers may decide.
LEMMA DecisionShape ==
  ASSUME NEW facts, NEW requested, NEW budget,
         Decision(facts, requested, budget).status = "ambiguous",
         ~Decision(facts, requested, budget).stop
  PROVE  budget # 0 /\ Decision(facts, requested, budget).operation \in Schemas
  BY DEF Decision, Gap, NextOperation, Schemas

LEMMA JudgeShape ==
  ASSUME NEW view, NEW documents, NEW budget, NEW up \in BOOLEAN
  PROVE  LET d == Judge(view, documents, budget, up)
         IN /\ d.status \in {"sufficient", "ambiguous", "unsupported"}
            /\ d.stop \in BOOLEAN
            /\ d.status = "ambiguous" /\ ~d.stop => budget # 0 /\ d.operation \in Schemas
<1> DEFINE d == Judge(view, documents, budget, up)
<1>1. CASE ~up
  BY <1>1 DEF Judge, UnsupportedDecision
<1>2. CASE up
  <2>1. d = Decision(Weighed(view, documents), view.replaying, budget)
    BY <1>2 DEF Judge
  <2>2. d.status \in {"sufficient", "ambiguous"} /\ d.stop \in BOOLEAN
    BY <2>1 DEF Decision
  <2>3. QED
    BY <2>1, <2>2, DecisionShape
<1>3. QED
  BY <1>1, <1>2

LEMMA StartDiagnosisKeeps ==
  ASSUME DiagnosisInv, NEW view, view.slice.schema = "trace", view.answer.schema = "provenance",
         StartDiagnosis(view)
  PROVE  DiagnosisInv'
<1>1. PICK documents \in Evidence, most \in 1..MaxSteps :
        diagnosis' = [step |-> "decide", view |-> view, documents |-> documents,
                      brought |-> Len(documents), most |-> most, index |-> 0,
                      attempted |-> Supplied(documents),
                      operation |-> "none", facts |-> NoFacts]
  BY DEF StartDiagnosis
<1>2. documents \in Seq({documents[n] : n \in 1..Len(documents)})
  BY EvidenceAssumption
<1>3. most \in Nat /\ Len(documents) \in Nat
  BY <1>2, StepAssumption
<1>4. \A n \in 1..Len(documents) :
        documents[n].schema \in Schemas => documents[n].schema \in Supplied(documents)
  BY DEF Supplied
<1>5. Underway(diagnosis')
  BY <1>1, <1>2, <1>3, <1>4 DEF Underway
<1>6. report'.kind # "diagnose"
  BY DEF StartDiagnosis, NoReport
<1>7. QED
  BY <1>5, <1>6 DEF DiagnosisInv

LEMMA DecideNextKeeps ==
  ASSUME DiagnosisInv, DecideNext
  PROVE  DiagnosisInv'
<1>1. Underway(diagnosis)
  BY DEF DiagnosisInv, DecideNext, NotDiagnosing
<1>2. PICK down \in BOOLEAN :
        LET d == diagnosis
            decision == Judge(d.view, d.documents, d.most - d.index, ~down)
        IN \/ \E reason, status : Conclude(reason, status, d, decision.facts)
           \/ /\ decision.status # "sufficient" /\ decision.status # "unsupported"
              /\ ~(decision.status = "ambiguous" /\ decision.stop)
              /\ ~(decision.status = "ambiguous" /\ ~decision.stop /\ decision.operation \in d.attempted)
              /\ diagnosis' = [d EXCEPT !.step = "project", !.operation = decision.operation,
                                        !.facts = decision.facts]
              /\ UNCHANGED report
  BY DEF DecideNext
<1> DEFINE d == diagnosis
           decision == Judge(d.view, d.documents, d.most - d.index, ~down)
<1>3. CASE \E reason, status : Conclude(reason, status, d, decision.facts)
  <2>1. diagnosis' = NotDiagnosing /\ report'.used = Len(d.documents) - d.brought /\ report'.most = d.most
    BY <1>3 DEF Conclude
  <2>2. Len(d.documents) - d.brought <= d.most
    BY <1>1 DEF Underway
  <2>3. QED
    BY <2>1, <2>2 DEF DiagnosisInv
<1>4. CASE /\ decision.status # "sufficient" /\ decision.status # "unsupported"
           /\ ~(decision.status = "ambiguous" /\ decision.stop)
           /\ ~(decision.status = "ambiguous" /\ ~decision.stop /\ decision.operation \in d.attempted)
           /\ diagnosis' = [d EXCEPT !.step = "project", !.operation = decision.operation,
                                     !.facts = decision.facts]
           /\ UNCHANGED report
  <2> DEFINE budget == d.most - d.index
             up == ~down
  <2>1. d.most - d.index # 0 /\ decision.operation \in Schemas /\ decision.operation \notin d.attempted
    <3>1. up \in BOOLEAN
      OBVIOUS
    <3>2. decision = Judge(d.view, d.documents, budget, up)
      OBVIOUS
    <3> HIDE DEF decision, budget, up
    <3>3. /\ decision.status \in {"sufficient", "ambiguous", "unsupported"}
          /\ decision.stop \in BOOLEAN
          /\ decision.status = "ambiguous" /\ ~decision.stop =>
               budget # 0 /\ decision.operation \in Schemas
      BY <3>1, <3>2, JudgeShape
    <3>4. QED
      BY <1>4, <3>3 DEF decision, budget, up
  <2>2. d.index < d.most
    BY <1>1, <2>1 DEF Underway
  <2>3. /\ DOMAIN diagnosis' = DOMAIN d
        /\ diagnosis'.step = "project"
        /\ diagnosis'.operation = decision.operation
        /\ diagnosis'.view = d.view
        /\ diagnosis'.documents = d.documents
        /\ diagnosis'.brought = d.brought
        /\ diagnosis'.most = d.most
        /\ diagnosis'.index = d.index
        /\ diagnosis'.attempted = d.attempted
    BY <1>1, <1>4 DEF Underway
  <2>4. Underway(diagnosis')
    BY <1>1, <2>1, <2>2, <2>3 DEF Underway
  <2>5. QED
    BY <1>4, <2>4 DEF DiagnosisInv
<1>5. QED
  BY <1>2, <1>3, <1>4

\* One more element at the end of a sequence.
LEMMA AppendFacts ==
  ASSUME NEW s, s \in Seq({s[n] : n \in 1..Len(s)}), NEW x
  PROVE  LET more == Append(s, x)
         IN /\ Len(s) \in Nat
            /\ Len(more) = Len(s) + 1
            /\ more[Len(s) + 1] = x
            /\ \A n \in 1..Len(s) : more[n] = s[n]
            /\ more \in Seq({more[n] : n \in 1..Len(more)})
  OBVIOUS

\* A projection that was not attempted may join the documents.
LEMMA OneMoreDocument ==
  ASSUME NEW d, Underway(d), d.step = "project", NEW x, x.schema = d.operation,
         NEW e, DOMAIN e = DOMAIN d, e.step = "decide", e.view = d.view,
         e.documents = Append(d.documents, x), e.brought = d.brought, e.most = d.most,
         e.index = d.index + 1, e.attempted = d.attempted \cup {d.operation}
  PROVE  Underway(e)
<1> DEFINE s == d.documents
           n0 == Len(s)
           more == Append(s, x)
<1>1. s \in Seq({s[n] : n \in 1..Len(s)})
  BY DEF Underway
<1>2. n0 \in Nat /\ Len(more) = n0 + 1 /\ more[n0 + 1] = x
  BY <1>1, AppendFacts
<1>3. \A n \in 1..n0 : more[n] = s[n]
  BY <1>1, AppendFacts
<1>4. more \in Seq({more[n] : n \in 1..Len(more)})
  BY <1>1, AppendFacts
<1>5. d.brought \in Nat /\ d.index \in Nat /\ d.most \in Nat /\ d.index < d.most /\ n0 = d.brought + d.index
  BY DEF Underway
<1>6. d.operation \in Schemas /\ d.operation \notin d.attempted
  BY DEF Underway
<1>7. \A n \in 1..n0 : s[n].schema \in Schemas => s[n].schema \in d.attempted
  BY DEF Underway
<1>8. \A n \in (d.brought + 1)..n0 :
        /\ s[n].schema \in Schemas
        /\ \A m \in 1..n0 : s[m].schema = s[n].schema => m = n
  BY DEF Underway
<1>9. e.documents = more
  OBVIOUS
<1> HIDE DEF s, n0, more
<1>10. e.index \in Nat /\ e.index <= e.most
  BY <1>5
<1>11. Len(more) = e.brought + e.index
  BY <1>2, <1>5
<1>12. \A n \in 1..Len(more) : n \in 1..n0 \/ n = n0 + 1
  BY <1>2
<1>13. \A n \in 1..Len(more) : more[n].schema \in Schemas => more[n].schema \in e.attempted
  BY <1>2, <1>3, <1>7, <1>12
<1>14. \A n \in 1..n0 : more[n].schema # d.operation
  BY <1>3, <1>6, <1>7
<1>15. \A n \in (e.brought + 1)..Len(more) :
        /\ more[n].schema \in Schemas
        /\ \A m \in 1..Len(more) : more[m].schema = more[n].schema => m = n
  <2> SUFFICES ASSUME NEW n \in (e.brought + 1)..Len(more), NEW m \in 1..Len(more)
               PROVE  more[n].schema \in Schemas /\ (more[m].schema = more[n].schema => m = n)
    BY <1>2, <1>5
  <2>1. m \in 1..n0 \/ m = n0 + 1
    BY <1>12
  <2>2. CASE n = n0 + 1
    BY <1>2, <1>6, <1>14, <2>1, <2>2
  <2>3. CASE n # n0 + 1
    <3>1. n \in (d.brought + 1)..n0
      BY <1>2, <1>5, <2>3
    <3>2. n \in 1..n0
      BY <1>5, <3>1
    <3>3. more[n].schema \in Schemas
      BY <1>3, <1>8, <3>1, <3>2
    <3>4. CASE m = n0 + 1
      BY <1>2, <1>14, <3>2, <3>3, <3>4
    <3>5. CASE m \in 1..n0
      BY <1>3, <1>8, <3>1, <3>2, <3>3, <3>5
    <3>6. QED
      BY <2>1, <3>4, <3>5
  <2>4. QED
    BY <2>2, <2>3
<1>16. QED
  <2>1. d.view.slice.schema = "trace" /\ d.view.answer.schema = "provenance"
    BY DEF Underway
  <2>2. DOMAIN e = {"step", "view", "documents", "brought", "most", "index", "attempted",
                    "operation", "facts"}
    BY DEF Underway
  <2>3. e.brought \in Nat /\ e.most \in Nat
    BY <1>5
  <2>4. QED
    BY <1>4, <1>9, <1>10, <1>11, <1>13, <1>15, <2>1, <2>2, <2>3 DEF Underway

LEMMA ProjectKeeps ==
  ASSUME DiagnosisInv, Project
  PROVE  DiagnosisInv'
<1> DEFINE old == diagnosis
<1>1. Underway(old) /\ old.step = "project"
  BY DEF DiagnosisInv, Project, NotDiagnosing
<1>2. PICK down \in BOOLEAN, document \in Projections(old.view, old.operation) :
        LET d == [old EXCEPT !.documents = Append(@, document),
                             !.attempted = @ \cup {old.operation}]
        IN \/ diagnosis' = [d EXCEPT !.step = "decide", !.index = @ + 1] /\ UNCHANGED report
           \/ \E reason, status : Conclude(reason, status, d, d.facts)
  BY DEF Project
<1> DEFINE d == [old EXCEPT !.documents = Append(@, document),
                            !.attempted = @ \cup {old.operation}]
<1>3. document.schema = old.operation
  BY <1>1 DEF Projections, Underway, Schemas
<1>4. /\ DOMAIN d = DOMAIN old
      /\ d.documents = Append(old.documents, document)
      /\ d.attempted = old.attempted \cup {old.operation}
      /\ d.view = old.view /\ d.brought = old.brought /\ d.most = old.most /\ d.index = old.index
  BY <1>1 DEF Underway
<1> HIDE DEF d
<1>5. CASE diagnosis' = [d EXCEPT !.step = "decide", !.index = @ + 1] /\ UNCHANGED report
  <2>1. /\ DOMAIN diagnosis' = DOMAIN d
        /\ diagnosis'.step = "decide"
        /\ diagnosis'.index = d.index + 1
        /\ diagnosis'.view = d.view /\ diagnosis'.documents = d.documents
        /\ diagnosis'.brought = d.brought /\ diagnosis'.most = d.most
        /\ diagnosis'.attempted = d.attempted
    BY <1>1, <1>4, <1>5 DEF Underway
  <2> DEFINE e == diagnosis'
  <2>2. /\ DOMAIN e = DOMAIN old /\ e.step = "decide" /\ e.view = old.view
        /\ e.documents = Append(old.documents, document) /\ e.brought = old.brought
        /\ e.most = old.most /\ e.index = old.index + 1
        /\ e.attempted = old.attempted \cup {old.operation}
    BY <1>4, <2>1
  <2> HIDE DEF e
  <2>3. Underway(e)
    BY <1>1, <1>3, <2>2, OneMoreDocument
  <2>4. QED
    BY <1>5, <2>3 DEF DiagnosisInv, e
<1>6. CASE \E reason, status : Conclude(reason, status, d, d.facts)
  <2>1. diagnosis' = NotDiagnosing /\ report'.used = Len(d.documents) - d.brought /\ report'.most = d.most
    BY <1>6 DEF Conclude
  <2>2. Len(d.documents) = Len(old.documents) + 1
    <3>1. old.documents \in Seq({old.documents[n] : n \in 1..Len(old.documents)})
      BY <1>1 DEF Underway
    <3> HIDE DEF old
    <3>2. QED
      BY <1>4, <3>1, AppendFacts
  <2>3. Len(d.documents) - d.brought <= d.most
    BY <1>1, <1>4, <2>2 DEF Underway
  <2>4. QED
    BY <2>1, <2>3 DEF DiagnosisInv
<1>7. QED
  BY <1>2, <1>5, <1>6 DEF d

LEMMA DiagnosisStepInv == DiagnosisInv /\ [Next]_workbenchVars => DiagnosisInv'
<1> SUFFICES ASSUME DiagnosisInv, [Next]_workbenchVars PROVE DiagnosisInv'
  OBVIOUS
<1>1. CASE Developer
  <2>1. CASE Command
    <3>1. CASE Record /\ UNCHANGED <<replaying, minimizing, stopping, diagnosis>>
      BY <3>1, RecordingSilent, SilentStep DEF Says, SilentOnDiagnosis
    <3>2. CASE StartBreak /\ UNCHANGED diagnosis
      BY <3>2, StopSilent, SilentStep DEF Says, SilentOnDiagnosis
    <3>3. CASE StartReplay /\ UNCHANGED <<minimizing, stopping, diagnosis>>
      BY <3>3, ReplaySilent, SilentStep DEF Says, SilentOnDiagnosis
    <3>4. CASE StartMinimization /\ UNCHANGED <<stopping, diagnosis>>
      BY <3>4, MinimizationSilent, SilentStep DEF Says, SilentOnDiagnosis
    <3>5. CASE StartDiagnosis(View(witness))
      <4>1. View(witness).slice.schema = "trace" /\ View(witness).answer.schema = "provenance"
        BY DEF View, SliceDocument, AnswerDocument
      <4>2. QED
        BY <3>5, <4>1, StartDiagnosisKeeps
    <3>6. CASE AskSufficiency(View(witness))
      BY <3>6 DEF AskSufficiency, DiagnosisInv
    <3>7. CASE AskTrace \/ AskWhy \/ AskWatch \/ AskInspect \/ AskStops
      <4>1. UNCHANGED diagnosis
        BY <3>7 DEF AskTrace, AskWhy, AskWatch, AskInspect, AskStops, Answer, commandVars
      <4>2. QED
        BY <3>7, <4>1, AnswersSilent, SilentStep DEF Says, SilentOnDiagnosis
    <3>8. QED
      BY <2>1, <3>1, <3>2, <3>3, <3>4, <3>5, <3>6, <3>7 DEF Command
  <2>2. CASE CommandStep
    <3>1. CASE DiagnosisStep
      BY <3>1, DecideNextKeeps, ProjectKeeps DEF DiagnosisStep
    <3>2. CASE ~DiagnosisStep
      BY <2>2, <3>2, RecordingSilent, ReplaySilent, MinimizationSilent, StopSilent, SilentStep
         DEF Says, SilentOnDiagnosis, CommandStep
    <3>3. QED
      BY <3>1, <3>2
  <2>3. CASE ReadReport
    BY <2>3, SilentStep DEF ReadReport, NoReport, Says, SilentOnDiagnosis, commandVars
  <2>4. CASE Edit /\ UNCHANGED <<replaying, minimizing, stopping, diagnosis>>
    BY <2>4, RecordingSilent, SilentStep DEF Says, SilentOnDiagnosis
  <2>5. QED
    BY <1>1, <2>1, <2>2, <2>3, <2>4 DEF Developer
<1>2. CASE Archive
  BY <1>2, SilentStep DEF Archive, stopVars, minimizationVars, replayVars, recordingVars,
                          Says, SilentOnDiagnosis
<1>3. CASE UNCHANGED workbenchVars
  BY <1>3, SilentStep DEF workbenchVars, stopVars, minimizationVars, replayVars, recordingVars,
                          Says, SilentOnDiagnosis
<1>4. QED
  BY <1>1, <1>2, <1>3 DEF Next

\* The elements of a suffix of a sequence.
LEMMA SuffixOfSeq ==
  ASSUME NEW S, NEW s \in Seq(S), NEW b \in Nat, NEW i \in Nat, Len(s) = b + i
  PROVE  /\ Len(SubSeq(s, b + 1, Len(s))) = i
         /\ DOMAIN SubSeq(s, b + 1, Len(s)) = 1..i
         /\ \A n \in 1..i : SubSeq(s, b + 1, Len(s))[n] = s[b + n]
<1>1. \A n \in (b + 1)..Len(s) : s[n] \in S
  OBVIOUS
<1>2. b + 1 \in Int /\ Len(s) \in Int
  OBVIOUS
<1>3. /\ SubSeq(s, b + 1, Len(s)) \in Seq(S)
      /\ Len(SubSeq(s, b + 1, Len(s))) = IF b + 1 <= Len(s) THEN Len(s) - (b + 1) + 1 ELSE 0
      /\ \A n \in 1..(Len(s) - (b + 1) + 1) : SubSeq(s, b + 1, Len(s))[n] = s[b + 1 + n - 1]
  BY <1>1, <1>2, SubSeqProperties
<1>4. QED
  BY <1>3

\* The escalation of diagnose is bounded, whatever the evidence, the witness
\* and the core: no projection twice, none that was brought along, never more
\* of them than the budget (diagnostic_loop).
THEOREM DiagnosesAreBounded == Spec => []EscalationBounded
<1>1. Init => DiagnosisInv
  BY DEF Init, DiagnosisInit, RecordingInit, DiagnosisInv, NoReport
<1>2. DiagnosisInv => EscalationBounded
  <2> SUFFICES ASSUME DiagnosisInv PROVE EscalationBounded
    OBVIOUS
  <2>1. CASE diagnosis = NotDiagnosing
    BY <2>1 DEF DiagnosisInv, EscalationBounded
  <2>2. CASE diagnosis # NotDiagnosing
    <3> DEFINE d == diagnosis
               docs == d.documents
               made == SubSeq(docs, d.brought + 1, Len(docs))
               brought == SubSeq(docs, 1, d.brought)
    <3>1. Underway(d)
      BY <2>2 DEF DiagnosisInv
    <3>2. /\ Len(docs) \in Nat /\ d.brought \in Nat /\ d.index \in Nat
          /\ Len(docs) = d.brought + d.index
      BY <3>1 DEF Underway
    <3>0. docs \in Seq({docs[n] : n \in 1..Len(docs)})
      BY <3>1 DEF Underway
    <3>3. /\ Len(made) = d.index /\ DOMAIN made = 1..d.index
          /\ \A i \in 1..d.index : made[i] = docs[d.brought + i]
      <4> DEFINE S == {docs[n] : n \in 1..Len(docs)}
                 b == d.brought
                 i == d.index
      <4> HIDE DEF docs, S, b, i
      <4>1. docs \in Seq(S)
        BY <3>0 DEF S
      <4>2. b \in Nat /\ i \in Nat /\ Len(docs) = b + i
        BY <3>2 DEF b, i
      <4>3. /\ Len(SubSeq(docs, b + 1, Len(docs))) = i
            /\ DOMAIN SubSeq(docs, b + 1, Len(docs)) = 1..i
            /\ \A n \in 1..i : SubSeq(docs, b + 1, Len(docs))[n] = docs[b + n]
        BY <4>1, <4>2, SuffixOfSeq
      <4>4. QED
        BY <4>3, Zenon DEF b, i
    <3>4. DOMAIN brought = 1..d.brought /\ \A j \in 1..d.brought : brought[j] = docs[j]
      BY <3>2
    <3>5. \A n \in (d.brought + 1)..Len(docs) : \A m \in 1..Len(docs) :
            docs[m].schema = docs[n].schema => m = n
      BY <3>1 DEF Underway
    <3> HIDE DEF made, brought, docs
    <3>6. \A i, j \in 1..d.index : made[i].schema = made[j].schema => i = j
      <4> SUFFICES ASSUME NEW i \in 1..d.index, NEW j \in 1..d.index, made[i].schema = made[j].schema
                   PROVE  i = j
        OBVIOUS
      <4>1. d.brought + i \in (d.brought + 1)..Len(docs) /\ d.brought + j \in 1..Len(docs)
        BY <3>2
      <4>2. d.brought + i = d.brought + j
        BY <3>3, <3>5, <4>1
      <4>3. QED
        BY <3>2, <4>2
    <3>7. \A i \in 1..d.index, j \in 1..d.brought : brought[j].schema # made[i].schema
      <4> SUFFICES ASSUME NEW i \in 1..d.index, NEW j \in 1..d.brought
                   PROVE  brought[j].schema # made[i].schema
        OBVIOUS
      <4>1. d.brought + i \in (d.brought + 1)..Len(docs) /\ j \in 1..Len(docs) /\ j # d.brought + i
        BY <3>2
      <4>2. QED
        BY <3>3, <3>4, <3>5, <4>1
    <3>8. Len(made) = d.index /\ d.index <= d.most
      BY <3>1, <3>3 DEF Underway
    <3>9. QED
      BY <3>3, <3>4, <3>6, <3>7, <3>8 DEF EscalationBounded, DiagnosisInv, made, brought, docs
  <2>3. QED
    BY <2>1, <2>2
<1>3. QED
  BY <1>1, <1>2, DiagnosisStepInv, PTL DEF Spec

-----------------------------------------------------------------------------
(* The invariant of the commands.                                          *)

\* Where each command may be.
PhasesOK ==
  /\ "step" \in DOMAIN recording
  /\ recording.step \in {"idle", "observe", "execute", "index", "classify", "seal"}
  /\ recording.step = "idle" => recording = NotRecording
  /\ "step" \in DOMAIN replaying
  /\ replaying.step \in {"idle", "open", "validate", "execute"}
  /\ replaying.step = "idle" => replaying = NotReplaying
  /\ stopping.step \in {"idle", "fetch", "record"}
  /\ stopping.step = "idle" => stopping = NotStopping

\* One command runs at a time; only a break that records has a recording under
\* it, and an archive in use runs none.
OneCommand ==
  /\ replaying # NotReplaying =>
       recording = NotRecording /\ minimizing = NotMinimizing /\ stopping = NotStopping
       /\ diagnosis = NotDiagnosing
  /\ minimizing # NotMinimizing =>
       recording = NotRecording /\ replaying = NotReplaying /\ stopping = NotStopping
       /\ diagnosis = NotDiagnosing
  /\ stopping # NotStopping =>
       replaying = NotReplaying /\ minimizing = NotMinimizing /\ diagnosis = NotDiagnosing
  /\ stopping.step = "fetch" => recording = NotRecording
  /\ diagnosis # NotDiagnosing =>
       recording = NotRecording /\ replaying = NotReplaying /\ minimizing = NotMinimizing
       /\ stopping = NotStopping
  /\ ~atWork => Idle

\* The request of a witness, and of the run it will be made of, is one of
\* integer arguments.
RequestsOK ==
  /\ disk \in [program : Programs, request : Requests]
  /\ recording.step \in {"index", "classify", "seal"} =>
       "loaded" \in DOMAIN recording /\ recording.loaded \in Seq(Int)
  /\ witness # NoWitness => witness.asked \in Seq(Int)

\* The account of a search m for smaller arguments of a request.
Change == [argument : Nat, from : Int, to : Int]
Account(m, asked) ==
  /\ \A i, j \in 1..Len(m.changes) : i < j => m.changes[i].argument < m.changes[j].argument
  /\ \A n \in 1..Len(m.changes) :
       /\ m.changes[n].argument \in 1..Len(asked)
       /\ m.changes[n].argument < m.index
       /\ m.changes[n].from = asked[m.changes[n].argument]
       /\ m.changes[n].to = m.current[m.changes[n].argument]
       /\ m.changes[n].to # m.changes[n].from
  /\ \A a \in 1..Len(asked) :
       m.current[a] # asked[a] => \E n \in 1..Len(m.changes) : m.changes[n].argument = a

Searching(m, asked) ==
  /\ DOMAIN m = {"step", "inputs", "most", "index", "left", "current", "attempts", "changes"}
  /\ m.step = "try"
  /\ m.most \in Nat
  /\ m.attempts \in Nat
  /\ m.attempts <= m.most
  /\ m.index \in Nat \ {0}
  /\ m.left \subseteq 1..4
  /\ m.left # {} => m.index <= Len(asked) /\ m.left \subseteq Candidates(asked[m.index])
  /\ m.current \in Seq(Int)
  /\ Len(m.current) = Len(asked)
  /\ m.changes \in Seq(Change)
  /\ Account(m, asked)

SearchOK ==
  minimizing # NotMinimizing => witness # NoWitness /\ Searching(minimizing, witness.asked)

CommandInv == PhasesOK /\ OneCommand /\ RequestsOK /\ SearchOK /\ DiagnosisInv

-----------------------------------------------------------------------------
(* What the steps of a recording do.                                       *)

\* With puts the new fields over the others.
LEMMA WithStep ==
  ASSUME NEW r, NEW g, "step" \in DOMAIN g
  PROVE  "step" \in DOMAIN With(r, g) /\ With(r, g).step = g.step
  BY DEF With

LEMMA WithNewLoaded ==
  ASSUME NEW r, NEW g, "loaded" \in DOMAIN g
  PROVE  "loaded" \in DOMAIN With(r, g) /\ With(r, g).loaded = g.loaded
  BY DEF With

LEMMA WithOldLoaded ==
  ASSUME NEW r, NEW g, "loaded" \in DOMAIN r, "loaded" \notin DOMAIN g
  PROVE  "loaded" \in DOMAIN With(r, g) /\ With(r, g).loaded = r.loaded
  BY DEF With

LEMMA ObserveSteps ==
  ASSUME PhasesOK, RequestsOK, Observe
  PROVE  /\ "step" \in DOMAIN recording'
         /\ recording.step = "observe" /\ recording'.step \in {"execute", "index"}
         /\ recording'.step = "index" => "loaded" \in DOMAIN recording' /\ recording'.loaded = disk.request
         /\ UNCHANGED <<disk, witness>>
<1>1. PICK late \in BOOLEAN :
        LET result == Printed(disk, late)
            g == [step |-> "index", native |-> TRUE, ran |-> disk, loaded |-> disk.request,
                  result |-> result,
                  stream |-> Observed(result, recording.policy)]
        IN recording' = With(recording, g) \/ recording' = [recording EXCEPT !.step = "execute"]
  BY DEF Observe
<1> DEFINE result == Printed(disk, late)
           g == [step |-> "index", native |-> TRUE, ran |-> disk, loaded |-> disk.request,
                 result |-> result,
                 stream |-> Observed(result, recording.policy)]
<1>2. CASE recording' = With(recording, g)
  <2>1. "step" \in DOMAIN g /\ g.step = "index" /\ "loaded" \in DOMAIN g /\ g.loaded = disk.request
    OBVIOUS
  <2> HIDE DEF g
  <2>2. QED
    BY <1>2, <2>1, WithStep, WithNewLoaded DEF Observe
<1>3. CASE recording' = [recording EXCEPT !.step = "execute"]
  BY <1>3 DEF PhasesOK, Observe
<1>4. QED
  BY <1>1, <1>2, <1>3

LEMMA ExecuteSteps ==
  ASSUME PhasesOK, RequestsOK, Execute
  PROVE  /\ "step" \in DOMAIN recording'
         /\ recording.step = "execute" /\ recording'.step = "index"
         /\ "loaded" \in DOMAIN recording' /\ recording'.loaded = disk.request
         /\ UNCHANGED <<disk, witness>>
<1>1. PICK late \in BOOLEAN :
        recording' = With(recording,
                          [step |-> "index", native |-> FALSE, ran |-> disk, loaded |-> disk.request,
                           result |-> Printed(disk, late), stream |-> NoStream])
  BY DEF Execute
<1> DEFINE g == [step |-> "index", native |-> FALSE, ran |-> disk, loaded |-> disk.request,
                 result |-> Printed(disk, late), stream |-> NoStream]
<1>2. "step" \in DOMAIN g /\ g.step = "index" /\ "loaded" \in DOMAIN g /\ g.loaded = disk.request
  OBVIOUS
<1>3. recording' = With(recording, g)
  BY <1>1
<1> HIDE DEF g
<1>4. QED
  BY <1>2, <1>3, WithStep, WithNewLoaded DEF Execute

LEMMA IndexSteps ==
  ASSUME PhasesOK, RequestsOK, IndexStatics
  PROVE  /\ "step" \in DOMAIN recording'
         /\ recording.step = "index" /\ recording'.step = "classify"
         /\ "loaded" \in DOMAIN recording' /\ recording'.loaded = recording.loaded
         /\ UNCHANGED <<disk, witness>>
<1> DEFINE fresh == runtime.runs[disk.program][disk.request]
           g == [step   |-> "classify",
                 valid  |-> IF recording.native THEN TRUE ELSE fresh.valid,
                 mapped |-> recording.native /\ runtime.mapped,
                 map    |-> IF recording.native THEN runtime.maps[recording.ran.program]
                            ELSE runtime.maps[disk.program]]
<1>1. recording' = With(recording, g)
  BY DEF IndexStatics
<1>2. "step" \in DOMAIN g /\ g.step = "classify" /\ "loaded" \notin DOMAIN g
  OBVIOUS
<1> HIDE DEF g
<1>3. recording.step = "index" /\ UNCHANGED <<disk, witness>>
  BY DEF IndexStatics, worldVars
<1>4. QED
  BY <1>1, <1>2, <1>3, WithStep, WithOldLoaded DEF RequestsOK

LEMMA ClassifySteps ==
  ASSUME PhasesOK, RequestsOK, ClassifyRun
  PROVE  /\ "step" \in DOMAIN recording'
         /\ recording.step = "classify" /\ recording'.step = "seal"
         /\ "loaded" \in DOMAIN recording' /\ recording'.loaded = recording.loaded
         /\ UNCHANGED <<disk, witness>>
<1>1. PICK outcome : recording' = With(recording, [step |-> "seal", outcome |-> outcome])
  BY DEF ClassifyRun
<1> DEFINE g == [step |-> "seal", outcome |-> outcome]
<1>2. "step" \in DOMAIN g /\ g.step = "seal" /\ "loaded" \notin DOMAIN g
  OBVIOUS
<1>3. recording' = With(recording, g)
  BY <1>1
<1> HIDE DEF g
<1>4. recording.step = "classify" /\ UNCHANGED <<disk, witness>>
  BY DEF ClassifyRun
<1>5. QED
  BY <1>2, <1>3, <1>4, WithStep, WithOldLoaded DEF RequestsOK

LEMMA SealSteps ==
  ASSUME PhasesOK, RequestsOK, SealWitness
  PROVE  /\ recording' = NotRecording /\ recording.step = "seal"
         /\ UNCHANGED disk
         /\ witness'.asked = recording.loaded
<1> DEFINE g == [program |-> disk.program, request |-> disk.request, kept |-> TRUE]
<1>1. recording' = NotRecording /\ recording.step = "seal" /\ UNCHANGED disk
  BY DEF SealWitness, worldVars
<1>2. witness' = NewWitness(With(recording, g))
  BY DEF SealWitness
<1>3. witness'.asked = With(recording, g).loaded
  BY <1>2 DEF NewWitness
<1>4. "loaded" \notin DOMAIN g
  OBVIOUS
<1> HIDE DEF g
<1>5. QED
  BY <1>1, <1>3, <1>4, WithStep, WithOldLoaded DEF RequestsOK

\* A step of a recording uses one up, and keeps the requests.
LEMMA RecordingSteps ==
  ASSUME PhasesOK, RequestsOK, RecordingStep
  PROVE  /\ recording # NotRecording
         /\ "step" \in DOMAIN recording'
         /\ recording'.step \in {"idle", "observe", "execute", "index", "classify", "seal"}
         /\ recording'.step = "idle" => recording' = NotRecording
         /\ RequestsOK'
         /\ RecordingLeft' \in Nat /\ RecordingLeft \in Nat
         /\ RecordingLeft' < RecordingLeft
<1> USE DEF RecordingLeft, RequestsOK
<1>0. disk.request \in Seq(Int)
  BY RequestAssumption
<1>1. CASE Observe
  BY <1>0, <1>1, ObserveSteps DEF NotRecording
<1>2. CASE Execute
  BY <1>0, <1>2, ExecuteSteps DEF NotRecording
<1>3. CASE IndexStatics
  BY <1>3, IndexSteps DEF NotRecording
<1>4. CASE ClassifyRun
  BY <1>4, ClassifySteps DEF NotRecording
<1>5. CASE SealWitness
  BY <1>5, SealSteps DEF NotRecording
<1>6. QED
  BY <1>1, <1>2, <1>3, <1>4, <1>5 DEF RecordingStep

-----------------------------------------------------------------------------
(* What the steps of a replay and of a break do.                           *)

\* A step of a replay uses one up.
LEMMA ReplaySteps ==
  ASSUME PhasesOK, ReplayStep
  PROVE  /\ replaying # NotReplaying
         /\ "step" \in DOMAIN replaying'
         /\ replaying'.step \in {"idle", "open", "validate", "execute"}
         /\ replaying'.step = "idle" => replaying' = NotReplaying
         /\ UNCHANGED <<disk, witness, recording>>
         /\ ReplayLeft' \in Nat /\ ReplayLeft \in Nat
         /\ ReplayLeft' < ReplayLeft
<1> USE DEF ReplayLeft, NotReplaying
<1>1. CASE OpenReplay
  <2>1. /\ replaying.step = "open" /\ UNCHANGED <<disk, witness, recording>>
        /\ \/ replaying' = NotReplaying
           \/ \E inputs : replaying' = [step |-> "validate", inputs |-> inputs]
    BY <1>1 DEF OpenReplay, BlockReplay
  <2>2. QED
    BY <2>1
<1>2. CASE ValidateReplay
  <2>1. /\ replaying.step = "validate" /\ UNCHANGED <<disk, witness, recording>>
        /\ replaying' = NotReplaying \/ replaying' = [replaying EXCEPT !.step = "execute"]
    BY <1>2 DEF ValidateReplay, BlockReplay, CompareReplay
  <2>2. QED
    BY <2>1 DEF PhasesOK
<1>3. CASE ExecuteReplay
  <2>1. /\ replaying.step = "execute" /\ UNCHANGED <<disk, witness, recording>>
        /\ replaying' = NotReplaying
    BY <1>3 DEF ExecuteReplay, BlockReplay, CompareReplay
  <2>2. QED
    BY <2>1
<1>4. QED
  BY <1>1, <1>2, <1>3 DEF ReplayStep

\* A new recording, of a record command or of a break.
LEMMA RecordingStarts ==
  ASSUME NEW test, NEW policy, StartRecording(test, policy)
  PROVE  /\ "step" \in DOMAIN recording'
         /\ recording'.step = "observe"
         /\ RecordingLeft' = 5
  BY DEF StartRecording, RecordingLeft

\* A step of a break uses up more than the recording it may start will need.
LEMMA StopSteps ==
  ASSUME PhasesOK, OneCommand, StopStep
  PROVE  /\ stopping # NotStopping
         /\ recording = NotRecording
         /\ UNCHANGED <<disk, witness, replaying, minimizing>>
         /\ \/ stopping' = NotStopping /\ recording' = recording
            \/ /\ stopping.step = "fetch" /\ stopping'.step = "record"
               /\ "step" \in DOMAIN recording' /\ recording'.step = "observe"
         /\ RecordingLeft + StopLeft \in Nat
         /\ RecordingLeft' + StopLeft' \in Nat
         /\ RecordingLeft' + StopLeft' < RecordingLeft + StopLeft
<1> USE DEF StopLeft, NotStopping
<1>0. recording = NotRecording => RecordingLeft = 0 /\ (recording' = recording => RecordingLeft' = 0)
  BY DEF RecordingLeft, NotRecording
<1>1. CASE FetchSourceMap
  <2>1. recording = NotRecording /\ stopping.step = "fetch" /\ UNCHANGED <<disk, witness, replaying, minimizing>>
    BY <1>1 DEF FetchSourceMap, OneCommand
  <2>2. \/ stopping' = NotStopping /\ recording' = recording
        \/ \E target, resolution : RecordTarget(target, resolution)
    BY <1>1, Zenon DEF FetchSourceMap, AnswerBreak
  <2>3. CASE stopping' = NotStopping /\ recording' = recording
    BY <1>0, <2>1, <2>3
  <2>4. CASE \E target, resolution : RecordTarget(target, resolution)
    <3>1. PICK target, resolution : RecordTarget(target, resolution)
      BY <2>4
    <3>2. stopping'.step = "record"
      BY <3>1 DEF RecordTarget
    <3>3. PICK policy : StartRecording(NoTest, policy)
      BY <3>1 DEF RecordTarget
    <3>4. "step" \in DOMAIN recording' /\ recording'.step = "observe" /\ RecordingLeft' = 5
      BY <3>3, RecordingStarts
    <3>5. QED
      BY <1>0, <2>1, <3>2, <3>4
  <2>5. QED
    BY <2>2, <2>3, <2>4
<1>2. CASE FinishBreak
  <2>1. /\ stopping.step = "record" /\ recording = NotRecording /\ stopping' = NotStopping
        /\ UNCHANGED <<disk, witness, recording, replaying, minimizing>>
    BY <1>2 DEF FinishBreak, worldVars
  <2>2. QED
    BY <1>0, <2>1
<1>3. QED
  BY <1>1, <1>2 DEF StopStep

-----------------------------------------------------------------------------
(* What the steps of a search do.                                          *)

LEMMA CandidateFresh ==
  ASSUME NEW v \in Int, NEW i \in Candidates(v)
  PROVE  Halves(v)[i] \in Int /\ Halves(v)[i] # v
  BY DEF Candidates, Halves

LEMMA TurnIsLeft ==
  ASSUME NEW m, m.left \subseteq 1..4, m.left # {}
  PROVE  Turn(m) \in m.left
<1>1. \E i \in m.left : \A j \in m.left : i <= j
  <2>1. CASE 1 \in m.left
    BY <2>1
  <2>2. CASE 1 \notin m.left /\ 2 \in m.left
    BY <2>2
  <2>3. CASE 1 \notin m.left /\ 2 \notin m.left /\ 3 \in m.left
    BY <2>3
  <2>4. CASE 1 \notin m.left /\ 2 \notin m.left /\ 3 \notin m.left
    BY <2>4
  <2>5. QED
    BY <2>1, <2>2, <2>3, <2>4
<1>2. QED
  BY <1>1 DEF Turn

\* An argument that has no change yet is as it was recorded.
LEMMA Untouched ==
  ASSUME NEW asked \in Seq(Int), NEW m, Searching(m, asked), m.index <= Len(asked)
  PROVE  m.current[m.index] = asked[m.index]
<1>1. m.index \in 1..Len(asked)
  BY DEF Searching
<1>2. \A n \in 1..Len(m.changes) : m.changes[n].argument # m.index
  BY <1>1 DEF Searching, Account
<1>3. QED
  BY <1>1, <1>2 DEF Searching, Account

\* The account of a search that kept a candidate.
LEMMA KeptAccount ==
  ASSUME NEW asked \in Seq(Int), NEW m, Searching(m, asked), m.index <= Len(asked),
         NEW v \in Int, v # asked[m.index], NEW e,
         e.current = [m.current EXCEPT ![m.index] = v],
         e.changes = Append(m.changes, [argument |-> m.index, from |-> m.current[m.index], to |-> v]),
         e.index = m.index + 1
  PROVE  e.current \in Seq(Int) /\ Len(e.current) = Len(asked) /\ e.changes \in Seq(Change)
         /\ Account(e, asked)
<1> DEFINE k == m.index
           last == Len(asked)
           old == m.changes
           new == e.changes
           len == Len(old)
           c == [argument |-> k, from |-> asked[k], to |-> v]
<1>1. k \in Int /\ last \in Nat /\ k \in 1..last /\ len \in Nat
  BY DEF Searching
<1>2. e.index = k + 1 /\ v # asked[k]
  OBVIOUS
<1>3. e.current \in Seq(Int) /\ Len(e.current) = last
  BY DEF Searching
<1>4. e.current[k] = v
  BY DEF Searching
<1>5. \A a \in 1..last : a # k => e.current[a] = m.current[a]
  BY DEF Searching
<1>6. c \in Change
  BY DEF Change, Searching
<1>7. old \in Seq(Change) /\ new = Append(old, c)
  BY Untouched DEF Searching
<1>8. c.argument = k /\ c.from = asked[k] /\ c.to = v
  OBVIOUS
<1>9. \A i, j \in 1..len : i < j => old[i].argument < old[j].argument
  BY DEF Searching, Account
<1>10. \A n \in 1..len :
         /\ old[n].argument \in 1..last
         /\ old[n].argument < k
         /\ old[n].from = asked[old[n].argument]
         /\ old[n].to = m.current[old[n].argument]
         /\ old[n].to # old[n].from
  BY DEF Searching, Account
<1>11. \A a \in 1..last : m.current[a] # asked[a] => \E n \in 1..len : old[n].argument = a
  BY DEF Searching, Account
<1> HIDE DEF c, k, last, old, new
<1>12. new \in Seq(Change) /\ Len(new) = len + 1
  BY <1>6, <1>7, AppendProperties
<1>13. new[len + 1] = c
  BY <1>6, <1>7
<1>14. \A n \in 1..len : new[n] = old[n]
  BY <1>6, <1>7
<1> HIDE DEF len
<1>15. \A n \in 1..(len + 1) : n = len + 1 \/ n \in 1..len
  BY <1>1
<1>16. \A i, j \in 1..(len + 1) : i < j => new[i].argument < new[j].argument
  <2> SUFFICES ASSUME NEW i \in 1..(len + 1), NEW j \in 1..(len + 1), i < j
               PROVE  new[i].argument < new[j].argument
    OBVIOUS
  <2>1. i \in 1..len
    BY <1>1
  <2>2. CASE j = len + 1
    BY <1>8, <1>10, <1>13, <1>14, <2>1, <2>2
  <2>3. CASE j \in 1..len
    BY <1>9, <1>14, <2>1, <2>3
  <2>4. QED
    BY <1>15, <2>2, <2>3
<1>17. \A n \in 1..(len + 1) :
         /\ new[n].argument \in 1..last
         /\ new[n].argument < e.index
         /\ new[n].from = asked[new[n].argument]
         /\ new[n].to = e.current[new[n].argument]
         /\ new[n].to # new[n].from
  <2> SUFFICES ASSUME NEW n \in 1..(len + 1)
               PROVE  /\ new[n].argument \in 1..last
                      /\ new[n].argument < e.index
                      /\ new[n].from = asked[new[n].argument]
                      /\ new[n].to = e.current[new[n].argument]
                      /\ new[n].to # new[n].from
    OBVIOUS
  <2>1. CASE n = len + 1
    BY <1>1, <1>2, <1>4, <1>8, <1>13, <2>1
  <2>2. CASE n \in 1..len
    <3> DEFINE g == old[n].argument
    <3>1. new[n] = old[n]
      BY <1>14, <2>2
    <3>2. g \in 1..last /\ g < k /\ old[n].from = asked[g] /\ old[n].to = m.current[g] /\ old[n].to # old[n].from
      BY <1>10, <2>2
    <3>3. g # k /\ g < k + 1
      BY <1>1, <3>2
    <3>4. e.current[g] = m.current[g]
      BY <1>5, <3>2, <3>3
    <3>5. QED
      BY <1>2, <3>1, <3>2, <3>3, <3>4
  <2>3. QED
    BY <1>15, <2>1, <2>2
<1>18. \A a \in 1..last : e.current[a] # asked[a] => \E n \in 1..(len + 1) : new[n].argument = a
  <2> SUFFICES ASSUME NEW a \in 1..last, e.current[a] # asked[a]
               PROVE  \E n \in 1..(len + 1) : new[n].argument = a
    OBVIOUS
  <2>1. CASE a = k
    <3>1. len + 1 \in 1..(len + 1)
      BY <1>1
    <3>2. QED
      BY <1>8, <1>13, <2>1, <3>1
  <2>2. CASE a # k
    <3>1. PICK n \in 1..len : old[n].argument = a
      BY <1>5, <1>11, <2>2
    <3>2. n \in 1..(len + 1)
      BY <1>1
    <3>3. QED
      BY <1>14, <3>1, <3>2
  <2>3. QED
    BY <2>1, <2>2
<1>19. Account(e, asked)
  BY <1>12, <1>16, <1>17, <1>18 DEF Account, new, last
<1>20. QED
  BY <1>3, <1>12, <1>19 DEF last, new

\* A candidate was executed: the search keeps its account, and has one attempt
\* less ahead of it.
LEMMA TriedKeeps ==
  ASSUME NEW m, NEW keep \in BOOLEAN, NEW down, witness.asked \in Seq(Int),
         Searching(m, witness.asked), m.left # {}, m.attempts < m.most
  PROVE  /\ Searching(Tried(m, keep, down), witness.asked)
         /\ Tried(m, keep, down).attempts = m.attempts + 1
         /\ Tried(m, keep, down).most = m.most
<1> DEFINE asked == witness.asked
           v == Candidate(m)
           finished == keep \/ m.left = {Turn(m)}
           e == Tried(m, keep, down)
           c == [argument |-> m.index, from |-> m.current[m.index], to |-> v]
<1>1. e = [m EXCEPT
             !.attempts = @ + 1,
             !.current  = IF keep THEN [@ EXCEPT ![m.index] = v] ELSE @,
             !.changes  = IF keep THEN Append(@, c) ELSE @,
             !.index    = IF finished THEN @ + 1 ELSE @,
             !.left     = IF finished THEN WorkFrom(asked, m.index + 1) ELSE @ \ {Turn(m)}]
  BY Zenon DEF Tried, Advance
<1>2. DOMAIN m = {"step", "inputs", "most", "index", "left", "current", "attempts", "changes"}
  BY DEF Searching
<1> HIDE DEF v, finished, e, c, asked
<1>3. /\ DOMAIN e = DOMAIN m
      /\ e.step = m.step
      /\ e.most = m.most
      /\ e.attempts = m.attempts + 1
      /\ e.current = IF keep THEN [m.current EXCEPT ![m.index] = v] ELSE m.current
      /\ e.changes = IF keep THEN Append(m.changes, c) ELSE m.changes
      /\ e.index = IF finished THEN m.index + 1 ELSE m.index
      /\ e.left = IF finished THEN WorkFrom(asked, m.index + 1) ELSE m.left \ {Turn(m)}
  BY <1>1, <1>2
<1>4. /\ asked \in Seq(Int) /\ Searching(m, asked)
      /\ m.left \subseteq 1..4 /\ m.left # {}
      /\ m.index \in Nat \ {0} /\ m.index <= Len(asked)
      /\ m.left \subseteq Candidates(asked[m.index])
  BY DEF asked, Searching
<1>5. asked[m.index] \in Int
  BY <1>4
<1>6. v \in Int /\ v # asked[m.index]
  <2>1. Turn(m) \in Candidates(asked[m.index])
    BY <1>4, TurnIsLeft
  <2>2. v = Halves(asked[m.index])[Turn(m)]
    BY DEF v, asked, Candidate
  <2>3. QED
    BY <1>5, <2>1, <2>2, CandidateFresh
<1>7. e.left \subseteq 1..4 /\ (e.left # {} => e.index <= Len(asked) /\ e.left \subseteq Candidates(asked[e.index]))
  <2>1. CASE finished
    <3>1. e.index = m.index + 1 /\ e.left = WorkFrom(asked, m.index + 1)
      BY <1>3, <2>1
    <3>2. QED
      BY <1>4, <3>1 DEF WorkFrom, Candidates
  <2>2. CASE ~finished
    BY <1>3, <1>4, <2>2
  <2>3. QED
    BY <2>1, <2>2
<1>8. e.index \in Nat \ {0} /\ e.index >= m.index
  BY <1>3, <1>4
<1>9. e.current \in Seq(Int) /\ Len(e.current) = Len(asked) /\ e.changes \in Seq(Change) /\ Account(e, asked)
  <2>1. CASE keep
    <3>1. finished
      BY <2>1 DEF finished
    <3>2. /\ e.current = [m.current EXCEPT ![m.index] = v]
          /\ e.changes = Append(m.changes, [argument |-> m.index, from |-> m.current[m.index], to |-> v])
          /\ e.index = m.index + 1
      BY <1>3, <2>1, <3>1 DEF c
    <3>3. QED
      BY <1>4, <1>6, <3>2, KeptAccount
  <2>2. CASE ~keep
    <3>1. e.current = m.current /\ e.changes = m.changes
      BY <1>3, <2>2
    <3>2. /\ m.current \in Seq(Int) /\ Len(m.current) = Len(asked)
          /\ m.changes \in Seq(Change) /\ Account(m, asked)
      BY <1>4 DEF Searching
    <3>3. \A n \in 1..Len(m.changes) : m.changes[n].argument < m.index => m.changes[n].argument < e.index
      <4>1. \A n \in 1..Len(m.changes) : m.changes[n] \in Change
        BY <3>2
      <4>2. QED
        BY <1>4, <1>8, <4>1 DEF Change
    <3>4. Account(e, asked)
      BY <3>1, <3>2, <3>3 DEF Account
    <3>5. QED
      BY <3>1, <3>2, <3>4
  <2>3. QED
    BY <2>1, <2>2
<1>10. m.step = "try" /\ m.most \in Nat /\ m.attempts + 1 \in Nat /\ m.attempts + 1 <= m.most
  BY DEF Searching
<1>11. Searching(e, asked)
  BY <1>2, <1>3, <1>7, <1>8, <1>9, <1>10 DEF Searching
<1>12. QED
  BY <1>3, <1>11 DEF e, asked

\* A search begins with an empty account.
LEMMA SearchBegins ==
  ASSUME PhasesOK, RequestsOK, StartMinimization
  PROVE  /\ UNCHANGED <<disk, witness, recording, replaying>>
         /\ minimizing' # NotMinimizing => witness # NoWitness /\ Searching(minimizing', witness.asked)
<1>1. UNCHANGED <<disk, witness, recording, replaying>> /\ witness # NoWitness
  BY DEF StartMinimization
<1>2. \/ minimizing' = NotMinimizing
      \/ \E most \in MaxAttempts :
           minimizing' = [step |-> "try", inputs |-> ReplayInputs, most |-> most,
                          index |-> 1, left |-> WorkFrom(witness.asked, 1),
                          current |-> witness.asked, attempts |-> 0, changes |-> <<>>]
  BY Zenon DEF StartMinimization
<1>3. ASSUME NEW most \in MaxAttempts,
             minimizing' = [step |-> "try", inputs |-> ReplayInputs, most |-> most,
                            index |-> 1, left |-> WorkFrom(witness.asked, 1),
                            current |-> witness.asked, attempts |-> 0, changes |-> <<>>]
      PROVE  Searching(minimizing', witness.asked)
  <2> DEFINE asked == witness.asked
             m == minimizing'
  <2>1. asked \in Seq(Int) /\ most \in Nat
    BY <1>1, AttemptAssumption DEF RequestsOK
  <2>2. /\ DOMAIN m = {"step", "inputs", "most", "index", "left", "current", "attempts", "changes"}
        /\ m.step = "try" /\ m.most = most /\ m.index = 1 /\ m.left = WorkFrom(asked, 1)
        /\ m.current = asked /\ m.attempts = 0 /\ m.changes = <<>>
    BY <1>3
  <2> HIDE DEF asked, m
  <2>3. m.left \subseteq 1..4 /\ (m.left # {} => m.index <= Len(asked) /\ m.left \subseteq Candidates(asked[m.index]))
    BY <2>1, <2>2 DEF WorkFrom, Candidates
  <2>4. m.changes \in Seq(Change) /\ Len(m.changes) = 0
    BY <2>2
  <2>5. Account(m, asked)
    BY <2>2, <2>4 DEF Account
  <2>6. Searching(m, asked)
    BY <2>1, <2>2, <2>3, <2>4, <2>5 DEF Searching
  <2>7. QED
    BY <2>6 DEF m, asked
<1>4. QED
  BY <1>1, <1>2, <1>3

\* A step of a search uses one up and keeps the account; the witness changes
\* only at its end.
LEMMA MinimizationSteps ==
  ASSUME RequestsOK, SearchOK, MinimizationStep
  PROVE  /\ minimizing # NotMinimizing
         /\ UNCHANGED <<disk, recording, replaying>>
         /\ witness' # NoWitness => witness'.asked \in Seq(Int)
         /\ SearchOK'
         /\ SearchLeft \in Nat /\ SearchLeft' \in Nat /\ SearchLeft' < SearchLeft
<1> DEFINE m == minimizing
<1>1. m # NotMinimizing /\ m.step = "try"
  BY DEF MinimizationStep, TryCandidate, NoReduction, Reduce, SearchOver, NotMinimizing
<1>2. witness # NoWitness /\ Searching(m, witness.asked) /\ witness.asked \in Seq(Int)
  BY <1>1 DEF SearchOK, RequestsOK
<1>3. m.attempts \in Nat /\ m.most \in Nat /\ m.attempts <= m.most /\ m.current \in Seq(Int)
  BY <1>2 DEF Searching
<1>4. SearchLeft = 1 + m.most - m.attempts
  BY <1>1 DEF SearchLeft
<1>5. minimizing' = NotMinimizing => SearchOK' /\ SearchLeft' = 0
  BY DEF SearchOK, SearchLeft
<1>6. CASE TryCandidate
  <2>1. PICK keep \in BOOLEAN, down \in BOOLEAN : minimizing' = Tried(m, keep, down)
    BY <1>6, Zenon DEF TryCandidate, Reproduces
  <2>2. m.left # {} /\ m.attempts < m.most /\ UNCHANGED <<disk, witness, recording, replaying>>
    BY <1>6 DEF TryCandidate
  <2>3. /\ Searching(minimizing', witness.asked)
        /\ minimizing'.attempts = m.attempts + 1 /\ minimizing'.most = m.most
    BY <1>2, <2>1, <2>2, TriedKeeps
  <2>4. "attempts" \in DOMAIN minimizing' /\ minimizing' # NotMinimizing
    BY <2>3 DEF Searching, NotMinimizing
  <2>5. SearchLeft' = 1 + m.most - (m.attempts + 1)
    BY <2>3, <2>4 DEF SearchLeft
  <2>6. SearchOK'
    BY <1>2, <2>2, <2>3 DEF SearchOK
  <2>7. SearchLeft \in Nat /\ SearchLeft' \in Nat /\ SearchLeft' < SearchLeft
    BY <1>3, <1>4, <2>2, <2>5
  <2>8. witness'.asked \in Seq(Int)
    BY <1>2, <2>2
  <2>9. QED
    BY <1>1, <2>2, <2>6, <2>7, <2>8
<1>7. CASE NoReduction
  <2>1. minimizing' = NotMinimizing /\ UNCHANGED <<disk, witness, recording, replaying>>
    BY <1>7 DEF NoReduction, worldVars
  <2>2. QED
    BY <1>1, <1>2, <1>3, <1>4, <1>5, <2>1
<1>8. CASE Reduce
  <2>1. minimizing' = NotMinimizing /\ UNCHANGED <<disk, recording, replaying>>
    BY <1>8, Zenon DEF Reduce
  <2>2. witness'.asked = m.current
    <3>1. PICK late, later, down : witness' = NewWitness(ReducedRun(late, later, down))
      BY <1>8, Zenon DEF Reduce
    <3>2. ReducedRun(late, later, down).loaded = m.current
      BY DEF ReducedRun, CandidateFiles
    <3>3. QED
      BY <3>1, <3>2 DEF NewWitness
  <2>3. QED
    BY <1>1, <1>3, <1>4, <1>5, <2>1, <2>2
<1>9. QED
  BY <1>6, <1>7, <1>8 DEF MinimizationStep

-----------------------------------------------------------------------------
(* The invariant holds.                                                    *)

LEMMA CommandInit == Init => CommandInv
<1> SUFFICES ASSUME Init PROVE CommandInv
  OBVIOUS
<1>1. /\ recording = NotRecording /\ replaying = NotReplaying /\ minimizing = NotMinimizing
      /\ stopping = NotStopping /\ diagnosis = NotDiagnosing
      /\ witness = NoWitness /\ report = NoReport
      /\ disk \in [program : Programs, request : Requests]
  BY DEF Init, RecordingInit, ReplayInit, MinimizationInit, StopInit, DiagnosisInit
<1>2. PhasesOK
  BY <1>1 DEF PhasesOK, NotRecording, NotReplaying, NotStopping
<1>3. OneCommand
  BY <1>1 DEF OneCommand, Idle
<1>4. RequestsOK /\ SearchOK
  BY <1>1 DEF RequestsOK, SearchOK, NotRecording
<1>5. DiagnosisInv
  BY <1>1 DEF DiagnosisInv, NoReport
<1>6. QED
  BY <1>2, <1>3, <1>4, <1>5 DEF CommandInv

\* A command that starts finds the others idle.
LEMMA CommandStarts ==
  ASSUME CommandInv, atWork, UNCHANGED atWork, Command
  PROVE  PhasesOK' /\ OneCommand' /\ RequestsOK' /\ SearchOK'
<1>1. /\ recording = NotRecording /\ replaying = NotReplaying /\ minimizing = NotMinimizing
      /\ stopping = NotStopping /\ diagnosis = NotDiagnosing
  BY DEF Command, Idle
<1>2. PhasesOK /\ RequestsOK /\ stopping.step = "idle"
  BY <1>1 DEF CommandInv, NotStopping
<1> DEFINE Rest == /\ PhasesOK' /\ OneCommand' /\ RequestsOK' /\ SearchOK'
<1>3. CASE Record /\ UNCHANGED <<replaying, minimizing, stopping, diagnosis>>
  <2>1. PICK test, policy : StartRecording(test, policy)
    BY <1>3 DEF Record
  <2>2. "step" \in DOMAIN recording' /\ recording'.step = "observe" /\ UNCHANGED <<disk, witness>>
    BY <1>3, <2>1, RecordingStarts DEF Record, worldVars
  <2>3. QED
    BY <1>1, <1>2, <1>3, <2>2 DEF PhasesOK, OneCommand, RequestsOK, SearchOK
<1>4. CASE StartBreak /\ UNCHANGED diagnosis
  <2>1. /\ stopping'.step = "fetch"
        /\ UNCHANGED <<disk, witness, recording, replaying, minimizing, diagnosis>>
    BY <1>4 DEF StartBreak, worldVars
  <2>2. QED
    BY <1>1, <1>2, <2>1 DEF PhasesOK, OneCommand, RequestsOK, SearchOK
<1>5. CASE StartReplay /\ UNCHANGED <<minimizing, stopping, diagnosis>>
  <2>1. /\ replaying' = NotReplaying \/ replaying' = [step |-> "open"]
        /\ UNCHANGED <<disk, witness, recording, minimizing, stopping, diagnosis>>
    BY <1>5 DEF StartReplay, BlockReplay, worldVars
  <2>2. QED
    BY <1>1, <1>2, <2>1 DEF PhasesOK, OneCommand, RequestsOK, SearchOK, NotReplaying
<1>6. CASE StartMinimization /\ UNCHANGED <<stopping, diagnosis>>
  <2>1. /\ UNCHANGED <<disk, witness, recording, replaying, stopping, diagnosis>>
        /\ minimizing' # NotMinimizing => witness # NoWitness /\ Searching(minimizing', witness.asked)
    BY <1>2, <1>6, SearchBegins
  <2>2. QED
    BY <1>1, <1>2, <2>1 DEF PhasesOK, OneCommand, RequestsOK, SearchOK
<1>7. CASE UNCHANGED <<disk, witness, recording, replaying, minimizing, stopping>>
  BY <1>1, <1>2, <1>7 DEF PhasesOK, OneCommand, RequestsOK, SearchOK
<1>8. CASE AskTrace \/ AskWhy \/ AskWatch \/ AskInspect \/ AskStops
  <2>1. UNCHANGED <<disk, witness, recording, replaying, minimizing, stopping>>
    BY <1>8 DEF AskTrace, AskWhy, AskWatch, AskInspect, AskStops, Answer, commandVars, worldVars
  <2>2. QED
    BY <1>7, <2>1
<1>9. QED
  BY <1>3, <1>4, <1>5, <1>6, <1>7, <1>8 DEF Command

\* A step of the escalation is one of an escalation under way.
LEMMA DiagnosisRuns == DiagnosisStep => diagnosis # NotDiagnosing
<1>1. DecideNext => diagnosis # NotDiagnosing
  <2> SUFFICES ASSUME DecideNext PROVE diagnosis # NotDiagnosing
    OBVIOUS
  <2>1. diagnosis.step = "decide"
    BY DEF DecideNext
  <2>2. QED
    BY <2>1 DEF NotDiagnosing
<1>2. Project => diagnosis # NotDiagnosing
  <2> SUFFICES ASSUME Project PROVE diagnosis # NotDiagnosing
    OBVIOUS
  <2>1. diagnosis.step = "project"
    BY DEF Project
  <2>2. QED
    BY <2>1 DEF NotDiagnosing
<1>3. QED
  BY <1>1, <1>2 DEF DiagnosisStep

\* The command that runs goes on, and the others stay idle.
LEMMA CommandGoesOn ==
  ASSUME CommandInv, atWork, UNCHANGED atWork, CommandStep
  PROVE  PhasesOK' /\ OneCommand' /\ RequestsOK' /\ SearchOK'
<1> USE DEF CommandInv
<1>1. CASE RecordingStep /\ UNCHANGED <<replaying, minimizing, stopping, diagnosis>>
  <2>1. /\ recording # NotRecording
        /\ "step" \in DOMAIN recording'
        /\ recording'.step \in {"idle", "observe", "execute", "index", "classify", "seal"}
        /\ recording'.step = "idle" => recording' = NotRecording
        /\ RequestsOK'
    BY <1>1, RecordingSteps
  <2>2. /\ replaying = NotReplaying /\ minimizing = NotMinimizing /\ diagnosis = NotDiagnosing
        /\ stopping.step # "fetch"
    BY <2>1 DEF OneCommand
  <2>3. QED
    BY <1>1, <2>1, <2>2 DEF PhasesOK, OneCommand, SearchOK
<1>2. CASE ReplayStep /\ UNCHANGED <<minimizing, stopping, diagnosis>>
  <2>1. /\ replaying # NotReplaying
        /\ "step" \in DOMAIN replaying'
        /\ replaying'.step \in {"idle", "open", "validate", "execute"}
        /\ replaying'.step = "idle" => replaying' = NotReplaying
        /\ UNCHANGED <<disk, witness, recording>>
    BY <1>2, ReplaySteps
  <2>2. /\ recording = NotRecording /\ minimizing = NotMinimizing /\ stopping = NotStopping
        /\ diagnosis = NotDiagnosing
    BY <2>1 DEF OneCommand
  <2>3. stopping.step = "idle"
    BY <2>2 DEF NotStopping
  <2>4. QED
    BY <1>2, <2>1, <2>2, <2>3 DEF PhasesOK, OneCommand, RequestsOK, SearchOK
<1>3. CASE MinimizationStep /\ UNCHANGED <<stopping, diagnosis>>
  <2>1. /\ minimizing # NotMinimizing
        /\ UNCHANGED <<disk, recording, replaying>>
        /\ witness' # NoWitness => witness'.asked \in Seq(Int)
        /\ SearchOK'
    BY <1>3, MinimizationSteps
  <2>2. /\ recording = NotRecording /\ replaying = NotReplaying /\ stopping = NotStopping
        /\ diagnosis = NotDiagnosing
    BY <2>1 DEF OneCommand
  <2>3. stopping.step = "idle"
    BY <2>2 DEF NotStopping
  <2>4. QED
    BY <1>3, <2>1, <2>2, <2>3 DEF PhasesOK, OneCommand, RequestsOK
<1>4. CASE StopStep /\ UNCHANGED diagnosis
  <2>1. /\ stopping # NotStopping
        /\ recording = NotRecording
        /\ UNCHANGED <<disk, witness, replaying, minimizing>>
        /\ \/ stopping' = NotStopping /\ recording' = recording
           \/ /\ stopping.step = "fetch" /\ stopping'.step = "record"
              /\ "step" \in DOMAIN recording' /\ recording'.step = "observe"
    BY <1>4, StopSteps
  <2>2. replaying = NotReplaying /\ minimizing = NotMinimizing /\ diagnosis = NotDiagnosing
    BY <2>1 DEF OneCommand
  <2>3. CASE stopping' = NotStopping /\ recording' = recording
    <3>1. stopping'.step = "idle"
      BY <2>3 DEF NotStopping
    <3>2. QED
      BY <1>4, <2>1, <2>2, <2>3, <3>1 DEF PhasesOK, OneCommand, RequestsOK, SearchOK
  <2>4. CASE stopping'.step = "record" /\ "step" \in DOMAIN recording' /\ recording'.step = "observe"
    BY <1>4, <2>1, <2>2, <2>4 DEF PhasesOK, OneCommand, RequestsOK, SearchOK
  <2>5. QED
    BY <2>1, <2>3, <2>4
<1>5. CASE DiagnosisStep /\ UNCHANGED <<runtime, disk, witness, recording, replaying, minimizing, stopping>>
  <2>1. diagnosis # NotDiagnosing
    BY <1>5, DiagnosisRuns
  <2>2. /\ recording = NotRecording /\ replaying = NotReplaying /\ minimizing = NotMinimizing
        /\ stopping = NotStopping
    BY <2>1 DEF OneCommand
  <2>3. stopping.step = "idle"
    BY <2>2 DEF NotStopping
  <2>4. QED
    BY <1>5, <2>2, <2>3 DEF PhasesOK, OneCommand, RequestsOK, SearchOK
<1>6. QED
  BY <1>1, <1>2, <1>3, <1>4, <1>5 DEF CommandStep

\* Nothing but the files and the answer changes.
LEMMA NothingRuns ==
  ASSUME CommandInv, disk' \in [program : Programs, request : Requests],
         UNCHANGED <<witness, recording, replaying, minimizing, stopping, diagnosis, atWork>>
  PROVE  PhasesOK' /\ OneCommand' /\ RequestsOK' /\ SearchOK'
  BY DEF CommandInv, PhasesOK, OneCommand, Idle, RequestsOK, SearchOK

\* An edit leaves files that differ from those before it.
LEMMA EditChanges ==
  ASSUME RequestsOK, Edit
  PROVE  disk' \in [program : Programs, request : Requests] /\ disk' # disk
<1>1. disk \in [program : Programs, request : Requests]
  BY DEF RequestsOK
<1>2. CASE \E p \in Programs : p # disk.program /\ disk' = [disk EXCEPT !.program = p]
  BY <1>1, <1>2
<1>3. CASE \E r \in Requests : r # disk.request /\ disk' = [disk EXCEPT !.request = r]
  BY <1>1, <1>3
<1>4. QED
  BY <1>2, <1>3 DEF Edit

LEMMA CommandStepInv == CommandInv /\ [Next]_workbenchVars => CommandInv'
<1> SUFFICES ASSUME CommandInv, [Next]_workbenchVars PROVE CommandInv'
  OBVIOUS
<1>1. DiagnosisInv'
  BY DiagnosisStepInv DEF CommandInv
<1>2. PhasesOK' /\ OneCommand' /\ RequestsOK' /\ SearchOK'
  <2>0. disk \in [program : Programs, request : Requests]
    BY DEF CommandInv, RequestsOK
  <2>1. CASE Developer
    <3>1. atWork /\ UNCHANGED atWork
      BY <2>1 DEF Developer
    <3>2. CASE Command
      BY <3>1, <3>2, CommandStarts
    <3>3. CASE CommandStep
      BY <3>1, <3>3, CommandGoesOn
    <3>4. CASE ReadReport
      BY <2>0, <3>1, <3>4, NothingRuns DEF ReadReport, worldVars, commandVars
    <3>5. CASE Edit /\ UNCHANGED <<replaying, minimizing, stopping, diagnosis>>
      <4>1. disk' \in [program : Programs, request : Requests]
        BY <3>5, EditChanges DEF CommandInv
      <4>2. UNCHANGED <<witness, recording>>
        BY <3>5 DEF Edit
      <4>3. QED
        BY <3>1, <3>5, <4>1, <4>2, NothingRuns
    <3>6. QED
      BY <2>1, <3>2, <3>3, <3>4, <3>5 DEF Developer
  <2>2. CASE Archive
    BY <2>0, <2>2, NothingRuns
       DEF Archive, stopVars, minimizationVars, replayVars, recordingVars, worldVars
  <2>3. CASE UNCHANGED workbenchVars
    BY <2>0, <2>3, NothingRuns
       DEF workbenchVars, stopVars, minimizationVars, replayVars, recordingVars, worldVars
  <2>4. QED
    BY <2>1, <2>2, <2>3 DEF Next
<1>3. QED
  BY <1>1, <1>2 DEF CommandInv

\* One command runs at a time, a search keeps to its account and an escalation
\* to its documents: what the steps of the commands preserve together.
THEOREM CommandsKeepInvariant == Spec => []CommandInv
  BY CommandInit, CommandStepInv, PTL DEF Spec

-----------------------------------------------------------------------------
(* The properties.                                                         *)

\* The search of minimize keeps its bounds and its account, for requests of any
\* length and any integers (minimize_witness).
THEOREM SearchesKeepTheirAccount == Spec => []SearchKeepsAccount
<1>1. CommandInv => SearchKeepsAccount
  <2> SUFFICES ASSUME CommandInv, minimizing # NotMinimizing PROVE SearchKeepsAccount
    BY DEF SearchKeepsAccount
  <2> DEFINE m == minimizing
             asked == witness.asked
             changed == {m.changes[n].argument : n \in DOMAIN m.changes}
  <2>1. Searching(m, asked) /\ asked \in Seq(Int)
    BY DEF CommandInv, SearchOK, RequestsOK
  <2>2. /\ m.attempts <= m.most
        /\ DOMAIN m.changes = 1..Len(m.changes)
        /\ DOMAIN asked = 1..Len(asked)
        /\ Account(m, asked)
    BY <2>1 DEF Searching
  <2>5. \A n \in DOMAIN m.changes :
          /\ m.changes[n].argument < m.index
          /\ m.changes[n].from = asked[m.changes[n].argument]
          /\ m.changes[n].to = m.current[m.changes[n].argument]
    BY <2>2 DEF Account
  <2>0. \A n \in DOMAIN m.changes : m.changes[n].from # m.changes[n].to
    BY <2>2 DEF Account
  <2>3. \A a \in DOMAIN asked : (m.current[a] # asked[a]) <=> a \in changed
    <3> TAKE a \in DOMAIN asked
    <3>1. m.current[a] # asked[a] => a \in changed
      BY <2>2 DEF Account
    <3>2. ASSUME a \in changed PROVE m.current[a] # asked[a]
      <4>1. PICK n \in DOMAIN m.changes : a = m.changes[n].argument
        BY <3>2
      <4>2. QED
        BY <2>0, <2>5, <4>1
    <3>3. QED
      BY <3>1, <3>2
  <2>4. \A i, j \in DOMAIN m.changes : i < j => m.changes[i].argument < m.changes[j].argument
    BY <2>2 DEF Account
  <2>6. QED
    BY <2>2, <2>3, <2>4, <2>5 DEF SearchKeepsAccount
<1>2. QED
  BY <1>1, CommandsKeepInvariant, PTL

\* What is left of a diagnosis.
LEMMA DiagnosisSteps ==
  ASSUME DiagnosisInv, DiagnosisInv', DiagnosisStep
  PROVE  /\ DiagnosisLeft \in Nat /\ DiagnosisLeft' \in Nat
         /\ DiagnosisLeft' < DiagnosisLeft
<1>1. diagnosis # NotDiagnosing /\ Underway(diagnosis)
  BY DiagnosisRuns DEF DiagnosisInv
<1>2. diagnosis.most \in Nat /\ diagnosis.index \in Nat /\ diagnosis.index <= diagnosis.most
  BY <1>1 DEF Underway
<1>3. CASE diagnosis' = NotDiagnosing
  <2>1. DiagnosisLeft' = 0
    BY <1>3 DEF DiagnosisLeft
  <2>2. CASE diagnosis.step = "decide"
    BY <1>1, <1>2, <2>1, <2>2 DEF DiagnosisLeft
  <2>3. CASE diagnosis.step = "project"
    <3>1. diagnosis.index < diagnosis.most
      BY <1>1, <2>3 DEF Underway
    <3>2. QED
      BY <1>1, <1>2, <2>1, <2>3, <3>1 DEF DiagnosisLeft
  <2>4. QED
    BY <1>1, <2>2, <2>3 DEF Underway
<1>4. CASE diagnosis' # NotDiagnosing
  <2>1. Underway(diagnosis')
    BY <1>4 DEF DiagnosisInv
  <2>2. diagnosis'.most \in Nat /\ diagnosis'.index \in Nat /\ diagnosis'.index <= diagnosis'.most
    BY <2>1 DEF Underway
  <2>3. CASE DecideNext
    <3>1. PICK operation, facts :
            diagnosis' = [diagnosis EXCEPT !.step = "project", !.operation = operation, !.facts = facts]
      BY <1>4, <2>3 DEF DecideNext, Conclude
    <3>2. diagnosis.step = "decide" /\ diagnosis'.step = "project"
          /\ diagnosis'.most = diagnosis.most /\ diagnosis'.index = diagnosis.index
      BY <1>1, <2>3, <3>1 DEF Underway, DecideNext
    <3>3. QED
      BY <1>1, <1>2, <1>4, <3>2 DEF DiagnosisLeft
  <2>4. CASE Project
    <3> DEFINE d(document) == [diagnosis EXCEPT !.documents = Append(@, document),
                                                !.attempted = @ \cup {diagnosis.operation}]
    <3>1. PICK document : diagnosis' = [d(document) EXCEPT !.step = "decide", !.index = @ + 1]
      BY <1>4, <2>4 DEF Project, Conclude
    <3>2. /\ DOMAIN d(document) = DOMAIN diagnosis
          /\ d(document).index = diagnosis.index /\ d(document).most = diagnosis.most
      BY <1>1 DEF Underway
    <3>3. "step" \in DOMAIN diagnosis /\ "index" \in DOMAIN diagnosis /\ "most" \in DOMAIN diagnosis
      BY <1>1 DEF Underway
    <3> HIDE DEF d
    <3>4. diagnosis'.step = "decide" /\ diagnosis'.most = diagnosis.most
          /\ diagnosis'.index = diagnosis.index + 1
      BY <3>1, <3>2, <3>3
    <3>5. diagnosis.step = "project"
      BY <2>4 DEF Project
    <3>6. QED
      BY <1>1, <1>2, <1>4, <2>2, <3>4, <3>5 DEF DiagnosisLeft
  <2>5. QED
    BY <2>3, <2>4 DEF DiagnosisStep
<1>5. QED
  BY <1>3, <1>4

\* Nothing is left of what does not run.
LEMMA NothingLeft ==
  /\ recording = NotRecording => RecordingLeft = 0
  /\ replaying = NotReplaying => ReplayLeft = 0
  /\ minimizing = NotMinimizing => SearchLeft = 0
  /\ stopping = NotStopping => StopLeft = 0
  /\ diagnosis = NotDiagnosing => DiagnosisLeft = 0
  BY DEF RecordingLeft, NotRecording, ReplayLeft, NotReplaying, SearchLeft, StopLeft, NotStopping,
         DiagnosisLeft

\* The sum, when one of its parts is all of it, or two.
LEMMA SumOfParts ==
  /\ \A p \in Nat : 0 + p + 0 + 0 + 0 = p
  /\ \A s \in Nat : 0 + 0 + s + 0 + 0 = s
  /\ \A r, t \in Nat : r + 0 + 0 + t + 0 = r + t
  /\ \A r, r1, t \in Nat : r1 < r => 0 <= r1 + t /\ r1 + t < r + t
  /\ \A n \in Nat : 0 <= n
  OBVIOUS

\* A step of the command that runs uses one up.
LEMMA StepsUsedUp ==
  ASSUME CommandInv, CommandInv', CommandStep
  PROVE  0 <= StepsLeft' /\ StepsLeft' < StepsLeft
<1>a. /\ StepsLeft = RecordingLeft + ReplayLeft + SearchLeft + StopLeft + DiagnosisLeft
      /\ StepsLeft' = RecordingLeft' + ReplayLeft' + SearchLeft' + StopLeft' + DiagnosisLeft'
  BY DEF StepsLeft
<1>0. /\ PhasesOK /\ OneCommand /\ RequestsOK /\ SearchOK /\ DiagnosisInv
      /\ OneCommand' /\ DiagnosisInv' /\ PhasesOK'
  BY DEF CommandInv
<1>1. CASE RecordingStep /\ UNCHANGED <<replaying, minimizing, stopping, diagnosis>>
  <2>1. /\ recording # NotRecording /\ RecordingLeft' \in Nat /\ RecordingLeft \in Nat
        /\ RecordingLeft' < RecordingLeft
    BY <1>0, <1>1, RecordingSteps
  <2>2. replaying = NotReplaying /\ minimizing = NotMinimizing /\ diagnosis = NotDiagnosing
    BY <1>0, <2>1 DEF OneCommand
  <2>3. /\ ReplayLeft = 0 /\ SearchLeft = 0 /\ DiagnosisLeft = 0
        /\ ReplayLeft' = 0 /\ SearchLeft' = 0 /\ DiagnosisLeft' = 0
    BY <1>1, <2>2 DEF ReplayLeft, NotReplaying, SearchLeft, DiagnosisLeft
  <2>4. StopLeft' = StopLeft /\ StopLeft \in Nat
    BY <1>0, <1>1 DEF StopLeft, PhasesOK
  <2>5. StepsLeft = RecordingLeft + StopLeft /\ StepsLeft' = RecordingLeft' + StopLeft'
    BY <1>a, <2>1, <2>3, <2>4, SumOfParts
  <2>6. QED
    <3>1. 0 <= RecordingLeft' + StopLeft /\ RecordingLeft' + StopLeft < RecordingLeft + StopLeft
      BY <2>1, <2>4, SumOfParts
    <3>2. QED
      BY <2>4, <2>5, <3>1
<1>2. CASE ReplayStep /\ UNCHANGED <<minimizing, stopping, diagnosis>>
  <2>1. /\ replaying # NotReplaying /\ UNCHANGED recording
        /\ ReplayLeft' \in Nat /\ ReplayLeft \in Nat /\ ReplayLeft' < ReplayLeft
    BY <1>0, <1>2, ReplaySteps
  <2>2. /\ recording = NotRecording /\ minimizing = NotMinimizing /\ stopping = NotStopping
        /\ diagnosis = NotDiagnosing
    BY <1>0, <2>1 DEF OneCommand
  <2>3. /\ RecordingLeft = 0 /\ SearchLeft = 0 /\ StopLeft = 0 /\ DiagnosisLeft = 0
        /\ RecordingLeft' = 0 /\ SearchLeft' = 0 /\ StopLeft' = 0 /\ DiagnosisLeft' = 0
    BY <1>2, <2>1, <2>2 DEF RecordingLeft, NotRecording, SearchLeft, StopLeft, NotStopping, DiagnosisLeft
  <2>4. StepsLeft = ReplayLeft /\ StepsLeft' = ReplayLeft'
    BY <1>a, <2>1, <2>3, SumOfParts
  <2>5. QED
    BY <2>1, <2>4
<1>3. CASE MinimizationStep /\ UNCHANGED <<stopping, diagnosis>>
  <2>1. /\ minimizing # NotMinimizing /\ UNCHANGED <<recording, replaying>>
        /\ SearchLeft \in Nat /\ SearchLeft' \in Nat /\ SearchLeft' < SearchLeft
    BY <1>0, <1>3, MinimizationSteps
  <2>2. /\ recording = NotRecording /\ replaying = NotReplaying /\ stopping = NotStopping
        /\ diagnosis = NotDiagnosing
    BY <1>0, <2>1 DEF OneCommand
  <2>3. /\ RecordingLeft = 0 /\ ReplayLeft = 0 /\ StopLeft = 0 /\ DiagnosisLeft = 0
        /\ RecordingLeft' = 0 /\ ReplayLeft' = 0 /\ StopLeft' = 0 /\ DiagnosisLeft' = 0
    BY <1>3, <2>1, <2>2 DEF RecordingLeft, NotRecording, ReplayLeft, NotReplaying, StopLeft, NotStopping,
                            DiagnosisLeft
  <2>4. StepsLeft = SearchLeft /\ StepsLeft' = SearchLeft'
    BY <1>a, <2>1, <2>3, SumOfParts
  <2>5. QED
    BY <2>1, <2>4
<1>4. CASE StopStep /\ UNCHANGED diagnosis
  <2>1. /\ stopping # NotStopping /\ UNCHANGED <<replaying, minimizing>>
        /\ RecordingLeft + StopLeft \in Nat
        /\ RecordingLeft' + StopLeft' \in Nat
        /\ RecordingLeft' + StopLeft' < RecordingLeft + StopLeft
    BY <1>0, <1>4, StopSteps
  <2>2. replaying = NotReplaying /\ minimizing = NotMinimizing /\ diagnosis = NotDiagnosing
    BY <1>0, <2>1 DEF OneCommand
  <2>3. /\ ReplayLeft = 0 /\ SearchLeft = 0 /\ DiagnosisLeft = 0
        /\ ReplayLeft' = 0 /\ SearchLeft' = 0 /\ DiagnosisLeft' = 0
    BY <1>4, <2>1, <2>2 DEF ReplayLeft, NotReplaying, SearchLeft, DiagnosisLeft
  <2>4. /\ RecordingLeft \in Nat /\ StopLeft \in Nat
        /\ RecordingLeft' \in Nat /\ StopLeft' \in Nat
    BY <1>0 DEF PhasesOK, RecordingLeft, StopLeft
  <2>5. StepsLeft = RecordingLeft + StopLeft /\ StepsLeft' = RecordingLeft' + StopLeft'
    BY <1>a, <2>1, <2>3, <2>4, SumOfParts
  <2>6. QED
    <3>1. 0 <= RecordingLeft' + StopLeft'
      BY <2>1, SumOfParts
    <3>2. QED
      BY <2>1, <2>5, <3>1, Zenon
<1>5. CASE DiagnosisStep /\ UNCHANGED <<runtime, disk, witness, recording, replaying, minimizing, stopping>>
  <2>1. diagnosis # NotDiagnosing
    BY <1>5, DiagnosisRuns
  <2>2. /\ recording = NotRecording /\ replaying = NotReplaying /\ minimizing = NotMinimizing
        /\ stopping = NotStopping
    BY <1>0, <2>1 DEF OneCommand
  <2>3. /\ RecordingLeft = 0 /\ ReplayLeft = 0 /\ SearchLeft = 0 /\ StopLeft = 0
        /\ RecordingLeft' = 0 /\ ReplayLeft' = 0 /\ SearchLeft' = 0 /\ StopLeft' = 0
    BY <1>5, <2>2 DEF RecordingLeft, NotRecording, ReplayLeft, NotReplaying, SearchLeft, StopLeft,
                      NotStopping
  <2>4. QED
    BY <1>0, <1>5, <1>a, <2>3, DiagnosisSteps
<1>6. QED
  BY <1>1, <1>2, <1>3, <1>4, <1>5 DEF CommandStep

\* Every command returns: each of its steps uses one up of the finitely many it
\* has, whatever the runtime does, the core answers and the witness holds.
THEOREM EveryCommandReturns == Spec => CommandsReturn
<1>1. CommandInv /\ CommandInv' /\ [Next]_workbenchVars
        => [(~Idle /\ disk' = disk) => 0 <= StepsLeft' /\ StepsLeft' < StepsLeft]_workbenchVars
  <2> SUFFICES ASSUME CommandInv, CommandInv', Next, ~Idle, disk' = disk
               PROVE  0 <= StepsLeft' /\ StepsLeft' < StepsLeft
    OBVIOUS
  <2>1. ~Archive
    BY DEF Archive, CommandInv, OneCommand
  <2>2. ~Command /\ ~ReadReport
    BY DEF Command, ReadReport
  <2>3. ~Edit
    BY EditChanges DEF CommandInv
  <2>4. CommandStep
    BY <2>1, <2>2, <2>3 DEF Next, Developer
  <2>5. QED
    BY <2>4, StepsUsedUp
<1>2. QED
  BY <1>1, CommandsKeepInvariant, PTL DEF Spec, CommandsReturn
=============================================================================
