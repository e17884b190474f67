--------------------------- MODULE EvidenceReducer ---------------------------
(***************************************************************************)
(* What evidence about a failed run establishes, and what to look at next: *)
(* the host decodes documents into typed observations (analysis.py), packs *)
(* them into arrays of a fixed length (native_core.py), and the native     *)
(* core reduces them to facts and a decision (debug.mncs).                 *)
(*                                                                         *)
(* A document of evidence is one of                                        *)
(*   [schema |-> "trace", anchor, operation, completeness]                 *)
(*   [schema |-> "provenance", claims]   claims: sequence of [kind, status] *)
(*   [schema |-> "replay", status]                                         *)
(*   [schema |-> "minimization", status]                                   *)
(*   [schema |-> "test", failed]                                           *)
(***************************************************************************)
EXTENDS Naturals, Sequences, FiniteSets

CONSTANTS
  TraceCap, ProvenanceCap, ReplayCap, MinimizationCap,   \* lengths of the arrays
  MaxSteps                                               \* longest escalation

ASSUME CapAssumption ==
  /\ TraceCap \in Nat /\ ProvenanceCap \in Nat
  /\ ReplayCap \in Nat /\ MinimizationCap \in Nat
ASSUME StepAssumption == MaxSteps \in Nat

FactNames == {"failure_anchor_present", "operation_identity_present", "observation_complete",
              "provenance_binding_present", "replay_established", "replay_mismatch",
              "minimization_established"}
NoFacts == [f \in FactNames |-> FALSE]

\* Where documents hold observations: _evidence_facts_from_artifacts takes one
\* from each trace, test result, replay and minimization, and one from each
\* claim of a provenance document.
Places(documents, schemas) == {n \in DOMAIN documents : documents[n].schema \in schemas}
TracePlaces(documents) == Places(documents, {"trace", "test"})
ClaimPlaces(documents) ==
  UNION {{n} \X DOMAIN documents[n].claims : n \in Places(documents, {"provenance"})}

\* A trace says what it says, a test result counts as a partial trace that may
\* name a failure but no operation.
TraceObservation(d) ==
  IF d.schema = "trace"
  THEN [anchor |-> d.anchor, operation |-> d.operation, completeness |-> d.completeness]
  ELSE [anchor |-> d.failed, operation |-> FALSE, completeness |-> "partial"]

\* fixed and no_overflow: an array that does not hold all the observations is
\* not used at all.
Overflows(places, cap) == Cardinality(places) > cap
Packed(places, cap) == IF Overflows(places, cap) THEN {} ELSE places

\* recognized_provenance and established_claim, operation_claim_observed.
Binds(claim) ==
  /\ claim.kind \in {"operation_identity", "value_origin_chain", "effect_provenance"}
  /\ claim.status \in {"available", "observed"}
NamesOperation(claim) == claim.kind = "operation_identity" /\ claim.status = "observed"

\* evidence_facts of documents: the disjunction over what each array holds.
Facts(documents) ==
  LET t == {TraceObservation(documents[n]) : n \in Packed(TracePlaces(documents), TraceCap)}
      c == {documents[p[1]].claims[p[2]] : p \in Packed(ClaimPlaces(documents), ProvenanceCap)}
      r == {documents[n].status : n \in Packed(Places(documents, {"replay"}), ReplayCap)}
      m == {documents[n].status :
              n \in Packed(Places(documents, {"minimization"}), MinimizationCap)}
  IN [failure_anchor_present     |-> \E o \in t : o.anchor,
      operation_identity_present |-> \/ \E o \in t : o.operation
                                     \/ \E o \in c : NamesOperation(o),
      observation_complete       |-> \E o \in t : o.completeness = "complete",
      provenance_binding_present |-> \E o \in c : Binds(o),
      replay_established         |-> r \cap {"replayed", "reproduced"} # {},
      replay_mismatch            |-> "mismatch" \in r,
      minimization_established   |-> m \cap {"reduced", "no_reduction"} # {}]

\* sufficiency: the first gap decides what to look at next.
Gap(facts, replayRequired, minimizationRequired) ==
  CASE ~facts.failure_anchor_present -> "failure_identity"
    [] facts.failure_anchor_present /\ ~facts.operation_identity_present -> "operation_identity"
    [] /\ facts.failure_anchor_present /\ facts.operation_identity_present
       /\ ~facts.observation_complete -> "observation_completeness"
    [] /\ facts.failure_anchor_present /\ facts.operation_identity_present
       /\ facts.observation_complete /\ ~facts.provenance_binding_present -> "provenance"
    [] OTHER -> IF replayRequired THEN "replay"
                ELSE IF minimizationRequired THEN "minimization" ELSE "none"

NextOperation(gap) ==
  IF gap \in {"failure_identity", "operation_identity", "observation_completeness"}
  THEN "trace" ELSE gap

\* Mutant of Decision: a requested replay is not waited for.
DecisionUnreplayed(facts, replayRequested, budget) ==
  LET gap == Gap(facts, FALSE, facts.replay_mismatch)
  IN [status    |-> IF gap = "none" THEN "sufficient" ELSE "ambiguous",
      operation |-> NextOperation(gap),
      gap       |-> gap,
      stop      |-> gap = "none" \/ budget = 0,
      facts     |-> facts]

\* diagnostic_loop of the core: a replay that was required is one until a
\* replay is established, a mismatch requires a minimization.
Decision(facts, replayRequested, budget) ==
  LET gap == Gap(facts, replayRequested /\ ~facts.replay_established, facts.replay_mismatch)
  IN [status    |-> IF gap = "none" THEN "sufficient" ELSE "ambiguous",
      operation |-> NextOperation(gap),
      gap       |-> gap,
      stop      |-> gap = "none" \/ budget = 0,
      facts     |-> facts]

\* diagnostic_sufficiency without the core: nothing is established.
UnsupportedDecision ==
  [status |-> "unsupported", operation |-> "none", gap |-> "native_sufficiency_unavailable",
   stop |-> FALSE, facts |-> NoFacts]
=============================================================================
