---------------------------- MODULE DebugOutcome ----------------------------
(***************************************************************************)
(* What one run of the mncs executable means: the native decision core     *)
(* classifies it when a witness is recorded (runner.py, native_core.py and *)
(* the decide function of debug.mncs), and a signature computed without    *)
(* the core stands for it when a re-execution or a minimization candidate  *)
(* is compared with the witness (analysis.py).                             *)
(*                                                                         *)
(* A result is what the executable does with a program and a request:      *)
(*   valid    the front end accepts the program                            *)
(*   ends     the process ends before its deadline                         *)
(*   status   the status of the execution document, "none" when standard   *)
(*            output is not a JSON document                                *)
(*   failure  the identity of the structured failure, or NoId              *)
(*   effect   the failure's reason names an effect                         *)
(*   returned the returned values; the digest of a value is the value      *)
(*   long     the document is longer than the 1024 bytes that              *)
(*            re-execution keeps of standard output                        *)
(* The language-owned parts of a result (its observation stream) are in    *)
(* TraceProjection.                                                        *)
(***************************************************************************)
EXTENDS Naturals, Sequences

NoId == "no identity"
NoDigest == "no digest"
NothingReturned == "[]"
NoTest == [id |-> NoId, verdict |-> "none", kind |-> "none"]

\* _runtime_status: the facts of the process in the vocabulary of the core.
RuntimeStatus(result) ==
  LET vocabulary == [returned |-> "Returned", runtime_failure |-> "RuntimeFailure",
                     unsupported |-> "Unsupported", budget_exhausted |-> "BudgetExhausted",
                     invalid_request |-> "InvalidRequest", none |-> "InfrastructureFailure"]
  IN CASE ~result.ends -> "BudgetExhausted"
       [] result.ends /\ ~result.valid -> "CompileFailure"
       [] OTHER -> vocabulary[result.status]

\* decide of the native core, with the labels native_core renders it in.
Decide(runtimeStatus, assertionFailed, effectFailed) ==
  CASE runtimeStatus = "Returned" /\ assertionFailed -> "assertion_failure"
    [] runtimeStatus = "Returned" /\ ~assertionFailed /\ effectFailed -> "effect_failure"
    [] runtimeStatus = "Returned" /\ ~assertionFailed /\ ~effectFailed -> "success"
    [] runtimeStatus = "RuntimeFailure" /\ effectFailed -> "effect_failure"
    [] runtimeStatus = "RuntimeFailure" /\ ~effectFailed -> "runtime_failure"
    [] runtimeStatus = "Unsupported" -> "unsupported"
    [] runtimeStatus = "BudgetExhausted" -> "timeout_or_budget_exhaustion"
    [] runtimeStatus = "InvalidRequest" -> "invalid_invocation"
    [] runtimeStatus = "CompileFailure" -> "compile_failure"
    [] runtimeStatus = "InfrastructureFailure" -> "infrastructure_failure"

\* classify_with_native_core: the test result that is imported with the run
\* says whether an assertion or an effect failed; the core may be unavailable.
Classify(result, test, coreUp) ==
  IF coreUp
  THEN Decide(RuntimeStatus(result), test.kind = "assertion",
              result.effect \/ test.kind = "effect")
  ELSE "unavailable"

\* _outcome: a timeout first, then the verdict of an imported test, then the
\* core's decision. A run that was killed or printed no document returns the
\* empty list, and its digest is the digest of the empty list.
Outcome(result, test, coreUp) ==
  LET decision == Classify(result, test, coreUp)
  IN [status        |-> CASE ~result.ends -> "budget_exhausted"
                          [] result.ends /\ ~result.valid -> "compile_failure"
                          [] result.ends /\ result.valid /\ result.status # "none" -> result.status
                          [] OTHER -> "infrastructure_failure",
      failure_class |-> CASE ~result.ends -> "timeout_or_budget_exhaustion"
                          [] result.ends /\ test.verdict = "FAIL" -> "test_failure"
                          [] result.ends /\ test.verdict # "FAIL" /\ decision # "unavailable" -> decision
                          [] OTHER -> "infrastructure_bootstrap_failure",
      failure       |-> IF ~result.valid THEN "compiler-diagnostic"
                        ELSE IF result.ends THEN result.failure ELSE NoId,
      returned_digest |-> IF ~result.valid THEN NoDigest
                          ELSE IF result.ends /\ result.status # "none" THEN result.returned
                          ELSE NothingReturned,
      test_id       |-> test.id]

\* _witness_signature: what a witness says of its run.
WitnessSignature(outcome) ==
  [failure_class |-> outcome.failure_class, status |-> outcome.status,
   failure |-> outcome.failure, test_id |-> outcome.test_id,
   returned_digest |-> outcome.returned_digest]

\* _validation_signature.
ValidationSignature ==
  [failure_class |-> "compile_failure", status |-> "compile_failure",
   failure |-> "compiler-diagnostic", test_id |-> NoId, returned_digest |-> NoDigest]

\* _execution_signature over the bytes kept by the native process effect: a
\* document that was cut at 1024 bytes is no document.
ExecutionSignature(result) ==
  LET class == [returned |-> "success", runtime_failure |-> "runtime_failure",
                unsupported |-> "unsupported_debug_capability",
                budget_exhausted |-> "timeout_or_budget_exhaustion",
                invalid_request |-> "invalid_invocation"]
      nothing(failureClass, status) ==
        [failure_class |-> failureClass, status |-> status, failure |-> NoId,
         test_id |-> NoId, returned_digest |-> NoDigest]
  IN CASE ~result.ends -> nothing("timeout_or_budget_exhaustion", "budget_exhausted")
       [] result.ends /\ (result.status = "none" \/ result.long) ->
            nothing("infrastructure_bootstrap_failure", "infrastructure_failure")
       [] OTHER -> [failure_class |-> class[result.status], status |-> result.status,
                    failure |-> result.failure, test_id |-> NoId,
                    returned_digest |-> result.returned]
=============================================================================
