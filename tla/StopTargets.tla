----------------------------- MODULE StopTargets -----------------------------
(***************************************************************************)
(* The break command when it records (record_stop_set in targets.py): the  *)
(* compiler's source map is fetched with one run, the target is resolved   *)
(* in it, and the program is recorded with a second run; the stop set then *)
(* names the recorded events of the operations the target stood for.       *)
(***************************************************************************)
EXTENDS Minimization

CONSTANT Targets   \* what break is asked for: [kind, value]

VARIABLE stopping   \* the break command in progress

stopVars == <<minimizationVars, stopping>>

NotStopping == [step |-> "idle"]
StopInit == stopping = NotStopping

StopReport(set, exit) == [kind |-> "break", exit |-> exit, set |-> set]
StopError == StopReport([status |-> "error"], "invalid invocation")

StartBreak ==
  /\ stopping = NotStopping
  /\ \E target \in Targets : stopping' = [step |-> "fetch", target |-> target]
  /\ report' = NoReport
  /\ UNCHANGED <<worldVars, witness, recording, replaying, minimizing>>

\* The second run records the operations the target stands for.
RecordTarget(target, resolution) ==
  /\ \E p \in Policies :
       StartRecording(NoTest, Policy("selected", resolution.ops, p.events, p.values))
  /\ stopping' = [step |-> "record", target |-> target, resolution |-> resolution]
  /\ UNCHANGED report

AnswerBreak(answer) == report' = answer /\ stopping' = NotStopping /\ UNCHANGED recording

\* fetch_source_map: a run that captures nothing, and the resolution of the
\* target in its map.  A target that is not resolved is answered without a
\* second run.  A program without a map has only operations to stop at, and
\* those are recorded as they were given.
FetchSourceMap ==
  /\ stopping.step = "fetch"
  /\ \E late \in BOOLEAN :
       /\ Mishap(late)
       /\ LET target == stopping.target
              resolution == Resolve(runtime.maps[disk.program], target)
              observed == IsObservation(Printed(disk, late))
          IN CASE observed /\ runtime.mapped /\ resolution.status = "resolved" ->
                    RecordTarget(target, resolution)
               [] observed /\ runtime.mapped /\ resolution.status # "resolved" ->
                    AnswerBreak(StopReport(StopSet(target, resolution, 1, {}), "failure"))
               [] observed /\ ~runtime.mapped /\ target.kind = "operation" ->
                    RecordTarget(target, Resolution("opaque", {target.value}))
               [] OTHER -> AnswerBreak(StopError)
  /\ UNCHANGED <<runtime, disk, witness, replaying, minimizing>>

\* The recording is over: its witness is kept, and searched for the operations.
FinishBreak ==
  /\ stopping.step = "record"
  /\ recording = NotRecording
  /\ report' = StopReport(StopSet(stopping.target, stopping.resolution, 2,
                                  MatchedEvents(witness, stopping.resolution.ops)), "success")
  /\ stopping' = NotStopping
  /\ UNCHANGED <<worldVars, witness, recording, replaying, minimizing>>

StopStep == FetchSourceMap \/ FinishBreak
=============================================================================
