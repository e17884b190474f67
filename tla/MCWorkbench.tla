----------------------------- MODULE MCWorkbench -----------------------------
(* Instance of Workbench for TLC: two versions of a program and of a request. *)
EXTENDS Workbench

MCPrograms == {"p", "edited"}
MCRequests == {<<2, 1>>, <<0, 2>>}
MCInputs == (0..2) \X (0..2)

Failing == [id |-> "t", verdict |-> "FAIL", kind |-> "assertion"]
MCTests == {NoTest, Failing}
\* Events are cut, values are cut, or nothing is; some are not asked for.
MCPolicies == {Policy("bounded", {}, 2, 8), Policy("bounded", {}, 8, 1),
               Policy("bounded", {}, 8, 8), Policy("failure-only", {}, 8, 8),
               Policy("selected", {"load"}, 8, 8)}
MCTargets == {[kind |-> "function", value |-> "main"], [kind |-> "function", value |-> "twice"],
              [kind |-> "operation", value |-> "add"], [kind |-> "line", value |-> 3]}

Op(id, line, ins, outs, parameters) ==
  [id |-> id, fn |-> "f1", line |-> line, ins |-> ins, outs |-> outs, parameters |-> parameters]
Map == [ops |-> {Op("load", 2, {"arg"}, {"v1"}, {"arg"}), Op("add", 3, {"v1"}, {"v2"}, {})},
        functions |-> {[id |-> "f1", name |-> "main"], [id |-> "f2", name |-> "twice"],
                       [id |-> "f3", name |-> "twice"]}]
EditedMap == [Map EXCEPT !.ops = {Op("load", 3, {"arg"}, {"v1"}, {"arg"})}]

Event(kind, op, ins, outs, effect) ==
  [kind |-> kind, op |-> op, ins |-> ins, outs |-> outs, effect |-> effect]
Value(id, op, origin, binding) == [id |-> id, op |-> op, origin |-> origin, binding |-> binding]
Stream(events) ==
  [events |-> events, status |-> "complete",
   values |-> <<Value("v1", "load", "arg", "x"), Value("v2", "add", "v1", "x"),
                Value("v3", "add", "v2", "y")>>,
   effects |-> {[id |-> "e", op |-> "add"]}]
Whole == Stream(<<Event("frame_enter", NoOp, {}, {}, NoEffect),
                  Event("operation_result", "load", {"arg"}, {"v1"}, NoEffect),
                  Event("effect_invoke", "add", {"v1"}, {"v2"}, "e"),
                  Event("failure", "add", {"v2"}, {}, NoEffect)>>)

Returned(value) ==
  [valid |-> TRUE, ends |-> TRUE, status |-> "returned", failure |-> NoId, effect |-> FALSE,
   returned |-> value, long |-> FALSE, wrapped |-> TRUE, strict |-> FALSE,
   stream |-> [Whole EXCEPT !.events = SubSeq(@, 1, 3)],
   steps |-> <<[kind |-> "semantic_operation", op |-> "load"],
               [kind |-> "semantic_operation", op |-> "add"]>>,
   cut |-> FALSE, effects |-> <<"add">>]
Failed == [Returned("[]") EXCEPT !.status = "runtime_failure", !.failure = "add", !.stream = Whole]
Effect == [Failed EXCEPT !.effect = TRUE]
Endless == [Killed(Failed) EXCEPT !.wrapped = TRUE, !.returned = "[]", !.steps = <<>>, !.effects = <<>>]
Refused == [Failed EXCEPT !.valid = FALSE, !.status = "none", !.failure = NoId, !.steps = <<>>,
                          !.effects = <<>>]
Budget == [Failed EXCEPT !.status = "budget_exhausted", !.stream.events = SubSeq(Whole.events, 1, 3)]

\* p fails when its first argument is positive or its second is not; the edited
\* program is what the developer makes of it.
Language(bad, good, edited) ==
  [p \in MCPrograms |-> [r \in MCInputs |->
     IF p = "edited" THEN edited
     ELSE IF r[1] > 0 \/ r[2] = 0 THEN bad ELSE good]]
Maps == [p \in MCPrograms |-> IF p = "p" THEN Map ELSE EditedMap]
Of2(bad, good, edited, mapped, embeds) ==
  [runs |-> Language(bad, good, edited), maps |-> Maps, mapped |-> mapped, embeds |-> embeds]
Old(result) == [result EXCEPT !.wrapped = FALSE]
Strict(result) == [result EXCEPT !.strict = TRUE]

MCRuntimes ==
  {Of2(Failed, Returned("[0]"), Returned("[1]"), TRUE, TRUE),
   Of2(Old(Failed), Old(Returned("[0]")), Old(Refused), FALSE, TRUE),
   Of2(Strict(Effect), Strict([Returned("[0]") EXCEPT !.long = TRUE]), Strict(Failed),
       FALSE, FALSE),
   Of2(Endless, Budget, Refused, TRUE, TRUE)}

MCEvidence ==
  {<<>>,
   <<[schema |-> "replay", status |-> "mismatch"]>>,
   <<[schema |-> "trace", anchor |-> TRUE, operation |-> FALSE, completeness |-> "partial"]>>,
   <<[schema |-> "trace", anchor |-> TRUE, operation |-> TRUE, completeness |-> "complete"]>>,
   <<[schema |-> "test", failed |-> TRUE], [schema |-> "test", failed |-> FALSE]>>}

Sound(kind, id) == [kind |-> kind, id |-> id, sound |-> TRUE]
MCDocuments == {Sound("witness", "a"), Sound("witness", "b"), Sound("live", "a"),
                [kind |-> "witness", id |-> "b", sound |-> FALSE],
                [kind |-> "live", id |-> "a", sound |-> FALSE]}

\* A behaviour is about the developer or about the archive, never about both.
FirstRuntime == Of2(Failed, Returned("[0]"), Returned("[1]"), TRUE, TRUE)
FirstFiles == [w \in Writers |-> IF w = 3 THEN Sound("live", "a") ELSE Sound("witness", "a")]
MCInit ==
  /\ Init
  /\ files = FirstFiles
  /\ ~atWork => runtime = FirstRuntime /\ disk = [program |-> "p", request |-> <<2, 1>>]
MCSpec == MCInit /\ [][Next]_workbenchVars
=============================================================================
