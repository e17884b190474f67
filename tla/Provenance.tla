----------------------------- MODULE Provenance -----------------------------
(***************************************************************************)
(* Questions about a witness that run nothing: why a value or an operation *)
(* came to be (provenance_query), what a binding held (watch_binding), the *)
(* state at an event (inspect_witness), and where a function, a line or an *)
(* operation stops in the recorded run (targets.py).                       *)
(*                                                                         *)
(* Of a witness these use: native, whether its run was observed as a       *)
(* stream; stream; trace; outcome; and map, the compiler's operations      *)
(* [id, fn, line, ins, outs, parameters] and functions [id, name] of the   *)
(* recorded program, with mapped saying whether it is a source map.        *)
(* A claim of an answer is a record [kind, about, ...]; what it refers to  *)
(* is marked observed exactly when the witness holds it.                   *)
(***************************************************************************)
EXTENDS TraceProjection

NoValue == "no value"
OpsOf(map) == {o.id : o \in map.ops}

\* value_claim: a reference, marked by whether the value was captured.
Reference(values, id) == [id |-> id, observed |-> \E v \in values : v.id = id]

\* From a value to its origin and on, until one is not observed, has no origin,
\* or is met again.
OriginPath(values, start) ==
  LET valueOf(id) == CHOOSE v \in values : v.id = id
      walk[n \in 0..(Cardinality(values) + 1)] ==
        IF n = 0 THEN <<start>>
        ELSE LET path == walk[n - 1]
                 last == path[Len(path)]
             IN IF /\ \E v \in values : v.id = last /\ v.origin # NoValue
                   /\ \A i \in 1..(Len(path) - 1) : path[i] # last
                THEN Append(path, valueOf(last).origin)
                ELSE path
  IN walk[Cardinality(values) + 1]

\* The origins of a value.
OriginChain(values, start) ==
  LET path == OriginPath(values, start)
  IN [n \in 1..(Len(path) - 1) |-> Reference(values, path[n + 1])]

\* The operation an answer is about: the one asked for, else the identity of
\* the failure, else the operation of the value asked for, else the first
\* event that produced the value.
TargetOperation(witness, value, op) ==
  LET holding == {v \in witness.trace.values : v.id = value}
      producing == SelectSeq(witness.trace.events, LAMBDA e : value \in e.outs)
  IN CASE op # NoOp -> op
       [] op = NoOp /\ witness.outcome.failure # NoId -> witness.outcome.failure
       [] op = NoOp /\ witness.outcome.failure = NoId /\ holding # {} ->
            (CHOOSE v \in holding : TRUE).op
       [] OTHER -> IF producing = <<>> THEN NoOp ELSE producing[1].op

\* execution_path: the events that touch the target; when the value asked for
\* led to no operation, those are the events without one.
PathEvents(trace, value, target) ==
  {e.seq : e \in {f \in ToSet(trace.events) :
                    \/ value = NoValue /\ target = NoOp
                    \/ f.op = target
                    \/ {target, value} \cap (f.ins \cup f.outs) # {}}}

\* Mutant of AnswerStatus: a stream passes for the whole when no event was cut
\* from the trace.
AnswerStatusOfEvents(witness) ==
  IF Len(witness.trace.events) < witness.policy.events THEN "complete" ELSE "partial"

\* An answer is complete when the stream it was found in is.
AnswerStatus(witness) == IF witness.stream.status = "complete" THEN "complete" ELSE "partial"

\* _native_provenance_query.
NativeAnswer(witness, value, op) ==
  LET trace == witness.trace
      target == TargetOperation(witness, value, op)
      at == {e \in ToSet(trace.events) : e.op = target}
      asked == {v \in trace.values : v.id = value}
      chain == OriginChain(trace.values, value)
      valueClaims ==
        IF asked = {} THEN {}
        ELSE {[kind |-> "value_observation", refs |-> {Reference(trace.values, value)}]}
             \cup (IF chain = <<>> THEN {}
                   ELSE {[kind |-> "value_origin_chain", refs |-> ToSet(chain)]})
      operationClaim ==
        IF target = NoOp THEN {}
        ELSE {[kind |-> "operation_identity", refs |-> {[id |-> target, observed |-> at # {}]}]}
      flowClaims ==
        IF target = NoOp \/ at = {} THEN {}
        ELSE {[kind |-> "inputs", refs |-> {Reference(trace.values, i) : i \in UNION {e.ins : e \in at}}],
              [kind |-> "outputs", refs |-> {Reference(trace.values, i) : i \in UNION {e.outs : e \in at}}]}
             \cup {[kind |-> "effect_provenance", refs |-> {[id |-> f.id, observed |-> TRUE]}] :
                     f \in {g \in trace.effects : \E e \in at : e.effect = g.id}}
  IN [target |-> target,
      claims |-> valueClaims \cup operationClaim \cup flowClaims,
      path   |-> PathEvents(trace, value, target),
      status |-> AnswerStatus(witness)]

\* _value_origin over the static dataflow of the recorded program.
StaticOrigin(map, id) ==
  IF \E o \in map.ops : id \in o.parameters THEN "request_argument"
  ELSE IF \E o \in map.ops : id \in o.outs THEN "operation_output"
  ELSE "unresolved"

\* provenance_query of a witness that has no observation stream: static
\* dataflow, and which of its operations the trace shows.
LegacyAnswer(witness, value, op) ==
  LET trace == witness.trace
      map == witness.map
      producers == {o \in map.ops : value \in o.outs}
      target == CASE op # NoOp -> op
                  [] op = NoOp /\ witness.outcome.failure # NoId -> witness.outcome.failure
                  [] OTHER -> IF producers = {} THEN NoOp ELSE (CHOOSE o \in producers : TRUE).id
      item == {o \in map.ops : o.id = target}
      seen == \E e \in ToSet(trace.events) : e.op = target
      origins(o) == {[id |-> i, observed |-> FALSE, origin |-> StaticOrigin(map, i)] : i \in o.ins}
  IN [target |-> target,
      claims |-> CASE target = NoOp -> {[kind |-> "question", refs |-> {}]}
                   [] target # NoOp /\ item = {} ->
                        {[kind |-> "runtime_only", refs |-> {[id |-> target, observed |-> FALSE]}]}
                   [] OTHER ->
                        {[kind |-> "operation_identity", refs |-> {[id |-> target, observed |-> seen]}]}
                        \cup {[kind |-> "static_inputs", refs |-> origins(o)] : o \in item},
      path   |-> {e.seq : e \in {f \in ToSet(trace.events) : target = NoOp \/ f.op = target}},
      status |-> "partial"]

\* provenance_query.
Why(witness, value, op) ==
  IF witness.native THEN NativeAnswer(witness, value, op) ELSE LegacyAnswer(witness, value, op)

\* watch_binding: one observed value of the binding is explained, none is
\* reported as unobserved, several are listed for the caller to choose from.
Watch(witness, binding) ==
  LET candidates == IF witness.native THEN {v \in witness.stream.values : v.binding = binding} ELSE {}
      answer(claim) == [target |-> NoOp, claims |-> {claim}, path |-> {}, status |-> "complete"]
  IN CASE Cardinality(candidates) = 1 -> Why(witness, (CHOOSE v \in candidates : TRUE).id, NoOp)
       [] candidates = {} ->
            answer([kind |-> "value_observation", refs |-> {[id |-> binding, observed |-> FALSE]}])
       [] OTHER ->
            answer([kind |-> "binding_candidates",
                    refs |-> {[id |-> v.id, observed |-> TRUE] : v \in candidates}])

\* inspect_witness: the terminal snapshot, at an event of the trace or its last.
Inspect(witness, event) ==
  LET events == witness.trace.events
      chosen == {e \in ToSet(events) : e.seq = event}
  IN [status  |-> witness.outcome.status,
      current |-> IF chosen # {} THEN event
                  ELSE IF events = <<>> THEN NoEvent ELSE events[Len(events)].seq,
      values  |-> witness.trace.values,
      effects |-> witness.trace.effects,
      cut     |-> witness.trace.truncated]

-----------------------------------------------------------------------------
(* Targets: what a function, an operation or a line stands for.            *)

Resolution(status, ops) == [status |-> status, ops |-> ops]

\* resolve_function: by name or identity; a name of two functions is refused.
ResolveFunction(map, name) ==
  LET matches == {f \in map.functions : f.name = name \/ f.id = name}
  IN CASE matches = {} -> Resolution("unresolved", {})
       [] Cardinality(matches) > 1 -> Resolution("ambiguous", {})
       [] OTHER -> Resolution("resolved", {o.id : o \in {p \in map.ops : \E f \in matches : p.fn = f.id}})

\* resolve_operation and resolve_line.
ResolveOperation(map, id) ==
  IF id \in OpsOf(map) THEN Resolution("resolved", {id}) ELSE Resolution("unresolved", {})
ResolveLine(map, line) ==
  LET spanning == {o.id : o \in {p \in map.ops : p.line = line}}
  IN IF line < 1 \/ spanning = {} THEN Resolution("unresolved", {}) ELSE Resolution("resolved", spanning)

Resolve(map, target) ==
  CASE target.kind = "function" -> ResolveFunction(map, target.value)
    [] target.kind = "operation" -> ResolveOperation(map, target.value)
    [] target.kind = "line" -> ResolveLine(map, target.value)

\* Mutant of ResolveInWitness: the source map of the witness is not consulted.
ResolveInTrace(witness, target) ==
  IF target.kind = "operation" /\ \E e \in ToSet(witness.trace.events) : e.op = target.value
  THEN Resolution("observed_only", {target.value})
  ELSE Resolution("unresolved", {})

\* resolve_witness_target: a witness without a source map answers only for
\* the operations its trace shows.
ResolveInWitness(witness, target) ==
  IF witness.mapped THEN Resolve(witness.map, target)
  ELSE IF target.kind = "operation" /\ \E e \in ToSet(witness.trace.events) : e.op = target.value
       THEN Resolution("observed_only", {target.value})
       ELSE Resolution("unresolved", {})

\* matched_events.
MatchedEvents(witness, ops) == {e.seq : e \in {f \in ToSet(witness.trace.events) : f.op \in ops}}

\* build_stop_set.
StopSet(target, resolution, executions, matched) ==
  [target |-> target, status |-> resolution.status, ops |-> resolution.ops,
   executions |-> executions, matched |-> matched]

\* witness_stop_set: the same question of a retained witness, without a run.
WitnessStopSet(witness, target) ==
  LET resolution == ResolveInWitness(witness, target)
  IN StopSet(target, resolution, 0, MatchedEvents(witness, resolution.ops))
=============================================================================
