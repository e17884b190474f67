-------------------------- MODULE TraceProjection --------------------------
(***************************************************************************)
(* The bounded trace of a witness and the slices cut from it (trace.py,    *)
(* and trace_slice in analysis.py).  A run is observed in one of two ways: *)
(* as the event stream the language emits, or, from an executable without  *)
(* an observation boundary, as the step list of the execution document.    *)
(*                                                                         *)
(* Over DebugOutcome, a result has these fields too:                       *)
(*   wrapped  the observe command of the executable knows the program      *)
(*   stream   what the language emits: events [kind, op, ins, outs,        *)
(*            effect] and values [id, op, origin, binding], each in the    *)
(*            order of their capture, effects, and their completeness      *)
(*   strict   the observe command calls a stream truncated when a          *)
(*            selection left events out of it                              *)
(*   steps    the step list of the execution document, [kind, op]          *)
(*   cut      the executable itself truncated that list                    *)
(*   effects  the operations whose effects the document reports, in order  *)
(* A stream as it was observed has a set of values.  An event of a trace   *)
(* is named by its sequence number, which is what tells the events of one  *)
(* trace apart.                                                            *)
(***************************************************************************)
EXTENDS DebugOutcome, SequencesExt

NoOp == "no operation"
NoEffect == "no effect"
NoEvent == -1

\* kind_map of _native_trace.
NativeKind ==
  [execution_enter |-> "execution_entry", frame_enter |-> "function_entry",
   block_enter |-> "block_enter", operation_enter |-> "semantic_operation",
   operation_result |-> "operation_result", effect_invoke |-> "effect",
   effect_result |-> "effect_result", return |-> "return", frame_exit |-> "function_exit",
   execution_exit |-> "execution_exit", failure |-> "failure"]

NoStream == [events |-> <<>>, values |-> {}, effects |-> {}, status |-> "not_captured"]

\* The items of a sequence at some of its places, in their order.
At(s, places) ==
  [k \in 1..Cardinality(places) |->
     s[CHOOSE n \in places : Cardinality({m \in places : m <= n}) = k]]

\* The first items of a sequence, as many as the limit allows.
FirstOf(s, limit) == SubSeq(s, 1, IF Len(s) < limit THEN Len(s) ELSE limit)

\* The places of the events a capture policy [capture, ops, events, values]
\* asks for: a selection keeps those of its operations.
Chosen(events, policy) ==
  {n \in DOMAIN events : policy.capture = "selected" => events[n].op \in policy.ops}

\* What the observe command prints under a policy: nothing of a passing run
\* under failure-only, else the first of the chosen events, as --max-events
\* allows, and the first of all values, as --max-values allows.  What a limit
\* drops is reported; whether that goes for a selection, the executable decides.
Observed(result, policy) ==
  LET emitted == result.stream
      chosen == Chosen(emitted.events, policy)
      dropped == \/ Cardinality(chosen) > policy.events
                 \/ Len(emitted.values) > policy.values
                 \/ result.strict /\ chosen # DOMAIN emitted.events
  IN IF policy.capture = "failure-only" /\ result.status = "returned"
     THEN NoStream
     ELSE [events  |-> FirstOf(At(emitted.events, chosen), policy.events),
           values  |-> ToSet(FirstOf(emitted.values, policy.values)),
           effects |-> emitted.effects,
           status  |-> IF dropped THEN "truncated" ELSE emitted.status]

\* _native_trace: one event for each event of the stream, in its order.
NativeTrace(stream, limit) ==
  LET raw == stream.events
      event(n) == [seq |-> n, kind |-> NativeKind[raw[n].kind], op |-> raw[n].op,
                   ins |-> raw[n].ins, outs |-> raw[n].outs, effect |-> raw[n].effect]
  IN [events    |-> [n \in 1..(IF Len(raw) < limit THEN Len(raw) ELSE limit) |-> event(n)],
      values    |-> stream.values,
      effects   |-> stream.effects,
      truncated |-> stream.status = "truncated" \/ Len(raw) > limit,
      complete  |-> stream.status = "complete"]

\* The events of a legacy trace before it is bounded: the entry boundary, the
\* steps, the effects, and a failure or an exit boundary.
LegacyEvents(execution) ==
  LET effects == [n \in DOMAIN execution.effects |-> [kind |-> "effect", op |-> execution.effects[n]]]
      boundary == IF execution.failure # NoId \/ execution.status \notin {"returned", "none"}
                  THEN "failure" ELSE "function_exit"
  IN <<[kind |-> "function_entry", op |-> NoOp]>> \o execution.steps \o effects
       \o <<[kind |-> boundary, op |-> NoOp]>>

\* make_trace without a stream: cut from the end.  Its values, the returned
\* ones, are left out: no question refers to them.
LegacyTrace(execution, limit) ==
  LET all == LegacyEvents(execution)
      event(n) == [seq |-> n - 1, kind |-> all[n].kind, op |-> all[n].op,
                   ins |-> {}, outs |-> {}, effect |-> NoEffect]
  IN [events    |-> [n \in 1..(IF Len(all) < limit THEN Len(all) ELSE limit) |-> event(n)],
      values    |-> {},
      effects   |-> {},
      truncated |-> Len(all) > limit \/ execution.cut,
      complete  |-> FALSE]

\* make_trace as build_witness calls it.
MakeTrace(native, valid, stream, execution, limit) ==
  IF native /\ valid /\ stream.events # <<>>
  THEN NativeTrace(stream, limit)
  ELSE LegacyTrace(execution, limit)

\* Mutant of Completeness: a slice cut at its limit may pass for the whole.
CompletenessOfKept(trace, unfiltered, cut) ==
  IF ~trace.truncated /\ trace.complete /\ unfiltered THEN "complete" ELSE "partial"

\* A slice is complete when nothing was left out of a trace that is complete.
Completeness(trace, unfiltered, cut) ==
  IF ~cut /\ ~trace.truncated /\ trace.complete /\ unfiltered THEN "complete" ELSE "partial"

\* trace_slice: the filters, the limit, and the claim of completeness.
Slice(trace, kind, op, start, limit) ==
  LET wanted(e) == /\ kind = "any" \/ e.kind = kind
                   /\ op = NoOp \/ e.op = op
                   /\ e.seq >= start
      selected == At(trace.events, {n \in DOMAIN trace.events : wanted(trace.events[n])})
      kept == FirstOf(selected, limit)
      cut == Len(selected) > limit
      mentioned == UNION {e.ins : e \in ToSet(kept)}
  IN [events    |-> kept,
      values    |-> {v \in trace.values : op = NoOp \/ v.op = op \/ v.id \in mentioned},
      effects   |-> {f \in trace.effects :
                       op = NoOp \/ f.op = op \/ \E e \in ToSet(kept) : e.effect = f.id},
      truncated |-> cut \/ trace.truncated,
      status    |-> Completeness(trace, kind = "any" /\ op = NoOp /\ start = NoEvent, cut)]
=============================================================================
