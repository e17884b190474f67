---------------------------- MODULE LiveLedger ----------------------------
(***************************************************************************)
(* What the three files of a live session promise a reader, with commands  *)
(* and daemons out of sight: a handle that moves forward one stop at a     *)
(* time, a history that grows by the stop the handle shows, and terminal   *)
(* evidence that is written once, for a finished handle, from the history. *)
(* LiveSession implements it when commands run one at a time.              *)
(***************************************************************************)
EXTENDS Naturals, Sequences

CONSTANTS
  MaxExecs,    \* bound: executions
  MaxHistory   \* MAX_STOP_HISTORY

VARIABLES
  handle,      \* session.json: its state, execution and stop sequence
  history,     \* stops.json
  evidence     \* finish.json

vars == <<handle, history, evidence>>

NoHandle == [state |-> "absent", exec |-> 0, seq |-> 0]
NoEvidence == [exec |-> 0, stops |-> <<>>]

Init ==
  /\ handle = NoHandle
  /\ history = <<>>
  /\ evidence = NoEvidence

LastOnes(s) == SubSeq(s, (IF Len(s) > MaxHistory THEN Len(s) - MaxHistory ELSE 0) + 1, Len(s))

Current == [exec |-> handle.exec, seq |-> handle.seq]

\* A handle appears at the first stop, or at the end of a run without stops.
Open ==
  /\ handle.state = "absent"
  /\ \E e \in 1..MaxExecs :
       \/ handle' = [state |-> "live", exec |-> e, seq |-> 1]
       \/ handle' = [state |-> "finished", exec |-> e, seq |-> 0]
  /\ UNCHANGED <<history, evidence>>

Advance ==
  /\ handle.state = "live"
  /\ handle' = [handle EXCEPT !.seq = @ + 1]
  /\ UNCHANGED <<history, evidence>>

\* The current stop is recorded, once; the first one starts the history.
Record ==
  /\ handle.state = "live"
  /\ \A i \in 1..Len(history) : history[i] # Current
  /\ history' = IF handle.seq = 1
                THEN <<Current>>
                ELSE LastOnes(Append(history, Current))
  /\ UNCHANGED <<handle, evidence>>

End ==
  /\ handle.state = "live"
  /\ handle' = [handle EXCEPT !.state = "finished"]
  /\ UNCHANGED <<history, evidence>>

\* Evidence is written for a finished handle that has none, from the history.
Certify ==
  /\ handle.state = "finished"
  /\ evidence.exec # handle.exec
  /\ evidence' = [exec |-> handle.exec,
                  stops |-> IF handle.seq = 0 THEN <<>> ELSE history]
  /\ UNCHANGED <<handle, history>>

Retire ==
  /\ handle.state # "absent"
  /\ handle' = [handle EXCEPT !.state = "closed"]
  /\ UNCHANGED <<history, evidence>>

\* close --remove, file by file: the evidence goes before the handle.
Erase ==
  /\ handle.state # "live"
  /\ \/ evidence' = NoEvidence /\ UNCHANGED <<handle, history>>
     \/ /\ evidence = NoEvidence
        /\ handle' = NoHandle
        /\ UNCHANGED <<history, evidence>>
     \/ /\ handle = NoHandle
        /\ history' = <<>>
        /\ UNCHANGED <<handle, evidence>>

Next == Open \/ Advance \/ Record \/ End \/ Certify \/ Retire \/ Erase

Spec == Init /\ [][Next]_vars
=============================================================================
