---------------------------- MODULE LiveSession ----------------------------
(***************************************************************************)
(* A live debug session: one directory, the VM daemon it is a handle of,   *)
(* and the client processes (one-shot commands and pipes) that drive it.   *)
(*                                                                         *)
(* Every client runs the helpers of mncs_debug/live.py.  A helper is split *)
(* where another process can see the difference: at each read or write of  *)
(* a session file and at each call to the daemon.  Between two such points *)
(* it is one step.  The daemon itself is not in this repository; its part  *)
(* is modelled from the requests live.py sends and the answers it takes.   *)
(***************************************************************************)
EXTENDS Naturals, Sequences

CONSTANTS
  Clients,      \* processes that may work on the session directory
  Starters,     \* those of them that may run "live start"
  MaxExecs,     \* bound: daemons spawned in the directory, one execution each
  MaxStops,     \* bound: stops one execution makes before it finishes
  MaxHistory,   \* MAX_STOP_HISTORY
  Removals,     \* values "live close" takes for --remove
  Faults        \* which of "crash", "lose", "kill" may happen

ASSUME BoundsAssumption ==
  /\ MaxExecs \in Nat \ {0}
  /\ MaxStops \in Nat \ {0}
  /\ MaxHistory \in Nat \ {0}
ASSUME ChoicesAssumption ==
  /\ Starters \subseteq Clients
  /\ Removals \subseteq BOOLEAN
  /\ Faults \subseteq {"crash", "lose", "kill"}

NoExec == 0
Execs == 1..MaxExecs

VARIABLES
  session,   \* session.json: the handle
  stops,     \* stops.json; <<>> is the missing file, which reads as no stops
  finish,    \* finish.json: the terminal evidence
  socket,    \* debug.sock: the execution whose daemon bound it last
  proc,      \* daemon process of each execution: "unborn", "up" or "down"
  run,       \* the execution: "none", "stopped", "terminal" or "finished"
  issued,    \* stops the execution has made; its token is the last of them
  pc,        \* where each client is
  doc,       \* the document a drive works on
  first,     \* the document close_session read first
  closing,   \* inside close_session: "no", "keep" or "remove"
  child,     \* the daemon start_session spawned
  reply,     \* what the daemon answered
  kept,      \* what _read_stops returned
  todo       \* the listing _wipe_session_dir works through

disk == <<session, stops, finish, socket>>
vm == <<proc, run, issued>>
locals == <<doc, first, closing, child, reply, kept, todo>>
vars == <<disk, vm, pc, locals>>

(***************************************************************************)
(* Documents.  A token is the number of the stop that issued it; 0 is null.*)
(***************************************************************************)
Handle == [state : {"absent", "live", "finished", "closed"},
           exec : 0..MaxExecs, seq : 0..MaxStops, token : 0..MaxStops]
Absent == [state |-> "absent", exec |-> NoExec, seq |-> 0, token |-> 0]

Stop == [exec : Execs, seq : 1..MaxStops]
Evidence == [exec : 0..MaxExecs, stops : Seq(Stop)]
NoEvidence == [exec |-> NoExec, stops |-> <<>>]

\* stops[-MAX_STOP_HISTORY:]
Bounded(s) == IF Len(s) <= MaxHistory
              THEN s
              ELSE SubSeq(s, Len(s) - MaxHistory + 1, Len(s))

Reply == [event : {"none", "stopped", "finished"}, exec : 0..MaxExecs,
          seq : 0..MaxStops]
NoReply == [event |-> "none", exec |-> NoExec, seq |-> 0]
StopOf(r) == [exec |-> r.exec, seq |-> r.seq]

\* The files close --remove deletes, in the order sorted() lists them.
Files == {"debug.sock", "finish.json", "session.json", "stops.json"}
Listed == {f \in Files : \/ f = "debug.sock" /\ socket # NoExec
                         \/ f = "finish.json" /\ finish.exec # NoExec
                         \/ f = "session.json" /\ session.state # "absent"
                         \/ f = "stops.json" /\ stops # <<>>}

Labels == {"idle", "spawn", "begin", "opened", "first_stop", "first_evidence",
           "retire", "advance", "terminate", "answered", "history", "append",
           "finalize", "evidence", "farewell", "reread", "mark", "linger",
           "list", "wipe"}

DiskTypes ==
  /\ session \in Handle
  /\ stops \in Seq(Stop)
  /\ finish \in Evidence
  /\ socket \in 0..MaxExecs

DaemonTypes ==
  /\ proc \in [Execs -> {"unborn", "up", "down"}]
  /\ run \in [Execs -> {"none", "stopped", "terminal", "finished"}]
  /\ issued \in [Execs -> 0..MaxStops]

ClientTypes ==
  /\ pc \in [Clients -> Labels]
  /\ doc \in [Clients -> Handle]
  /\ first \in [Clients -> Handle]
  /\ closing \in [Clients -> {"no", "keep", "remove"}]
  /\ child \in [Clients -> 0..MaxExecs]
  /\ reply \in [Clients -> Reply]
  /\ kept \in [Clients -> Seq(Stop)]
  /\ todo \in [Clients -> SUBSET Files]

\* Every file, daemon and client stays within the values the code writes; in
\* particular session.json only ever holds one of the states its readers know.
TypeOK == DiskTypes /\ DaemonTypes /\ ClientTypes

Init ==
  /\ session = Absent
  /\ stops = <<>>
  /\ finish = NoEvidence
  /\ socket = NoExec
  /\ proc = [e \in Execs |-> "unborn"]
  /\ run = [e \in Execs |-> "none"]
  /\ issued = [e \in Execs |-> 0]
  /\ pc = [c \in Clients |-> "idle"]
  /\ doc = [c \in Clients |-> Absent]
  /\ first = [c \in Clients |-> Absent]
  /\ closing = [c \in Clients |-> "no"]
  /\ child = [c \in Clients |-> NoExec]
  /\ reply = [c \in Clients |-> NoReply]
  /\ kept = [c \in Clients |-> <<>>]
  /\ todo = [c \in Clients |-> {}]

-----------------------------------------------------------------------------
(***************************************************************************)
(* Steps of a client.                                                      *)
(***************************************************************************)
Goto(c, label) == pc' = [pc EXCEPT ![c] = label]

\* The helper returns or raises: its locals are gone.
Return(c) ==
  /\ Goto(c, "idle")
  /\ doc' = [doc EXCEPT ![c] = Absent]
  /\ first' = [first EXCEPT ![c] = Absent]
  /\ closing' = [closing EXCEPT ![c] = "no"]
  /\ child' = [child EXCEPT ![c] = NoExec]
  /\ reply' = [reply EXCEPT ![c] = NoReply]
  /\ kept' = [kept EXCEPT ![c] = <<>>]
  /\ todo' = [todo EXCEPT ![c] = {}]

\* Mutant of Fail: close_session lets the error out too.
FailAlways(c) == Return(c)

\* A LiveError out of a daemon call: close_session catches it and marks the
\* session closed, every other caller lets it out.
Fail(c) ==
  IF closing[c] = "no"
  THEN Return(c)
  ELSE Goto(c, "mark") /\ UNCHANGED locals

\* The daemons a connection to debug.sock reaches (at most one).
Reached == {e \in Execs : socket = e /\ proc[e] = "up"}

\* _shutdown_daemon without a child: the call may fail, errors are ignored.
ShutdownCall ==
  \/ /\ proc' = [e \in Execs |-> IF e \in Reached THEN "down" ELSE proc[e]]
  \/ /\ "lose" \in Faults
     /\ UNCHANGED proc

----------------------------------------------------------------------------
(* The daemon, as its answers show it. *)

\* It starts, resumes or terminates e up to its next stop, or to its end.
StopAt(c, e, kind, label) ==
  /\ issued[e] < MaxStops
  /\ issued' = [issued EXCEPT ![e] = @ + 1]
  /\ run' = [run EXCEPT ![e] = kind]
  /\ reply' = [reply EXCEPT ![c] =
                 [event |-> "stopped", exec |-> e, seq |-> issued[e] + 1]]
  /\ Goto(c, label)
  /\ UNCHANGED <<doc, first, closing, child, kept, todo>>

EndOf(c, e, label) ==
  /\ run' = [run EXCEPT ![e] = "finished"]
  /\ reply' = [reply EXCEPT ![c] =
                 [event |-> "finished", exec |-> e, seq |-> issued[e]]]
  /\ Goto(c, label)
  /\ UNCHANGED <<issued, doc, first, closing, child, kept, todo>>

\* Mutant of Owns: any client that knows the execution may drive it.
OwnsAnyToken(c, e) == doc[c].exec = e

\* The token check: single-owner and execution-bound.
Owns(c, e) == doc[c].exec = e /\ doc[c].token = issued[e]

KillDaemon(e) ==
  /\ "kill" \in Faults
  /\ proc[e] = "up"
  /\ proc' = [proc EXCEPT ![e] = "down"]
  /\ UNCHANGED <<disk, run, issued, pc, locals>>

----------------------------------------------------------------------------
(* start_session *)

StartCheck(c) ==
  /\ pc[c] = "idle"
  /\ session.state = "absent"
  /\ Goto(c, "spawn")
  /\ UNCHANGED <<disk, vm, locals>>

\* Unlink a stale socket, spawn the daemon, wait until it listens.
StartSpawn(c) ==
  /\ pc[c] = "spawn"
  /\ \E e \in Execs :
       /\ proc[e] = "unborn"
       /\ \A d \in 1..(e - 1) : proc[d] # "unborn"
       /\ proc' = [proc EXCEPT ![e] = "up"]
       /\ socket' = e
       /\ child' = [child EXCEPT ![c] = e]
  /\ Goto(c, "begin")
  /\ UNCHANGED <<session, stops, finish, run, issued>>
  /\ UNCHANGED <<doc, first, closing, reply, kept, todo>>

\* Popen fails (here: when the bound on daemons is used up).
StartSpawnFails(c) ==
  /\ pc[c] = "spawn"
  /\ \A e \in Execs : proc[e] # "unborn"
  /\ socket' = NoExec
  /\ Return(c)
  /\ UNCHANGED <<session, stops, finish, vm>>

\* The daemon does not listen in time: it is reaped, its socket removed.
StartWaitFails(c) ==
  /\ pc[c] = "begin"
  /\ "kill" \in Faults
  /\ proc' = [proc EXCEPT ![child[c]] = "down"]
  /\ socket' = NoExec
  /\ Return(c)
  /\ UNCHANGED <<session, stops, finish, run, issued>>

\* call("start"), to whichever daemon listens on the socket.
StartCall(c) ==
  /\ pc[c] = "begin"
  /\ \E e \in Reached :
       /\ run[e] = "none"
       /\ \/ \E kind \in {"stopped", "terminal"} : StopAt(c, e, kind, "opened")
          \/ EndOf(c, e, "opened")
  /\ UNCHANGED <<disk, proc>>

\* capabilities or start is refused, unreachable or times out.
StartCallFails(c) ==
  /\ pc[c] = "begin"
  /\ ("lose" \in Faults \/ \A e \in Reached : run[e] # "none")
  /\ Goto(c, "retire")
  /\ UNCHANGED <<disk, vm, locals>>

StartLive(c) ==
  /\ pc[c] = "opened"
  /\ reply[c].event = "stopped"
  /\ session' = [state |-> "live", exec |-> reply[c].exec,
                 seq |-> reply[c].seq, token |-> reply[c].seq]
  /\ Goto(c, "first_stop")
  /\ UNCHANGED <<stops, finish, socket, vm, locals>>

StartHistory(c) ==
  /\ pc[c] = "first_stop"
  /\ stops' = <<StopOf(reply[c])>>
  /\ Return(c)
  /\ UNCHANGED <<session, finish, socket, vm>>

StartFinished(c) ==
  /\ pc[c] = "opened"
  /\ reply[c].event = "finished"
  /\ session' = [state |-> "finished", exec |-> reply[c].exec,
                 seq |-> 0, token |-> 0]
  /\ Goto(c, "first_evidence")
  /\ UNCHANGED <<stops, finish, socket, vm, locals>>

StartEvidence(c) ==
  /\ pc[c] = "first_evidence"
  /\ finish' = [exec |-> reply[c].exec, stops |-> <<>>]
  /\ Goto(c, "retire")
  /\ UNCHANGED <<session, stops, socket, vm, locals>>

\* Mutant of StartRetire: the daemon of a finished start is left running.
StartRetireLeaky(c) ==
  /\ pc[c] = "retire"
  /\ Return(c)
  /\ UNCHANGED <<disk, vm>>

\* _shutdown_daemon(socket_path, process): ask whoever listens, then reap
\* the child, by force if it does not go.
StartRetire(c) ==
  /\ pc[c] = "retire"
  /\ \/ proc' = [e \in Execs |-> IF e \in Reached \/ e = child[c]
                                 THEN "down" ELSE proc[e]]
     \/ /\ "lose" \in Faults
        /\ proc' = [e \in Execs |-> IF e = child[c]
                                    THEN "down" ELSE proc[e]]
  /\ Return(c)
  /\ UNCHANGED <<disk, run, issued>>

Start(c) ==
  \/ StartSpawn(c)
  \/ StartSpawnFails(c)
  \/ StartWaitFails(c)
  \/ StartCall(c)
  \/ StartCallFails(c)
  \/ StartLive(c)
  \/ StartHistory(c)
  \/ StartFinished(c)
  \/ StartEvidence(c)
  \/ StartRetire(c)

----------------------------------------------------------------------------
(* resume, continue, step_* ("advance") and terminate *)

DriveRead(c, op) ==
  /\ pc[c] = "idle"
  /\ session.state = "live"
  /\ session.token # 0
  /\ doc' = [doc EXCEPT ![c] = session]
  /\ Goto(c, op)
  /\ UNCHANGED <<disk, vm, first, closing, child, reply, kept, todo>>

\* Mutant of Accepts: a finished execution may be ended again.
AcceptsFinished(c, e) == Owns(c, e)

Accepts(c, e) ==
  /\ Owns(c, e)
  /\ \/ pc[c] = "advance" /\ run[e] = "stopped"
     \/ pc[c] = "terminate" /\ run[e] \in {"stopped", "terminal"}

DriveCall(c) ==
  /\ pc[c] \in {"advance", "terminate"}
  /\ \E e \in Reached :
       /\ Accepts(c, e)
       /\ \/ /\ pc[c] = "advance"
             /\ \E kind \in {"stopped", "terminal"} :
                  StopAt(c, e, kind, "answered")
          \/ EndOf(c, e, "answered")
  /\ UNCHANGED <<disk, proc>>

DriveCallFails(c) ==
  /\ pc[c] \in {"advance", "terminate"}
  /\ ("lose" \in Faults \/ \A e \in Reached : ~Accepts(c, e))
  /\ Fail(c)
  /\ UNCHANGED <<disk, vm>>

\* The daemon answered after the client gave up: a LiveError all the same.
AnswerLost(c) ==
  /\ "lose" \in Faults
  /\ \/ pc[c] = "answered" /\ Fail(c)
     \/ pc[c] = "opened" /\ Goto(c, "retire") /\ UNCHANGED locals
  /\ UNCHANGED <<disk, vm>>

\* Mutants of AbsorbStop: the stop is appended to a history never read, or the
\* handle takes the token and keeps the old stop sequence.
AbsorbStopUnread(c) ==
  /\ pc[c] = "answered"
  /\ reply[c].event = "stopped"
  /\ session' = [state |-> doc[c].state, exec |-> doc[c].exec,
                 seq |-> reply[c].seq, token |-> reply[c].seq]
  /\ Goto(c, "append")
  /\ UNCHANGED <<stops, finish, socket, vm, locals>>

AbsorbStopOldSeq(c) ==
  /\ pc[c] = "answered"
  /\ reply[c].event = "stopped"
  /\ session' = [state |-> doc[c].state, exec |-> doc[c].exec,
                 seq |-> doc[c].seq, token |-> reply[c].seq]
  /\ Goto(c, "history")
  /\ UNCHANGED <<stops, finish, socket, vm, locals>>

\* _absorb_event, a stop: the handle first, then the history.
AbsorbStop(c) ==
  /\ pc[c] = "answered"
  /\ reply[c].event = "stopped"
  /\ session' = [state |-> doc[c].state, exec |-> doc[c].exec,
                 seq |-> reply[c].seq, token |-> reply[c].seq]
  /\ Goto(c, "history")
  /\ UNCHANGED <<stops, finish, socket, vm, locals>>

ReadStops(c) ==
  /\ pc[c] = "history"
  /\ kept' = [kept EXCEPT ![c] = stops]
  /\ Goto(c, "append")
  /\ UNCHANGED <<disk, vm, doc, first, closing, child, reply, todo>>

\* Mutants of AppendStop: the new stop goes first, or it is appended again.
AppendStopFirst(c) ==
  /\ pc[c] = "append"
  /\ stops' = Bounded(<<StopOf(reply[c])>> \o kept[c])
  /\ Return(c)
  /\ UNCHANGED <<session, finish, socket, vm>>

AppendStopRetried(c) ==
  /\ pc[c] = "append"
  /\ stops' = Bounded(Append(kept[c], StopOf(reply[c])))
  /\ Return(c) \/ (Goto(c, "history") /\ UNCHANGED locals)
  /\ UNCHANGED <<session, finish, socket, vm>>

AppendStop(c) ==
  /\ pc[c] = "append"
  /\ stops' = Bounded(Append(kept[c], StopOf(reply[c])))
  /\ Return(c)
  /\ UNCHANGED <<session, finish, socket, vm>>

\* Mutant of ReadAllStops: the evidence is built without the history.
ReadAllStopsSkipped(c) ==
  /\ pc[c] = "answered"
  /\ reply[c].event = "finished"
  /\ Goto(c, "finalize")
  /\ UNCHANGED <<disk, vm, locals>>

\* _absorb_event, the end: the history is read before the handle is written.
ReadAllStops(c) ==
  /\ pc[c] = "answered"
  /\ reply[c].event = "finished"
  /\ kept' = [kept EXCEPT ![c] = stops]
  /\ Goto(c, "finalize")
  /\ UNCHANGED <<disk, vm, doc, first, closing, child, reply, todo>>

\* Mutant of FinishHandle: the evidence is never written.
FinishHandleOnly(c) ==
  /\ pc[c] = "finalize"
  /\ session' = [state |-> "finished", exec |-> doc[c].exec,
                 seq |-> doc[c].seq, token |-> 0]
  /\ Goto(c, "farewell")
  /\ UNCHANGED <<stops, finish, socket, vm, locals>>

FinishHandle(c) ==
  /\ pc[c] = "finalize"
  /\ session' = [state |-> "finished", exec |-> doc[c].exec,
                 seq |-> doc[c].seq, token |-> 0]
  /\ Goto(c, "evidence")
  /\ UNCHANGED <<stops, finish, socket, vm, locals>>

FinishEvidence(c) ==
  /\ pc[c] = "evidence"
  /\ finish' = [exec |-> reply[c].exec, stops |-> kept[c]]
  /\ Goto(c, "farewell")
  /\ UNCHANGED <<session, stops, socket, vm, locals>>

\* The daemon is asked to exit; close_session then goes on.
FinishShutdown(c) ==
  /\ pc[c] = "farewell"
  /\ ShutdownCall
  /\ IF closing[c] = "no"
     THEN Return(c)
     ELSE Goto(c, "linger") /\ UNCHANGED locals
  /\ UNCHANGED <<disk, run, issued>>

Drive(c) ==
  \/ DriveCall(c)
  \/ DriveCallFails(c)
  \/ AbsorbStop(c)
  \/ ReadStops(c)
  \/ AppendStop(c)
  \/ ReadAllStops(c)
  \/ FinishHandle(c)
  \/ FinishEvidence(c)
  \/ FinishShutdown(c)

----------------------------------------------------------------------------
(* close_session *)

CloseRead(c, remove) ==
  /\ pc[c] = "idle"
  /\ (session.state # "absent" \/ remove)
  /\ first' = [first EXCEPT ![c] = session]
  /\ closing' = [closing EXCEPT ![c] = IF remove THEN "remove" ELSE "keep"]
  /\ Goto(c, CASE session.state = "absent" -> "list"
               [] session.state = "live" -> "reread"
               [] OTHER -> "mark")
  /\ UNCHANGED <<disk, vm, doc, child, reply, kept, todo>>

\* terminate_session reads the handle again.  A handle that is no longer
\* live is a LiveError, one that is gone is an error close does not catch.
CloseReread(c) ==
  /\ pc[c] = "reread"
  /\ \/ /\ session.state = "live"
        /\ doc' = [doc EXCEPT ![c] = session]
        /\ Goto(c, "terminate")
        /\ UNCHANGED <<first, closing, child, reply, kept, todo>>
     \/ session.state \in {"finished", "closed"} /\ Fail(c)
     \/ session.state = "absent" /\ Return(c)
  /\ UNCHANGED <<disk, vm>>

\* Mutants of CloseMark: the state is one no reader knows, or "finished".
CloseMarkUnknown(c) ==
  /\ pc[c] = "mark"
  /\ session' = [state |-> "terminated", exec |-> first[c].exec,
                 seq |-> first[c].seq, token |-> 0]
  /\ Goto(c, "linger")
  /\ UNCHANGED <<stops, finish, socket, vm, locals>>

CloseMarkFinished(c) ==
  /\ pc[c] = "mark"
  /\ session' = [state |-> "finished", exec |-> first[c].exec,
                 seq |-> first[c].seq, token |-> 0]
  /\ Goto(c, "linger")
  /\ UNCHANGED <<stops, finish, socket, vm, locals>>

\* The document written is the one read first, not the current one.
CloseMark(c) ==
  /\ pc[c] = "mark"
  /\ session' = [state |-> "closed", exec |-> first[c].exec,
                 seq |-> first[c].seq, token |-> 0]
  /\ Goto(c, "linger")
  /\ UNCHANGED <<stops, finish, socket, vm, locals>>

\* Mutant of CloseShutdown: the lingering daemon is not asked to exit.
CloseNoShutdown(c) ==
  /\ pc[c] = "linger"
  /\ IF closing[c] = "remove"
     THEN Goto(c, "list") /\ UNCHANGED locals
     ELSE Return(c)
  /\ UNCHANGED <<disk, vm>>

CloseShutdown(c) ==
  /\ pc[c] = "linger"
  /\ ShutdownCall
  /\ IF closing[c] = "remove"
     THEN Goto(c, "list") /\ UNCHANGED locals
     ELSE Return(c)
  /\ UNCHANGED <<disk, run, issued>>

\* _wipe_session_dir: the listing is taken once, then unlinked one by one.
WipeList(c) ==
  /\ pc[c] = "list"
  /\ todo' = [todo EXCEPT ![c] = Listed]
  /\ Goto(c, "wipe")
  /\ UNCHANGED <<disk, vm, doc, first, closing, child, reply, kept>>

Unlink(f) ==
  /\ session' = IF f = "session.json" THEN Absent ELSE session
  /\ stops' = IF f = "stops.json" THEN <<>> ELSE stops
  /\ finish' = IF f = "finish.json" THEN NoEvidence ELSE finish
  /\ socket' = IF f = "debug.sock" THEN NoExec ELSE socket

\* Mutant of Rank: the handle is removed before the evidence.
RankReversed(f) == CASE f = "debug.sock" -> 4
                     [] f = "finish.json" -> 3
                     [] f = "session.json" -> 2
                     [] OTHER -> 1

Rank(f) == CASE f = "debug.sock" -> 1
             [] f = "finish.json" -> 2
             [] f = "session.json" -> 3
             [] OTHER -> 4

WipeOne(c) ==
  /\ pc[c] = "wipe"
  /\ \E f \in todo[c] :
       /\ \A g \in todo[c] : Rank(f) <= Rank(g)
       /\ Unlink(f)
       /\ todo' = [todo EXCEPT ![c] = @ \ {f}]
  /\ UNCHANGED <<vm, pc, doc, first, closing, child, reply, kept>>

WipeDone(c) ==
  /\ pc[c] = "wipe"
  /\ todo[c] = {}
  /\ Return(c)
  /\ UNCHANGED <<disk, vm>>

Close(c) ==
  \/ CloseReread(c)
  \/ CloseMark(c)
  \/ CloseShutdown(c)
  \/ WipeList(c)
  \/ WipeOne(c)
  \/ WipeDone(c)

----------------------------------------------------------------------------
(* The client process dies where it is. *)
Crash(c) ==
  /\ "crash" \in Faults
  /\ pc[c] # "idle"
  /\ Return(c)
  /\ UNCHANGED <<disk, vm>>

\* What the user asks for: nothing makes him ask.
Invoke(c) ==
  \/ c \in Starters /\ StartCheck(c)
  \/ \E op \in {"advance", "terminate"} : DriveRead(c, op)
  \/ \E remove \in Removals : CloseRead(c, remove)

\* What a running client goes on to do by itself.
Proceed(c) == Start(c) \/ Drive(c) \/ Close(c)

Next ==
  \/ \E c \in Clients : Invoke(c) \/ Proceed(c) \/ AnswerLost(c) \/ Crash(c)
  \/ \E e \in Execs : KillDaemon(e)

Spec == Init /\ [][Next]_vars

\* A command that was started keeps running until it returns.
FairSpec == Spec /\ \A c \in Clients : WF_vars(Proceed(c))
-----------------------------------------------------------------------------
(***************************************************************************)
(* What the session directory promises.                                    *)
(***************************************************************************)

\* No command is running.
Settled == \A c \in Clients : pc[c] = "idle"

\* The stops of execution e, as stops.json would keep them.
AllStops(e) == Bounded([i \in 1..issued[e] |-> [exec |-> e, seq |-> i]])

\* Whatever commands interleave and whatever fails, a live handle never goes
\* back to an earlier stop of the same execution: tokens are single-owner, so
\* the client that writes session.json in _absorb_event is always the one
\* with the newest stop.
HandleNeverRegresses ==
  [][/\ session.state = "live"
     /\ session'.state = "live"
     /\ session'.exec = session.exec
     => session'.seq >= session.seq]_session

\* The unlocked read-modify-write of stops.json may lose a stop, but it never
\* records one twice.
NoStopTwice ==
  \A i, j \in 1..Len(stops) : stops[i] = stops[j] => i = j

\* The history never shows a stop that the live handle has not reached.
HistoryNeverAhead ==
  session.state = "live" =>
    \A i \in 1..Len(stops) :
      stops[i].exec = session.exec => stops[i].seq <= session.seq

\* A handle says "finished", and finish.json exists, only for an execution
\* that ran to its end.
EvidenceEarned ==
  /\ session.state = "finished" => run[session.exec] = "finished"
  /\ finish.exec # NoExec => run[finish.exec] = "finished"

\* Terminal evidence is write-once: finish.json of an execution is never
\* replaced by other evidence of the same execution.
EvidenceImmutable ==
  [][finish'.exec = finish.exec => finish' = finish]_finish

\* When no command runs, a daemon that is still up is the one the live handle
\* drives, under the token it holds: attach_session reports it attached.
NoOrphanDaemon ==
  Settled =>
    \A e \in Execs : proc[e] = "up" =>
      /\ session.state = "live"
      /\ session.exec = e
      /\ session.token = issued[e]
      /\ socket = e

\* stops.json only grows at its end (up to the bound that drops old stops).
StopsAppendOnly ==
  [][\/ stops' = <<>>
     \/ stops' = Bounded(Append(stops, stops'[Len(stops')]))]_stops

\* When no command runs the history holds every stop of the execution.
HistoryComplete ==
  Settled /\ session.state # "absent" => stops = AllStops(session.exec)

\* Terminal evidence carries the whole history.
EvidenceComplete ==
  finish.exec # NoExec => finish.stops = AllStops(finish.exec)

\* close_session terminates a live execution first, so a closed session has
\* terminal evidence.
CloseFinalizes ==
  Settled /\ session.state = "closed" => finish.exec = session.exec

\* The history is in the order the executions made the stops.
HistoryOrdered ==
  \A i, j \in 1..Len(stops) : i < j =>
    \/ stops[i].exec < stops[j].exec
    \/ stops[i].exec = stops[j].exec /\ stops[i].seq < stops[j].seq

\* Every command returns, whatever the daemon and the other clients do.
CommandsReturn ==
  \A c \in Clients : pc[c] # "idle" ~> pc[c] = "idle"

\* A finished handle gets its terminal evidence.
FinishedGetsEvidence ==
  session.state = "finished" ~>
    (session.state # "finished" \/ finish.exec = session.exec)

\* A close that found a handle leaves no daemon behind it.
CloseRetiresDaemon ==
  \A c \in Clients :
    first[c].state # "absent" ~> \A e \in Execs : proc[e] # "up"

\* A close retires the handle: it is never left live.
CloseRetiresHandle ==
  \A c \in Clients : closing[c] # "no" ~> session.state # "live"

-----------------------------------------------------------------------------
\* The files as their readers see them.  Commands that run one at a time, even
\* ones that fail or die half way, only ever do what LiveLedger allows.
Ledger == INSTANCE LiveLedger WITH
  handle <- [state |-> session.state, exec |-> session.exec, seq |-> session.seq],
  history <- stops,
  evidence <- finish
ImplementsLedger == Ledger!Spec
=============================================================================
