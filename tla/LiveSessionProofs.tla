------------------------- MODULE LiveSessionProofs -------------------------
(***************************************************************************)
(* Theorems about LiveSession, for any clients, bounds and faults.         *)
(***************************************************************************)
EXTENDS LiveSessionInv, TLAPS

USE DEF Execs, NoExec

\* Dropping the oldest stops leaves a sequence of stops.
LEMMA BoundedIsSeq ==
  ASSUME NEW S, NEW s \in Seq(S)
  PROVE  Bounded(s) \in Seq(S)
<1>1. MaxHistory \in Nat \ {0} BY BoundsAssumption
<1>2. CASE Len(s) <= MaxHistory BY <1>2 DEF Bounded
<1>3. CASE Len(s) > MaxHistory
  <2>1. /\ Len(s) - MaxHistory + 1 \in 1..Len(s)
        /\ Len(s) \in Nat
    BY <1>1, <1>3
  <2>2. SubSeq(s, Len(s) - MaxHistory + 1, Len(s)) \in Seq(S)
    BY <2>1
  <2>3. QED BY <1>1, <1>3, <2>2 DEF Bounded
<1>4. QED BY <1>1, <1>2, <1>3

\* The documents and answers the actions build are of their types.
LEMMA Built ==
  /\ Absent \in Handle
  /\ NoReply \in Reply
  /\ NoEvidence \in Evidence
  /\ \A h \in Handle : /\ h.state \in {"absent", "live", "finished", "closed"}
                       /\ h.exec \in 0..MaxExecs
                       /\ h.seq \in 0..MaxStops
                       /\ h.token \in 0..MaxStops
  /\ \A r \in Reply : /\ r.event \in {"none", "stopped", "finished"}
                      /\ r.exec \in 0..MaxExecs
                      /\ r.seq \in 0..MaxStops
  /\ \A s \in {"absent", "live", "finished", "closed"}, e \in 0..MaxExecs,
        n \in 0..MaxStops, t \in 0..MaxStops :
       [state |-> s, exec |-> e, seq |-> n, token |-> t] \in Handle
  /\ \A v \in {"stopped", "finished"}, e \in Execs, n \in 0..MaxStops :
       [event |-> v, exec |-> e, seq |-> n] \in Reply
  /\ \A r \in Reply : r.exec \in Execs /\ r.seq >= 1 => StopOf(r) \in Stop
  /\ \A e \in 0..MaxExecs, s \in Seq(Stop) :
       [exec |-> e, stops |-> s] \in Evidence
  /\ <<>> \in Seq(Stop)
BY BoundsAssumption
   DEF Handle, Absent, Reply, NoReply, Evidence, NoEvidence, Stop, StopOf

LEMMA TypesInit == Init => TypeOK /\ Phases
BY BoundsAssumption, Built
   DEF Init, TypeOK, DiskTypes, DaemonTypes, ClientTypes, Phases, Absent, NoReply,
       Files, Labels, Answered

LEMMA AnsweredStop ==
  ASSUME TypeOK, Phases, NEW c \in Clients, reply[c].event = "stopped"
  PROVE  StopOf(reply[c]) \in Stop
<1>1. reply[c] \in Reply BY DEF TypeOK, ClientTypes
<1>2. reply[c].exec \in Execs /\ reply[c].seq \in 1..issued[reply[c].exec]
  BY DEF Phases, Answered
<1>3. reply[c].seq >= 1 BY <1>1, <1>2, Built
<1>4. QED BY <1>1, <1>2, <1>3, Built

\* A helper that returns, or that only moves on to a place where its answer
\* no longer matters, keeps the types of the locals.
LEMMA ReturnKeeps ==
  ASSUME TypeOK, Phases, NEW c \in Clients, Return(c), UNCHANGED issued
  PROVE  ClientTypes' /\ Phases'
BY Built DEF TypeOK, ClientTypes, Phases, Answered, Return, Goto, Labels, NoReply

LEMMA GotoKeeps ==
  ASSUME TypeOK, Phases, NEW c \in Clients,
         NEW label \in Labels \ {"advance", "terminate", "opened", "answered", "first_stop",
                                 "history", "append", "first_evidence", "finalize",
                                 "evidence"},
         Goto(c, label), UNCHANGED <<locals, issued>>
  PROVE  ClientTypes' /\ Phases'
BY DEF TypeOK, ClientTypes, Phases, Answered, Goto, locals

LEMMA FailKeeps ==
  ASSUME TypeOK, Phases, NEW c \in Clients, Fail(c), UNCHANGED issued
  PROVE  ClientTypes' /\ Phases'
BY ReturnKeeps, GotoKeeps DEF Fail, Labels

\* An answer of execution e arrives at a client that opens it or works on it.
LEMMA AnswerKeeps ==
  ASSUME TypeOK, Phases, NEW c \in Clients, NEW e \in Execs,
         NEW label \in {"opened", "answered"},
         label = "answered" => doc[c].exec = e /\ doc[c].state = "live",
         \/ \E kind \in {"stopped", "terminal"} : StopAt(c, e, kind, label)
         \/ EndOf(c, e, label),
         UNCHANGED proc
  PROVE  DaemonTypes' /\ ClientTypes' /\ Phases'
<1> USE BoundsAssumption DEF TypeOK, DaemonTypes, ClientTypes, Goto, Labels
<1>1. CASE \E kind \in {"stopped", "terminal"} : StopAt(c, e, kind, label)
  <2>1. /\ issued' = [issued EXCEPT ![e] = @ + 1]
        /\ issued[e] + 1 \in 1..MaxStops
        /\ reply' = [reply EXCEPT ![c] =
                       [event |-> "stopped", exec |-> e, seq |-> issued[e] + 1]]
        /\ pc' = [pc EXCEPT ![c] = label]
        /\ UNCHANGED <<doc, first, closing, child, kept, todo>>
    BY <1>1 DEF StopAt
  <2>2. DaemonTypes'
    <3>1. issued' \in [Execs -> 0..MaxStops] BY <2>1
    <3>2. run' \in [Execs -> {"none", "stopped", "terminal", "finished"}]
      BY <1>1 DEF StopAt
    <3>3. QED BY <3>1, <3>2
  <2>3. ClientTypes'
    <3>1. [event |-> "stopped", exec |-> e, seq |-> issued[e] + 1] \in Reply BY <2>1, Built
    <3>2. reply' \in [Clients -> Reply] BY <2>1, <3>1
    <3>3. QED BY <2>1, <3>2
  <2>4. ASSUME NEW d \in Clients, reply'[d].event = "stopped"
        PROVE  reply'[d].seq \in 1..issued'[reply'[d].exec]
    <3>1. CASE d = c BY <2>1, <3>1
    <3>2. CASE d # c
      <4>1. reply'[d] = reply[d] /\ reply[d] \in Reply BY <2>1, <3>2
      <4>2. reply[d].exec \in Execs /\ reply[d].seq \in 1..issued[reply[d].exec]
        BY <2>4, <4>1 DEF Phases, Answered
      <4>3. issued'[reply[d].exec] >= issued[reply[d].exec]
        BY <2>1, <4>2
      <4>4. issued'[reply[d].exec] \in Nat /\ issued[reply[d].exec] \in Nat
        BY <2>2, <4>2
      <4>5. QED BY <4>1, <4>2, <4>3, <4>4
    <3>3. QED BY <3>1, <3>2
  <2>5. ASSUME NEW d \in Clients, d # c
        PROVE  pc'[d] = pc[d] /\ reply'[d] = reply[d] /\ doc'[d] = doc[d]
    BY <2>1, <2>5
  <2>6. pc'[c] = label /\ doc'[c] = doc[c] /\ reply'[c].event = "stopped" /\ reply'[c].exec = e
    BY <2>1
  <2>7. Phases' BY ONLY Phases, <2>4, <2>5, <2>6, c \in Clients, e \in Execs,
                        label \in {"opened", "answered"},
                        label = "answered" => doc[c].exec = e /\ doc[c].state = "live"
                   DEF Phases, Answered
  <2>8. QED BY <2>2, <2>3, <2>7
<1>2. CASE EndOf(c, e, label)
  <2>1. /\ reply' = [reply EXCEPT ![c] =
                       [event |-> "finished", exec |-> e, seq |-> issued[e]]]
        /\ pc' = [pc EXCEPT ![c] = label]
        /\ UNCHANGED <<issued, doc, first, closing, child, kept, todo>>
    BY <1>2 DEF EndOf
  <2>2. DaemonTypes' BY <1>2 DEF EndOf
  <2>3. ClientTypes' BY <2>1, Built
  <2>4. Phases' BY <2>1 DEF Phases, Answered
  <2>5. QED BY <2>2, <2>3, <2>4
<1>3. QED BY <1>1, <1>2

LEMMA TypesStart ==
  ASSUME TypeOK, Phases, NEW c \in Clients, Start(c)
  PROVE  TypeOK' /\ Phases'
<1> USE DEF TypeOK, disk, vm
<1> USE BoundsAssumption, Built
<1>1. CASE StartSpawn(c)
  <2>1. DiskTypes' /\ DaemonTypes' BY <1>1 DEF StartSpawn, DiskTypes, DaemonTypes
  <2>2. ClientTypes' BY <1>1 DEF StartSpawn, ClientTypes, Goto, Labels
  <2>3. Phases' BY <1>1 DEF StartSpawn, ClientTypes, Phases, Answered, Goto
  <2>4. QED BY <2>1, <2>2, <2>3
<1>2. CASE StartSpawnFails(c)
  BY <1>2, ReturnKeeps DEF StartSpawnFails, DiskTypes, DaemonTypes
<1>3. CASE StartWaitFails(c)
  <2>1. proc' \in [Execs -> {"unborn", "up", "down"}]
    BY <1>3 DEF StartWaitFails, DaemonTypes
  <2>2. /\ socket' \in 0..MaxExecs
        /\ UNCHANGED <<session, stops, finish, run, issued>>
        /\ Return(c)
    BY <1>3 DEF StartWaitFails
  <2>3. QED BY <2>1, <2>2, ReturnKeeps DEF DiskTypes, DaemonTypes
<1>4. CASE StartCall(c)
  <2>1. PICK e \in Execs :
          \/ \E kind \in {"stopped", "terminal"} : StopAt(c, e, kind, "opened")
          \/ EndOf(c, e, "opened")
    BY <1>4 DEF StartCall, Reached
  <2>2. UNCHANGED <<disk, proc>> BY <1>4 DEF StartCall
  <2>3. DaemonTypes' /\ ClientTypes' /\ Phases' BY <2>1, <2>2, AnswerKeeps
  <2>4. DiskTypes' BY <2>2 DEF DiskTypes
  <2>5. QED BY <2>3, <2>4
<1>5. CASE StartCallFails(c)
  BY <1>5, GotoKeeps DEF StartCallFails, DiskTypes, DaemonTypes, Labels
<1>6. CASE StartLive(c)
  <2>1. reply[c] \in Reply /\ reply[c].exec \in 0..MaxExecs /\ reply[c].seq \in 0..MaxStops
    BY DEF ClientTypes
  <2>2. session' \in Handle BY <1>6, <2>1 DEF StartLive
  <2>3. DiskTypes' /\ DaemonTypes' BY <1>6, <2>2 DEF StartLive, DiskTypes, DaemonTypes
  <2>4. ClientTypes' BY <1>6 DEF StartLive, ClientTypes, Goto, Labels, locals
  <2>5. Phases' BY <1>6 DEF StartLive, ClientTypes, Phases, Answered, Goto, locals
  <2>6. QED BY <2>3, <2>4, <2>5
<1>7. CASE StartHistory(c)
  <2>1. StopOf(reply[c]) \in Stop BY <1>7, AnsweredStop DEF StartHistory, Phases
  <2>2. stops' \in Seq(Stop) BY <1>7, <2>1 DEF StartHistory
  <2>3. QED BY <1>7, <2>2, ReturnKeeps DEF StartHistory, DiskTypes, DaemonTypes
<1>8. CASE StartFinished(c)
  <2>1. reply[c] \in Reply /\ reply[c].exec \in 0..MaxExecs BY DEF ClientTypes
  <2>2. session' \in Handle BY <1>8, <2>1 DEF StartFinished
  <2>3. DiskTypes' /\ DaemonTypes' BY <1>8, <2>2 DEF StartFinished, DiskTypes, DaemonTypes
  <2>4. ClientTypes' BY <1>8 DEF StartFinished, ClientTypes, Goto, Labels, locals
  <2>5. Phases' BY <1>8 DEF StartFinished, ClientTypes, Phases, Answered, Goto, locals
  <2>6. QED BY <2>3, <2>4, <2>5
<1>9. CASE StartEvidence(c)
  <2>1. reply[c] \in Reply /\ reply[c].exec \in 0..MaxExecs BY DEF ClientTypes
  <2>2. finish' \in Evidence BY <1>9, <2>1 DEF StartEvidence
  <2>3. QED
    BY <1>9, <2>2, GotoKeeps DEF StartEvidence, DiskTypes, DaemonTypes, Labels
<1>10. CASE StartRetire(c)
  BY <1>10, ReturnKeeps DEF StartRetire, DiskTypes, DaemonTypes
<1>11. QED
  BY <1>1, <1>2, <1>3, <1>4, <1>5, <1>6, <1>7, <1>8, <1>9, <1>10 DEF Start

LEMMA TypesDrive ==
  ASSUME TypeOK, Phases, NEW c \in Clients, Drive(c)
  PROVE  TypeOK' /\ Phases'
<1> USE DEF TypeOK, disk, vm
<1> USE BoundsAssumption, Built
<1>1. CASE DriveCall(c)
  <2>1. PICK e \in Execs :
          /\ doc[c].exec = e
          /\ \/ \E kind \in {"stopped", "terminal"} : StopAt(c, e, kind, "answered")
             \/ EndOf(c, e, "answered")
    BY <1>1 DEF DriveCall, Accepts, Owns, Reached
  <2> doc[c].state = "live" BY <1>1 DEF DriveCall, Phases
  <2>2. UNCHANGED <<disk, proc>> BY <1>1 DEF DriveCall
  <2>3. DaemonTypes' /\ ClientTypes' /\ Phases' BY <2>1, <2>2, AnswerKeeps
  <2>4. DiskTypes' BY <2>2 DEF DiskTypes
  <2>5. QED BY <2>3, <2>4
<1>2. CASE DriveCallFails(c)
  BY <1>2, FailKeeps DEF DriveCallFails, DiskTypes, DaemonTypes
<1>3. CASE AbsorbStop(c)
  <2>1. /\ reply[c] \in Reply /\ reply[c].seq \in 0..MaxStops
        /\ doc[c] \in Handle /\ doc[c].exec \in 0..MaxExecs
        /\ doc[c].state \in {"absent", "live", "finished", "closed"}
    BY DEF ClientTypes
  <2>2. session' \in Handle BY <1>3, <2>1 DEF AbsorbStop
  <2>3. QED
    BY <1>3, <2>2 DEF AbsorbStop, DiskTypes, DaemonTypes, ClientTypes, Phases, Answered,
                      Goto, Labels, locals
<1>4. CASE ReadStops(c)
  BY <1>4 DEF ReadStops, DiskTypes, DaemonTypes, ClientTypes, Phases, Answered, Goto, Labels
<1>5. CASE AppendStop(c)
  <2>1. StopOf(reply[c]) \in Stop BY <1>5, AnsweredStop DEF AppendStop, Phases
  <2>2. Append(kept[c], StopOf(reply[c])) \in Seq(Stop) BY <2>1 DEF ClientTypes
  <2>3. stops' \in Seq(Stop) BY <1>5, <2>2, BoundedIsSeq DEF AppendStop
  <2>4. QED BY <1>5, <2>3, ReturnKeeps DEF AppendStop, DiskTypes, DaemonTypes
<1>6. CASE ReadAllStops(c)
  <2>1. DiskTypes' /\ DaemonTypes' BY <1>6 DEF ReadAllStops, DiskTypes, DaemonTypes
  <2>2. ClientTypes' BY <1>6 DEF ReadAllStops, DiskTypes, ClientTypes, Goto, Labels
  <2>3. Phases' BY <1>6 DEF ReadAllStops, ClientTypes, Phases, Answered, Goto
  <2>4. QED BY <2>1, <2>2, <2>3
<1>7. CASE FinishHandle(c)
  <2>1. doc[c] \in Handle /\ doc[c].exec \in 0..MaxExecs /\ doc[c].seq \in 0..MaxStops
    BY DEF ClientTypes
  <2>2. session' \in Handle BY <1>7, <2>1 DEF FinishHandle
  <2>3. QED
    BY <1>7, <2>2 DEF FinishHandle, DiskTypes, DaemonTypes, ClientTypes, Phases, Answered,
                      Goto, Labels, locals
<1>8. CASE FinishEvidence(c)
  <2>1. /\ reply[c] \in Reply /\ reply[c].exec \in 0..MaxExecs
        /\ kept[c] \in Seq(Stop)
    BY DEF ClientTypes
  <2>2. finish' \in Evidence BY <1>8, <2>1 DEF FinishEvidence
  <2>3. QED
    BY <1>8, <2>2, GotoKeeps DEF FinishEvidence, DiskTypes, DaemonTypes, Labels
<1>9. CASE FinishShutdown(c)
  <2>1. proc' \in [Execs -> {"unborn", "up", "down"}]
    BY <1>9 DEF FinishShutdown, ShutdownCall, DaemonTypes
  <2>2. UNCHANGED <<session, stops, finish, socket, run, issued>>
    BY <1>9 DEF FinishShutdown
  <2>3. Return(c) \/ (Goto(c, "linger") /\ UNCHANGED locals)
    BY <1>9 DEF FinishShutdown
  <2>4. QED
    BY <2>1, <2>2, <2>3, ReturnKeeps, GotoKeeps DEF DiskTypes, DaemonTypes, Labels
<1>10. QED
  BY <1>1, <1>2, <1>3, <1>4, <1>5, <1>6, <1>7, <1>8, <1>9 DEF Drive

LEMMA TypesClose ==
  ASSUME TypeOK, Phases, NEW c \in Clients, Close(c)
  PROVE  TypeOK' /\ Phases'
<1> USE DEF TypeOK, disk, vm
<1> USE BoundsAssumption, Built
<1>1. CASE CloseReread(c)
  <2>1. CASE /\ doc' = [doc EXCEPT ![c] = session]
             /\ Goto(c, "terminate")
             /\ UNCHANGED <<first, closing, child, reply, kept, todo>>
    <3>1. UNCHANGED <<disk, vm>> /\ session.state = "live"
      BY <1>1, <2>1 DEF CloseReread, Fail, Return, Goto, ClientTypes
    <3>2. ClientTypes' BY <2>1 DEF DiskTypes, ClientTypes, Goto, Labels
    <3>3. Phases' BY <2>1, <3>1 DEF ClientTypes, Phases, Answered, Goto
    <3>4. QED BY <3>1, <3>2, <3>3 DEF DiskTypes, DaemonTypes
  <2>2. CASE Fail(c) \/ Return(c)
    BY <1>1, <2>2, FailKeeps, ReturnKeeps DEF CloseReread, DiskTypes, DaemonTypes
  <2>3. QED BY <1>1, <2>1, <2>2 DEF CloseReread
<1>2. CASE CloseMark(c)
  <2>1. first[c] \in Handle /\ first[c].exec \in 0..MaxExecs /\ first[c].seq \in 0..MaxStops
    BY DEF ClientTypes
  <2>2. session' \in Handle BY <1>2, <2>1 DEF CloseMark
  <2>3. QED
    BY <1>2, <2>2, GotoKeeps DEF CloseMark, DiskTypes, DaemonTypes, Labels
<1>3. CASE CloseShutdown(c)
  <2>1. proc' \in [Execs -> {"unborn", "up", "down"}]
    BY <1>3 DEF CloseShutdown, ShutdownCall, DaemonTypes
  <2>2. UNCHANGED <<session, stops, finish, socket, run, issued>>
    BY <1>3 DEF CloseShutdown
  <2>3. Return(c) \/ (Goto(c, "list") /\ UNCHANGED locals)
    BY <1>3 DEF CloseShutdown
  <2>4. QED
    BY <2>1, <2>2, <2>3, ReturnKeeps, GotoKeeps DEF DiskTypes, DaemonTypes, Labels
<1>4. CASE WipeList(c)
  <2>1. Listed \in SUBSET Files BY DEF Listed
  <2>2. DiskTypes' /\ DaemonTypes' BY <1>4 DEF WipeList, DiskTypes, DaemonTypes
  <2>3. ClientTypes' BY <1>4, <2>1 DEF WipeList, ClientTypes, Goto, Labels
  <2>4. Phases' BY <1>4 DEF WipeList, ClientTypes, Phases, Answered, Goto
  <2>5. QED BY <2>2, <2>3, <2>4
<1>5. CASE WipeOne(c)
  <2>1. PICK f \in todo[c] :
          Unlink(f) /\ todo' = [todo EXCEPT ![c] = @ \ {f}]
    BY <1>5 DEF WipeOne
  <2>2. UNCHANGED <<proc, run, issued, pc, doc, first, closing, child, reply, kept>>
    BY <1>5 DEF WipeOne
  <2>3. DiskTypes' BY <2>1 DEF Unlink, DiskTypes
  <2>4. QED BY <2>1, <2>2, <2>3 DEF DaemonTypes, ClientTypes, Phases, Answered
<1>6. CASE WipeDone(c)
  BY <1>6, ReturnKeeps DEF WipeDone, DiskTypes, DaemonTypes
<1>7. QED BY <1>1, <1>2, <1>3, <1>4, <1>5, <1>6 DEF Close

LEMMA TypesRest ==
  ASSUME TypeOK, Phases,
         \/ \E c \in Clients : Invoke(c) \/ AnswerLost(c) \/ Crash(c)
         \/ \E e \in Execs : KillDaemon(e)
  PROVE  TypeOK' /\ Phases'
<1> USE DEF TypeOK, disk, vm
<1>1. CASE \E e \in Execs : KillDaemon(e)
  BY <1>1 DEF KillDaemon, DiskTypes, DaemonTypes, ClientTypes, Phases, Answered, locals
<1>2. ASSUME NEW c \in Clients, StartCheck(c) PROVE TypeOK' /\ Phases'
  BY <1>2, GotoKeeps DEF StartCheck, DiskTypes, DaemonTypes, Labels
<1>3. ASSUME NEW c \in Clients, NEW op \in {"advance", "terminate"}, DriveRead(c, op)
      PROVE  TypeOK' /\ Phases'
  BY <1>3 DEF DriveRead, DiskTypes, DaemonTypes, ClientTypes, Phases, Answered, Goto, Labels
<1>4. ASSUME NEW c \in Clients, NEW remove, CloseRead(c, remove)
      PROVE  TypeOK' /\ Phases'
  BY <1>4 DEF CloseRead, DiskTypes, DaemonTypes, ClientTypes, Phases, Answered, Goto, Labels
<1>5. ASSUME NEW c \in Clients, AnswerLost(c) PROVE TypeOK' /\ Phases'
  BY <1>5, FailKeeps, GotoKeeps DEF AnswerLost, DiskTypes, DaemonTypes, Labels
<1>6. ASSUME NEW c \in Clients, Crash(c) PROVE TypeOK' /\ Phases'
  BY <1>6, ReturnKeeps DEF Crash, DiskTypes, DaemonTypes
<1>7. QED BY <1>1, <1>2, <1>3, <1>4, <1>5, <1>6 DEF Invoke

LEMMA TypesStep == TypeOK /\ Phases /\ [Next]_vars => TypeOK' /\ Phases'
<1> SUFFICES ASSUME TypeOK, Phases, [Next]_vars PROVE TypeOK' /\ Phases'
  OBVIOUS
<1>1. CASE UNCHANGED vars
  BY <1>1 DEF vars, disk, vm, locals, TypeOK, DiskTypes, DaemonTypes, ClientTypes, Phases,
              Answered
<1>2. CASE Next
  BY <1>2, TypesStart, TypesDrive, TypesClose, TypesRest DEF Next, Proceed
<1>3. QED BY <1>1, <1>2

\* Every variable keeps its type.
THEOREM TypeCorrect == Spec => []TypeOK
<1>1. Spec => [](TypeOK /\ Phases)
  BY TypesInit, TypesStep, PTL DEF Spec
<1>2. QED BY <1>1, PTL

-----------------------------------------------------------------------------
(***************************************************************************)
(* The token discipline: one client at a time holds the newest stop of an  *)
(* execution, and one its end.                                             *)
(***************************************************************************)

\* A step after which no client holds an answer it did not hold, and none is
\* about to call from a document other than its own or the live handle.
HandsShrink ==
  \A d \in Clients :
    /\ StopInHand(d)' => StopInHand(d) /\ reply'[d] = reply[d]
    /\ EndInHand(d)' => EndInHand(d) /\ reply'[d] = reply[d]
    /\ Calling(d)' => \/ Calling(d) /\ doc'[d] = doc[d]
                      \/ session.state = "live" /\ doc'[d] = session

LEMMA ReturnShrinks ==
  ASSUME TypeOK, NEW c \in Clients, Return(c)
  PROVE  HandsShrink
BY DEF TypeOK, ClientTypes, Return, Goto, HandsShrink, StopInHand, EndInHand, Calling

LEMMA GotoShrinks ==
  ASSUME TypeOK, NEW c \in Clients,
         NEW label \in Labels \ {"advance", "terminate", "opened", "answered",
                                 "first_evidence", "finalize", "evidence"},
         Goto(c, label), UNCHANGED <<doc, reply>>
  PROVE  HandsShrink
BY DEF TypeOK, ClientTypes, Goto, HandsShrink, StopInHand, EndInHand, Calling

LEMMA FailShrinks ==
  ASSUME TypeOK, NEW c \in Clients, Fail(c)
  PROVE  HandsShrink
BY ReturnShrinks, GotoShrinks DEF Fail, Labels, locals

\* A step that writes no handle and no evidence keeps the invariant.
LEMMA QuietKeeps ==
  ASSUME OwnerInv, HandsShrink,
         UNCHANGED <<run, issued>>,
         session' = session \/ session'.state \notin {"live", "finished"},
         finish' = finish \/ finish' = NoEvidence
  PROVE  Handles' /\ Custody' /\ Ends' /\ EvidenceEarned'
<1> USE DEF OwnerInv
<1>1. Handles' BY DEF Handles, Drivable, HandsShrink
<1>2. Custody' BY DEF Custody, HandsShrink, Answered
<1>3. NoEvidence.exec = NoExec BY DEF NoEvidence
<1>4. Ends'
  <2>1. ASSUME NEW d \in Clients, EndInHand(d)'
        PROVE  /\ run'[Answered(d)'] = "finished"
               /\ finish'.exec # Answered(d)'
               /\ \A o \in Clients \ {d} : EndInHand(o)' => Answered(o)' # Answered(d)'
    <3>1. EndInHand(d) /\ reply'[d] = reply[d] BY <2>1 DEF HandsShrink
    <3>2. /\ run[Answered(d)] = "finished"
          /\ finish.exec # Answered(d)
          /\ \A o \in Clients \ {d} : EndInHand(o) => Answered(o) # Answered(d)
      BY <3>1 DEF Ends
    <3>3. Answered(d) \in Execs BY <3>1 DEF Phases, EndInHand
    <3>4. QED BY <3>1, <3>2, <3>3, <1>3 DEF HandsShrink, Answered
  <2>2. QED BY <2>1 DEF Ends
<1>5. EvidenceEarned'
  <2>1. session'.state = "finished" => run'[session'.exec] = "finished"
    BY DEF EvidenceEarned
  <2>2. finish'.exec # NoExec => run'[finish'.exec] = "finished"
    BY <1>3 DEF EvidenceEarned
  <2>3. QED BY <2>1, <2>2 DEF EvidenceEarned
<1>6. QED BY <1>1, <1>2, <1>4, <1>5

\* An answer goes to a client when no other holds one for that execution.
LEMMA AnswerOwned ==
  ASSUME OwnerInv, NEW c \in Clients, NEW e \in Execs,
         NEW label \in {"opened", "answered"},
         run[e] # "finished",
         \A d \in Clients : StopInHand(d) => Answered(d) # e,
         \/ \E kind \in {"stopped", "terminal"} : StopAt(c, e, kind, label)
         \/ EndOf(c, e, label),
         UNCHANGED disk
  PROVE  Handles' /\ Custody' /\ Ends' /\ EvidenceEarned'
<1> USE DEF OwnerInv
<1>1. /\ \A d \in Clients : EndInHand(d) => Answered(d) # e
      /\ finish.exec # e
      /\ session.state = "finished" => session.exec # e
  <2>1. \A d \in Clients : EndInHand(d) => Answered(d) # e BY DEF Ends
  <2>2. finish.exec # e BY DEF EvidenceEarned
  <2>3. session.state = "finished" => session.exec # e BY DEF EvidenceEarned
  <2>4. QED BY <2>1, <2>2, <2>3
<1>2. /\ pc' = [pc EXCEPT ![c] = label]
      /\ UNCHANGED <<session, stops, finish, socket, doc>>
  BY DEF StopAt, EndOf, Goto, disk
<1>3. CASE \E kind \in {"stopped", "terminal"} : StopAt(c, e, kind, label)
  <2>1. PICK kind \in {"stopped", "terminal"} : StopAt(c, e, kind, label) BY <1>3
  <2>2. /\ issued' = [issued EXCEPT ![e] = @ + 1]
        /\ run' = [run EXCEPT ![e] = kind]
        /\ reply' = [reply EXCEPT ![c] =
                       [event |-> "stopped", exec |-> e, seq |-> issued[e] + 1]]
    BY <2>1 DEF StopAt
  <2>3. /\ \A f \in Execs \ {e} : issued'[f] = issued[f] /\ run'[f] = run[f]
        /\ issued'[e] = issued[e] + 1
        /\ run'[e] = kind
        /\ \A f \in Execs : issued[f] \in Nat
    BY <2>2, BoundsAssumption DEF TypeOK, DaemonTypes
  <2>4. /\ \A d \in Clients \ {c} : reply'[d] = reply[d] /\ pc'[d] = pc[d]
        /\ reply'[c] = [event |-> "stopped", exec |-> e, seq |-> issued[e] + 1]
        /\ pc'[c] = label
    BY <1>2, <2>2 DEF TypeOK, ClientTypes
  <2>5. \A h : Drivable(h) => /\ Drivable(h)'
                              /\ h.exec = e => h.token < issued'[e]
    BY <2>3 DEF Drivable
  <2>6. Handles' BY <1>2, <2>4, <2>5 DEF Handles, Calling
  <2>7. Custody'
    <3> SUFFICES ASSUME NEW d \in Clients, StopInHand(d)'
                 PROVE  /\ reply'[d].seq = issued'[Answered(d)']
                        /\ run'[Answered(d)'] \in {"stopped", "terminal"}
                        /\ session'.state = "live" /\ session'.exec = Answered(d)' =>
                             session'.token < issued'[Answered(d)']
                        /\ \A o \in Clients :
                             Calling(o)' /\ doc'[o].exec = Answered(d)' =>
                               doc'[o].token < issued'[Answered(d)']
                        /\ \A o \in Clients \ {d} :
                             StopInHand(o)' => Answered(o)' # Answered(d)'
      BY DEF Custody
    <3>1. CASE d = c
      <4>1. Answered(d)' = e BY <2>4, <3>1 DEF Answered
      <4>2. \A o \in Clients \ {d} : StopInHand(o)' => Answered(o)' # e
        BY <2>4, <3>1 DEF StopInHand, Answered
      <4>3. \A o \in Clients : Calling(o)' => Calling(o) /\ doc'[o] = doc[o]
        BY <1>2, <2>4 DEF Calling
      <4>4. \A o \in Clients : Calling(o) => Drivable(doc[o]) BY DEF Handles
      <4>5. session.state = "live" => Drivable(session) BY DEF Handles
      <4>6. QED BY <1>2, <2>3, <2>4, <2>5, <3>1, <4>1, <4>2, <4>3, <4>4, <4>5
    <3>2. CASE d # c
      <4>1. StopInHand(d) /\ reply'[d] = reply[d] BY <2>4, <3>2 DEF StopInHand
      <4>2. Answered(d) \in Execs \ {e} BY <4>1 DEF Phases, StopInHand
      <4>3. /\ issued'[Answered(d)] = issued[Answered(d)]
            /\ run'[Answered(d)] = run[Answered(d)]
            /\ Answered(d)' = Answered(d)
        BY <2>3, <4>1, <4>2 DEF Answered
      <4>4. \A o \in Clients : Calling(o)' => Calling(o) /\ doc'[o] = doc[o]
        BY <1>2, <2>4 DEF Calling
      <4>5. \A o \in Clients \ {d} : StopInHand(o)' => Answered(o)' # Answered(d)
        <5>1. ASSUME NEW o \in Clients \ {d}, StopInHand(o)', o # c
              PROVE  Answered(o)' # Answered(d)
          BY <2>4, <4>1, <5>1 DEF Custody, StopInHand, Answered
        <5>2. Answered(c)' = e BY <2>4 DEF Answered
        <5>3. QED BY <5>1, <5>2, <4>2
      <4>6. QED BY <1>2, <4>1, <4>3, <4>4, <4>5 DEF Custody
    <3>3. QED BY <3>1, <3>2
  <2>8. \A d \in Clients : EndInHand(d)' => EndInHand(d) /\ reply'[d] = reply[d]
    BY <2>4 DEF EndInHand
  <2>9. \A d \in Clients : EndInHand(d) => Answered(d) \in Execs \ {e}
    BY <1>1 DEF EndInHand, Phases
  <2>10. Ends' BY <1>2, <2>3, <2>8, <2>9 DEF Ends, Answered
  <2>11. EvidenceEarned' BY <1>1, <1>2, <2>2 DEF EvidenceEarned, TypeOK, DaemonTypes
  <2>12. QED BY <2>6, <2>7, <2>10, <2>11
<1>4. CASE EndOf(c, e, label)
  <2>1. /\ run' = [run EXCEPT ![e] = "finished"]
        /\ reply' = [reply EXCEPT ![c] =
                       [event |-> "finished", exec |-> e, seq |-> issued[e]]]
        /\ UNCHANGED issued
    BY <1>4 DEF EndOf
  <2>2. /\ \A f \in Execs \ {e} : run'[f] = run[f]
        /\ run'[e] = "finished"
    BY <2>1 DEF TypeOK, DaemonTypes
  <2>3. /\ \A d \in Clients \ {c} : reply'[d] = reply[d] /\ pc'[d] = pc[d]
        /\ reply'[c] = [event |-> "finished", exec |-> e, seq |-> issued[e]]
        /\ pc'[c] = label
    BY <1>2, <2>1 DEF TypeOK, ClientTypes
  <2>4. \A d \in Clients :
          /\ StopInHand(d)' => StopInHand(d) /\ reply'[d] = reply[d]
          /\ Calling(d)' => Calling(d) /\ doc'[d] = doc[d]
          /\ EndInHand(d)' /\ d # c => EndInHand(d) /\ reply'[d] = reply[d]
    BY <1>2, <2>3 DEF StopInHand, Calling, EndInHand
  <2>5. Handles' BY <1>2, <2>1, <2>4 DEF Handles, Drivable
  <2>6. \A d \in Clients : StopInHand(d) => Answered(d) \in Execs \ {e}
    BY DEF StopInHand, Phases
  <2>7. Custody' BY <1>2, <2>1, <2>2, <2>4, <2>6 DEF Custody, Answered
  <2>8. \A d \in Clients : EndInHand(d) => Answered(d) \in Execs \ {e}
    BY <1>1 DEF EndInHand, Phases
  <2>9. Ends'
    <3>1. Answered(c)' = e BY <2>3 DEF Answered
    <3>2. \A d \in Clients \ {c} : EndInHand(d)' =>
            Answered(d)' = Answered(d) /\ Answered(d) \in Execs \ {e} /\ EndInHand(d)
      BY <2>4, <2>8 DEF Answered
    <3>3. QED BY <1>1, <1>2, <2>2, <3>1, <3>2 DEF Ends
  <2>10. EvidenceEarned' BY <1>1, <1>2, <2>1 DEF EvidenceEarned, TypeOK, DaemonTypes
  <2>11. QED BY <2>5, <2>7, <2>9, <2>10
<1>5. QED BY <1>3, <1>4

\* A client that holds a stop writes it to the handle.
LEMMA StopWritten ==
  ASSUME OwnerInv, NEW c \in Clients, StopInHand(c),
         session'.state = "live",
         session'.exec = Answered(c),
         session'.seq = reply[c].seq,
         session'.token = reply[c].seq,
         NEW label \in {"first_stop", "history"}, Goto(c, label),
         UNCHANGED <<stops, finish, socket, vm, locals>>
  PROVE  Handles' /\ Custody' /\ Ends' /\ EvidenceEarned'
<1> USE DEF OwnerInv
<1>1. UNCHANGED <<run, issued, reply, doc, finish>> BY DEF vm, locals
<1>2. \A d \in Clients :
        /\ StopInHand(d)' => StopInHand(d) /\ d # c
        /\ EndInHand(d)' => EndInHand(d)
        /\ Calling(d)' => Calling(d)
  BY <1>1 DEF TypeOK, ClientTypes, Goto, StopInHand, EndInHand, Calling
<1>3. Drivable(session)'
  BY <1>1 DEF StopInHand, Phases, Drivable
<1>4. Handles' BY <1>1, <1>2, <1>3 DEF Handles, Drivable
<1>5. \A d \in Clients \ {c} : StopInHand(d) => Answered(d) # Answered(c)
  BY DEF Custody
<1>6. Custody' BY <1>1, <1>2, <1>5 DEF Custody, Answered
<1>7. Ends' BY <1>1, <1>2 DEF Ends, Answered
<1>8. EvidenceEarned' BY <1>1 DEF EvidenceEarned
<1>9. QED BY <1>4, <1>6, <1>7, <1>8

\* A client that holds the end writes the finished handle ...
LEMMA EndWritten ==
  ASSUME OwnerInv, NEW c \in Clients, EndInHand(c),
         session'.state = "finished",
         session'.exec = Answered(c),
         NEW label \in {"first_evidence", "evidence"}, Goto(c, label),
         UNCHANGED <<stops, finish, socket, vm, locals>>
  PROVE  Handles' /\ Custody' /\ Ends' /\ EvidenceEarned'
<1> USE DEF OwnerInv
<1>1. UNCHANGED <<run, issued, reply, doc, finish>> BY DEF vm, locals
<1>2. \A d \in Clients :
        /\ StopInHand(d)' => StopInHand(d)
        /\ EndInHand(d)' => EndInHand(d)
        /\ Calling(d)' => Calling(d)
  BY <1>1 DEF TypeOK, ClientTypes, Goto, StopInHand, EndInHand, Calling
<1>3. Handles' BY <1>1, <1>2 DEF Handles, Drivable
<1>4. Custody' BY <1>1, <1>2 DEF Custody, Answered
<1>5. Ends' BY <1>1, <1>2 DEF Ends, Answered
<1>6. run[Answered(c)] = "finished" BY DEF Ends
<1>7. EvidenceEarned' BY <1>1, <1>6 DEF EvidenceEarned
<1>8. QED BY <1>3, <1>4, <1>5, <1>7

\* ... and then the evidence.
LEMMA EvidenceWritten ==
  ASSUME OwnerInv, NEW c \in Clients, EndInHand(c),
         pc[c] \in {"first_evidence", "evidence"},
         finish'.exec = Answered(c),
         NEW label \in {"retire", "farewell"}, Goto(c, label),
         UNCHANGED <<session, stops, socket, vm, locals>>
  PROVE  Handles' /\ Custody' /\ Ends' /\ EvidenceEarned'
<1> USE DEF OwnerInv
<1>1. UNCHANGED <<run, issued, reply, doc, session>> BY DEF vm, locals
<1>2. \A d \in Clients :
        /\ StopInHand(d)' => StopInHand(d)
        /\ EndInHand(d)' => EndInHand(d) /\ d # c
        /\ Calling(d)' => Calling(d)
  BY <1>1 DEF TypeOK, ClientTypes, Goto, StopInHand, EndInHand, Calling
<1>3. Handles' BY <1>1, <1>2 DEF Handles, Drivable
<1>4. Custody' BY <1>1, <1>2 DEF Custody, Answered
<1>5. /\ run[Answered(c)] = "finished"
      /\ Answered(c) \in Execs
      /\ \A d \in Clients \ {c} : EndInHand(d) => Answered(d) # Answered(c)
  BY DEF Ends, EndInHand, Phases
<1>6. Ends' BY <1>1, <1>2, <1>5 DEF Ends, Answered
<1>7. EvidenceEarned' BY <1>1, <1>5 DEF EvidenceEarned
<1>8. QED BY <1>3, <1>4, <1>6, <1>7

LEMMA OwnerStart ==
  ASSUME OwnerInv, NEW c \in Clients, Start(c)
  PROVE  Handles' /\ Custody' /\ Ends' /\ EvidenceEarned'
<1> USE DEF disk, vm
<1> TypeOK BY DEF OwnerInv
<1>1. CASE StartSpawn(c)
  <2>1. HandsShrink BY <1>1, GotoShrinks DEF StartSpawn, Labels
  <2>2. QED BY <1>1, <2>1, QuietKeeps DEF StartSpawn
<1>2. CASE StartSpawnFails(c)
  BY <1>2, ReturnShrinks, QuietKeeps DEF StartSpawnFails
<1>3. CASE StartWaitFails(c)
  BY <1>3, ReturnShrinks, QuietKeeps DEF StartWaitFails
<1>4. CASE StartCall(c)
  <2>1. PICK e \in Execs :
          /\ run[e] = "none"
          /\ \/ \E kind \in {"stopped", "terminal"} : StopAt(c, e, kind, "opened")
             \/ EndOf(c, e, "opened")
    BY <1>4 DEF StartCall, Reached
  <2>2. UNCHANGED disk BY <1>4 DEF StartCall
  <2>3. \A d \in Clients : StopInHand(d) => Answered(d) # e
    BY <2>1 DEF OwnerInv, Custody
  <2>4. QED BY <2>1, <2>2, <2>3, AnswerOwned
<1>5. CASE StartCallFails(c)
  <2>1. HandsShrink BY <1>5, GotoShrinks DEF StartCallFails, Labels, locals
  <2>2. QED BY <1>5, <2>1, QuietKeeps DEF StartCallFails
<1>6. CASE StartLive(c)
  BY <1>6, StopWritten DEF StartLive, StopInHand, Answered
<1>7. CASE StartHistory(c)
  BY <1>7, ReturnShrinks, QuietKeeps DEF StartHistory
<1>8. CASE StartFinished(c)
  BY <1>8, EndWritten DEF StartFinished, EndInHand, Answered
<1>9. CASE StartEvidence(c)
  <2>1. EndInHand(c) BY <1>9 DEF StartEvidence, EndInHand, OwnerInv, Phases
  <2>2. QED BY <1>9, <2>1, EvidenceWritten DEF StartEvidence, Answered
<1>10. CASE StartRetire(c)
  BY <1>10, ReturnShrinks, QuietKeeps DEF StartRetire
<1>11. QED
  BY <1>1, <1>2, <1>3, <1>4, <1>5, <1>6, <1>7, <1>8, <1>9, <1>10 DEF Start

LEMMA OwnerDrive ==
  ASSUME OwnerInv, NEW c \in Clients, Drive(c)
  PROVE  Handles' /\ Custody' /\ Ends' /\ EvidenceEarned'
<1> USE DEF disk, vm
<1> TypeOK BY DEF OwnerInv
<1>1. CASE DriveCall(c)
  <2>1. PICK e \in Execs :
          /\ Accepts(c, e)
          /\ \/ \E kind \in {"stopped", "terminal"} : StopAt(c, e, kind, "answered")
             \/ EndOf(c, e, "answered")
    BY <1>1 DEF DriveCall, Reached
  <2>2. UNCHANGED disk BY <1>1 DEF DriveCall
  <2>3. /\ Calling(c)
        /\ doc[c].exec = e
        /\ doc[c].token = issued[e]
        /\ run[e] # "finished"
    BY <1>1, <2>1 DEF DriveCall, Accepts, Owns, Calling
  <2>4. issued[e] \in Nat BY BoundsAssumption DEF OwnerInv, TypeOK, DaemonTypes
  <2>5. \A d \in Clients : StopInHand(d) => Answered(d) # e
    BY <2>3, <2>4 DEF OwnerInv, Custody
  <2>6. QED BY <2>1, <2>2, <2>3, <2>5, AnswerOwned
<1>2. CASE DriveCallFails(c)
  BY <1>2, FailShrinks, QuietKeeps DEF DriveCallFails
<1>3. CASE AbsorbStop(c)
  <2>1. /\ StopInHand(c)
        /\ doc[c].exec = Answered(c)
        /\ doc[c].state = "live"
    BY <1>3 DEF AbsorbStop, StopInHand, OwnerInv, Phases
  <2>2. QED BY <1>3, <2>1, StopWritten DEF AbsorbStop
<1>4. CASE ReadStops(c)
  <2>1. HandsShrink BY <1>4, GotoShrinks DEF ReadStops, Labels
  <2>2. QED BY <1>4, <2>1, QuietKeeps DEF ReadStops
<1>5. CASE AppendStop(c)
  BY <1>5, ReturnShrinks, QuietKeeps DEF AppendStop
<1>6. CASE ReadAllStops(c)
  <2>1. HandsShrink
    BY <1>6 DEF ReadAllStops, TypeOK, ClientTypes, Goto, HandsShrink, StopInHand,
                EndInHand, Calling
  <2>2. QED BY <1>6, <2>1, QuietKeeps DEF ReadAllStops
<1>7. CASE FinishHandle(c)
  <2>1. EndInHand(c) /\ doc[c].exec = Answered(c)
    BY <1>7 DEF FinishHandle, EndInHand, OwnerInv, Phases
  <2>2. QED BY <1>7, <2>1, EndWritten DEF FinishHandle
<1>8. CASE FinishEvidence(c)
  <2>1. EndInHand(c) BY <1>8 DEF FinishEvidence, EndInHand, OwnerInv, Phases
  <2>2. QED BY <1>8, <2>1, EvidenceWritten DEF FinishEvidence, Answered
<1>9. CASE FinishShutdown(c)
  <2>1. HandsShrink
    BY <1>9, ReturnShrinks, GotoShrinks DEF FinishShutdown, Labels, locals
  <2>2. QED BY <1>9, <2>1, QuietKeeps DEF FinishShutdown
<1>10. QED
  BY <1>1, <1>2, <1>3, <1>4, <1>5, <1>6, <1>7, <1>8, <1>9 DEF Drive

LEMMA OwnerClose ==
  ASSUME OwnerInv, NEW c \in Clients, Close(c)
  PROVE  Handles' /\ Custody' /\ Ends' /\ EvidenceEarned'
<1> USE DEF disk, vm
<1> TypeOK BY DEF OwnerInv
<1>1. CASE CloseReread(c)
  <2>1. HandsShrink
    <3>1. CASE /\ session.state = "live"
               /\ doc' = [doc EXCEPT ![c] = session]
               /\ Goto(c, "terminate")
               /\ UNCHANGED <<first, closing, child, reply, kept, todo>>
      BY <3>1 DEF TypeOK, ClientTypes, Goto, HandsShrink, StopInHand, EndInHand, Calling
    <3>2. QED BY <1>1, <3>1, FailShrinks, ReturnShrinks DEF CloseReread
  <2>2. QED BY <1>1, <2>1, QuietKeeps DEF CloseReread
<1>2. CASE CloseMark(c)
  <2>1. HandsShrink BY <1>2, GotoShrinks DEF CloseMark, Labels, locals
  <2>2. QED BY <1>2, <2>1, QuietKeeps DEF CloseMark
<1>3. CASE CloseShutdown(c)
  <2>1. HandsShrink
    BY <1>3, ReturnShrinks, GotoShrinks DEF CloseShutdown, Labels, locals
  <2>2. QED BY <1>3, <2>1, QuietKeeps DEF CloseShutdown
<1>4. CASE WipeList(c)
  <2>1. HandsShrink BY <1>4, GotoShrinks DEF WipeList, Labels
  <2>2. QED BY <1>4, <2>1, QuietKeeps DEF WipeList
<1>5. CASE WipeOne(c)
  <2>1. UNCHANGED <<run, issued, pc, reply, doc>> BY <1>5 DEF WipeOne
  <2>2. HandsShrink BY <2>1 DEF HandsShrink, StopInHand, EndInHand, Calling
  <2>3. PICK f \in todo[c] : Unlink(f) BY <1>5 DEF WipeOne
  <2>4. /\ session' = session \/ session' = Absent
        /\ finish' = finish \/ finish' = NoEvidence
    BY <2>3 DEF Unlink
  <2>5. Absent.state = "absent" BY DEF Absent
  <2>6. QED BY <2>1, <2>2, <2>4, <2>5, QuietKeeps
<1>6. CASE WipeDone(c)
  BY <1>6, ReturnShrinks, QuietKeeps DEF WipeDone
<1>7. QED BY <1>1, <1>2, <1>3, <1>4, <1>5, <1>6 DEF Close

LEMMA OwnerRest ==
  ASSUME OwnerInv,
         \/ \E c \in Clients : Invoke(c) \/ AnswerLost(c) \/ Crash(c)
         \/ \E e \in Execs : KillDaemon(e)
  PROVE  Handles' /\ Custody' /\ Ends' /\ EvidenceEarned'
<1> USE DEF disk, vm
<1> TypeOK BY DEF OwnerInv
<1>1. CASE \E e \in Execs : KillDaemon(e)
  <2>1. UNCHANGED <<disk, run, issued, pc, locals>> BY <1>1 DEF KillDaemon
  <2>2. HandsShrink BY <2>1 DEF HandsShrink, StopInHand, EndInHand, Calling, locals
  <2>3. QED BY <2>1, <2>2, QuietKeeps
<1>2. ASSUME NEW c \in Clients, StartCheck(c)
      PROVE  Handles' /\ Custody' /\ Ends' /\ EvidenceEarned'
  <2>1. HandsShrink BY <1>2, GotoShrinks DEF StartCheck, Labels, locals
  <2>2. QED BY <1>2, <2>1, QuietKeeps DEF StartCheck
<1>3. ASSUME NEW c \in Clients, NEW op \in {"advance", "terminate"}, DriveRead(c, op)
      PROVE  Handles' /\ Custody' /\ Ends' /\ EvidenceEarned'
  <2>1. HandsShrink
    BY <1>3 DEF DriveRead, TypeOK, ClientTypes, Goto, HandsShrink, StopInHand,
                EndInHand, Calling
  <2>2. QED BY <1>3, <2>1, QuietKeeps DEF DriveRead
<1>4. ASSUME NEW c \in Clients, NEW remove, CloseRead(c, remove)
      PROVE  Handles' /\ Custody' /\ Ends' /\ EvidenceEarned'
  <2>1. PICK label \in {"list", "reread", "mark"} : Goto(c, label)
    BY <1>4 DEF CloseRead
  <2>2. HandsShrink BY <1>4, <2>1, GotoShrinks DEF CloseRead, Labels
  <2>3. QED BY <1>4, <2>2, QuietKeeps DEF CloseRead
<1>5. ASSUME NEW c \in Clients, AnswerLost(c)
      PROVE  Handles' /\ Custody' /\ Ends' /\ EvidenceEarned'
  <2>1. HandsShrink
    BY <1>5, FailShrinks, GotoShrinks DEF AnswerLost, Labels, locals
  <2>2. QED BY <1>5, <2>1, QuietKeeps DEF AnswerLost
<1>6. ASSUME NEW c \in Clients, Crash(c)
      PROVE  Handles' /\ Custody' /\ Ends' /\ EvidenceEarned'
  BY <1>6, ReturnShrinks, QuietKeeps DEF Crash
<1>7. QED BY <1>1, <1>2, <1>3, <1>4, <1>5, <1>6 DEF Invoke

LEMMA OwnerStep == OwnerInv /\ [Next]_vars => OwnerInv'
<1> SUFFICES ASSUME OwnerInv, [Next]_vars PROVE OwnerInv'
  OBVIOUS
<1>1. TypeOK' /\ Phases' BY TypesStep DEF OwnerInv
<1>2. Handles' /\ Custody' /\ Ends' /\ EvidenceEarned'
  <2>1. CASE UNCHANGED vars
    <3>1. UNCHANGED <<session, finish, run, issued, pc, doc, reply>>
      BY <2>1 DEF vars, disk, vm, locals
    <3>2. HandsShrink BY <3>1 DEF HandsShrink, StopInHand, EndInHand, Calling
    <3>3. QED BY <3>1, <3>2, QuietKeeps
  <2>2. CASE Next
    BY <2>2, OwnerStart, OwnerDrive, OwnerClose, OwnerRest DEF Next, Proceed
  <2>3. QED BY <2>1, <2>2
<1>3. QED BY <1>1, <1>2 DEF OwnerInv

LEMMA OwnerInit == Init => OwnerInv
<1> SUFFICES ASSUME Init PROVE OwnerInv
  OBVIOUS
<1>1. TypeOK /\ Phases BY TypesInit
<1>2. /\ session.state = "absent"
      /\ finish = NoEvidence /\ finish.exec = NoExec
      /\ \A c \in Clients : pc[c] = "idle"
  BY DEF Init, Absent, NoEvidence
<1>3. Handles BY <1>2 DEF Handles, Calling
<1>4. Custody BY <1>2 DEF Custody, StopInHand
<1>5. Ends BY <1>2 DEF Ends, EndInHand
<1>6. EvidenceEarned BY <1>2 DEF EvidenceEarned
<1>7. QED BY <1>1, <1>3, <1>4, <1>5, <1>6 DEF OwnerInv

\* The part of the invariant that speaks of session.json, finish.json and the
\* daemon: what the single-owner token check alone guarantees.
THEOREM OwnerAlways == Spec => []OwnerInv
BY OwnerInit, OwnerStep, PTL DEF Spec

\* An execution has ended before its evidence is written (EvidenceEarned).
THEOREM EvidenceIsEarned == Spec => []EvidenceEarned
<1>1. OwnerInv => EvidenceEarned BY DEF OwnerInv
<1>2. QED BY <1>1, OwnerAlways, PTL

\* The steps that write session.json: a stop in hand, an end, a mark, a wipe.
LEMMA HandleWriters ==
  ASSUME OwnerInv, Next, session' # session, session'.state = "live"
  PROVE  \E c \in Clients : /\ StopInHand(c)
                            /\ session'.exec = Answered(c)
                            /\ session'.seq = reply[c].seq
<1> USE DEF disk
<1>1. ASSUME NEW c \in Clients, Start(c)
      PROVE  \E d \in Clients : /\ StopInHand(d)
                                /\ session'.exec = Answered(d)
                                /\ session'.seq = reply[d].seq
  <2>1. StartLive(c)
    BY <1>1 DEF Start, StartSpawn, StartSpawnFails, StartWaitFails, StartCall,
                StartCallFails, StartHistory, StartFinished, StartEvidence, StartRetire
  <2>2. QED BY <2>1 DEF StartLive, StopInHand, Answered
<1>2. ASSUME NEW c \in Clients, Drive(c)
      PROVE  \E d \in Clients : /\ StopInHand(d)
                                /\ session'.exec = Answered(d)
                                /\ session'.seq = reply[d].seq
  <2>1. AbsorbStop(c)
    BY <1>2 DEF Drive, DriveCall, DriveCallFails, ReadStops, AppendStop, ReadAllStops,
                FinishHandle, FinishEvidence, FinishShutdown
  <2>2. QED BY <2>1 DEF AbsorbStop, StopInHand, Answered, OwnerInv, Phases
<1>3. ASSUME NEW c \in Clients, Close(c) PROVE FALSE
  <2>1. Absent.state # "live" BY DEF Absent
  <2>2. QED
    BY <1>3, <2>1 DEF Close, CloseReread, CloseMark, CloseShutdown, WipeList, WipeOne,
                      WipeDone, Unlink
<1>4. ASSUME NEW c \in Clients, Invoke(c) \/ AnswerLost(c) \/ Crash(c) PROVE FALSE
  BY <1>4 DEF Invoke, StartCheck, DriveRead, CloseRead, AnswerLost, Crash
<1>5. ASSUME NEW e \in Execs, KillDaemon(e) PROVE FALSE
  BY <1>5 DEF KillDaemon
<1>6. QED BY <1>1, <1>2, <1>3, <1>4, <1>5 DEF Next, Proceed

\* However commands interleave, fail or die, the live handle of an execution
\* only moves forward (HandleNeverRegresses): no lock protects session.json,
\* the single-owner token alone does.
THEOREM HandleForward == Spec => HandleNeverRegresses
<1>1. ASSUME OwnerInv, [Next]_vars, session' # session,
             session.state = "live", session'.state = "live",
             session'.exec = session.exec
      PROVE  session'.seq >= session.seq
  <2>1. Next BY <1>1 DEF vars, disk
  <2>2. PICK c \in Clients : /\ StopInHand(c)
                             /\ session'.exec = Answered(c)
                             /\ session'.seq = reply[c].seq
    BY <1>1, <2>1, HandleWriters
  <2>3. /\ session'.seq = issued[session.exec]
        /\ session.token < issued[session.exec]
    BY <1>1, <2>2 DEF OwnerInv, Custody
  <2>4. /\ session.exec \in Execs
        /\ session.token = session.seq
        /\ session.token \in 1..issued[session.exec]
    BY <1>1 DEF OwnerInv, Handles, Drivable
  <2>5. issued[session.exec] \in Nat
    BY <1>1, <2>4, BoundsAssumption DEF OwnerInv, TypeOK, DaemonTypes
  <2>6. QED BY <2>3, <2>4, <2>5
<1>2. OwnerInv /\ [Next]_vars =>
        [/\ session.state = "live"
         /\ session'.state = "live"
         /\ session'.exec = session.exec
         => session'.seq >= session.seq]_session
  BY <1>1
<1>3. QED BY <1>2, OwnerAlways, PTL DEF Spec, HandleNeverRegresses

\* The steps that write finish.json: an end in hand, or a wipe.
LEMMA EvidenceWriters ==
  ASSUME OwnerInv, Next, finish' # finish, finish' # NoEvidence
  PROVE  \E c \in Clients : EndInHand(c) /\ finish'.exec = Answered(c)
<1> USE DEF disk
<1>1. ASSUME NEW c \in Clients, Start(c)
      PROVE  \E d \in Clients : EndInHand(d) /\ finish'.exec = Answered(d)
  <2>1. StartEvidence(c)
    BY <1>1 DEF Start, StartSpawn, StartSpawnFails, StartWaitFails, StartCall,
                StartCallFails, StartLive, StartHistory, StartFinished, StartRetire
  <2>2. QED BY <2>1 DEF StartEvidence, EndInHand, Answered, OwnerInv, Phases
<1>2. ASSUME NEW c \in Clients, Drive(c)
      PROVE  \E d \in Clients : EndInHand(d) /\ finish'.exec = Answered(d)
  <2>1. FinishEvidence(c)
    BY <1>2 DEF Drive, DriveCall, DriveCallFails, AbsorbStop, ReadStops, AppendStop,
                ReadAllStops, FinishHandle, FinishShutdown
  <2>2. QED BY <2>1 DEF FinishEvidence, EndInHand, Answered, OwnerInv, Phases
<1>3. ASSUME NEW c \in Clients, Close(c) PROVE FALSE
  BY <1>3 DEF Close, CloseReread, CloseMark, CloseShutdown, WipeList, WipeOne, WipeDone,
              Unlink
<1>4. ASSUME NEW c \in Clients, Invoke(c) \/ AnswerLost(c) \/ Crash(c) PROVE FALSE
  BY <1>4 DEF Invoke, StartCheck, DriveRead, CloseRead, AnswerLost, Crash
<1>5. ASSUME NEW e \in Execs, KillDaemon(e) PROVE FALSE
  BY <1>5 DEF KillDaemon
<1>6. QED BY <1>1, <1>2, <1>3, <1>4, <1>5 DEF Next, Proceed

\* The terminal evidence of an execution is written once (EvidenceImmutable),
\* whichever commands race to end it and whichever of them die.
THEOREM EvidenceWrittenOnce == Spec => EvidenceImmutable
<1>1. ASSUME OwnerInv, [Next]_vars, finish' # finish
      PROVE  finish'.exec # finish.exec
  <2>1. Next BY <1>1 DEF vars, disk
  <2>2. CASE finish' = NoEvidence
    <3>1. finish'.exec = NoExec BY <2>2 DEF NoEvidence
    <3>2. finish.exec = NoExec => finish = NoEvidence BY <1>1 DEF OwnerInv, Ends
    <3>3. QED BY <1>1, <2>2, <3>1, <3>2
  <2>3. CASE finish' # NoEvidence
    <3>1. PICK c \in Clients : EndInHand(c) /\ finish'.exec = Answered(c)
      BY <1>1, <2>1, <2>3, EvidenceWriters
    <3>2. finish.exec # Answered(c) BY <1>1, <3>1 DEF OwnerInv, Ends
    <3>3. QED BY <3>1, <3>2
  <2>4. QED BY <2>2, <2>3
<1>2. OwnerInv /\ [Next]_vars => [finish'.exec = finish.exec => finish' = finish]_finish
  BY <1>1
<1>3. QED BY <1>2, OwnerAlways, PTL DEF Spec, EvidenceImmutable
=============================================================================
