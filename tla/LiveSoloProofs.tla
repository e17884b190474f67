--------------------------- MODULE LiveSoloProofs ---------------------------
(***************************************************************************)
(* LiveSession when one client at a time uses the directory: whatever      *)
(* fails, and however a command dies half way, the files only do what      *)
(* LiveLedger allows.  When nothing is lost and no client dies, they also  *)
(* hold the whole history.                                                 *)
(***************************************************************************)
EXTENDS LiveHistoryProofs, SequenceTheorems

\* Daemons are spawned in order, and one that made a stop was started.
Births ==
  /\ \A d, e \in Execs : d < e /\ proc[e] # "unborn" => proc[d] # "unborn"
  /\ \A e \in Execs : run[e] # "none" => proc[e] # "unborn"
  /\ \A e \in Execs : run[e] = "none" => issued[e] = 0

\* The live handle drives the newest execution.
Newest ==
  /\ session.state = "absent" => session = Absent
  /\ session.state = "live" =>
       \A d \in Execs : run[d] # "none" => d <= session.exec

Shows(state, c) == session.state = state /\ session.exec = Answered(c)

\* start_session works where there is no handle, on the newest daemon.
Starting(c) ==
  /\ pc[c] \in {"spawn", "begin", "opened"} => session = Absent
  /\ pc[c] \in {"begin", "opened", "first_evidence", "retire"} =>
       child[c] \in Execs /\ proc[child[c]] # "unborn"
  /\ pc[c] \in {"begin", "opened"} =>
       \A d \in Execs : proc[d] # "unborn" => d <= child[c]
  /\ pc[c] = "begin" => socket = child[c]
  /\ pc[c] = "opened" =>
       /\ Answered(c) = child[c]
       /\ reply[c].event = "stopped" => reply[c].seq = 1
  /\ pc[c] = "first_stop" => Shows("live", c) /\ session.seq = 1 /\ reply[c].seq = 1
  /\ pc[c] = "first_evidence" => Shows("finished", c) /\ session.seq = 0

\* A drive works on the handle as it is, and on the history as it is.
Driving(c) ==
  /\ pc[c] \in {"advance", "terminate", "answered", "finalize"} =>
       session.state = "live" /\ doc[c] = session
  /\ pc[c] = "answered" /\ reply[c].event = "stopped" =>
       reply[c].seq = session.seq + 1
  /\ pc[c] \in {"history", "append"} =>
       Shows("live", c) /\ session.seq = reply[c].seq /\ session.seq # 1
  /\ pc[c] \in {"append", "finalize", "evidence"} => kept[c] = stops
  /\ pc[c] = "evidence" => Shows("finished", c) /\ session.seq # 0
  /\ pc[c] = "farewell" => session.state = "finished"

\* A close marks the document it read, and removes the evidence before it.
Ending(c) ==
  /\ pc[c] \in {"idle", "advance"} => closing[c] = "no"
  /\ pc[c] \in {"reread", "mark"} => closing[c] # "no"
  /\ closing[c] # "no" /\ pc[c] \in {"reread", "terminate", "answered", "mark"} =>
       first[c] = session /\ session.state # "absent"
  /\ pc[c] \in {"linger", "list", "wipe"} => session.state # "live"
  /\ pc[c] = "wipe" =>
       /\ "finish.json" \notin todo[c] => finish = NoEvidence
       /\ "session.json" \notin todo[c] => session = Absent

\* The inductive invariant for one client, any faults.
SoloInv ==
  /\ IInv
  /\ Births
  /\ Newest
  /\ \A c \in Clients : Starting(c) /\ Driving(c) /\ Ending(c)
  /\ HistoryOrdered

\* The first n stops of an execution, as stops.json keeps them.
Prefix(e, n) == Bounded([i \in 1..n |-> [exec |-> e, seq |-> i]])

\* Where the newest stop is still to be recorded.
Unrecorded(c) ==
  \/ pc[c] = "answered" /\ reply[c].event = "stopped"
  \/ pc[c] \in {"first_stop", "history", "append"}

Recorded(c) ==
  /\ session.state = "absent" /\ pc[c] # "wipe" => stops = <<>>
  /\ pc[c] = "wipe" /\ "stops.json" \notin todo[c] => stops = <<>>
  /\ Unrecorded(c) =>
       /\ reply[c].seq = issued[session.exec]
       /\ stops = Prefix(session.exec, issued[session.exec] - 1)
  /\ session.state # "absent" /\ pc[c] # "wipe" /\ ~Unrecorded(c) =>
       stops = AllStops(session.exec)
  /\ pc[c] \in {"opened", "first_evidence"} /\ reply[c].event = "finished" =>
       issued[Answered(c)] = 0

\* The inductive invariant for one client when only daemons die.
WholeInv ==
  /\ SoloInv
  /\ \A c \in Clients : Recorded(c)
  /\ EvidenceComplete
-----------------------------------------------------------------------------
USE DEF Execs, NoExec

\* What the part of SoloInv that is new says, for the one client c.
Solo(c) ==
  Births /\ Newest /\ Starting(c) /\ Driving(c) /\ Ending(c) /\ HistoryOrdered

LEMMA SoloIs ==
  ASSUME NEW c, Clients = {c}
  PROVE  /\ SoloInv <=> IInv /\ Solo(c)
         /\ SoloInv' <=> IInv' /\ Solo(c)'
BY DEF SoloInv, Solo

\* The types of what c works on, by name.
LEMMA SoloTypes ==
  ASSUME TypeOK, NEW c \in Clients
  PROVE  /\ pc \in [Clients -> Labels]
         /\ closing \in [Clients -> {"no", "keep", "remove"}]
         /\ doc \in [Clients -> Handle] /\ first \in [Clients -> Handle]
         /\ child \in [Clients -> 0..MaxExecs]
         /\ reply \in [Clients -> Reply]
         /\ kept \in [Clients -> Seq(Stop)]
         /\ todo \in [Clients -> SUBSET Files]
BY DEF TypeOK, ClientTypes

\* Daemons that die, or are not touched, leave the births as they are.
LEMMA BirthsKept ==
  ASSUME Births, UNCHANGED <<run, issued>>,
         \A e \in Execs : proc'[e] = "unborn" <=> proc[e] = "unborn"
  PROVE  Births'
BY DEF Births

\* A history that is left alone, or removed, stays in order.
LEMMA OrderKept ==
  ASSUME HistoryOrdered, stops' \in {stops, <<>>}
  PROVE  HistoryOrdered'
BY DEF HistoryOrdered

\* A client that returns leaves nothing to say about what it was doing.
LEMMA SoloReturn ==
  ASSUME TypeOK, NEW c \in Clients, Return(c)
  PROVE  Starting(c)' /\ Driving(c)' /\ Ending(c)'
<1>1. pc'[c] = "idle" /\ closing'[c] = "no"
  BY SoloTypes DEF Return, Goto
<1>2. QED BY <1>1 DEF Starting, Driving, Ending

\* The answer of an execution that was not driven before, or of the one the
\* handle drives, changes no file.
LEMMA SoloAnswer ==
  ASSUME NEW c, Clients = {c}, IInv, Solo(c), NEW e \in Execs,
         NEW label \in {"opened", "answered"},
         label = "opened" => run[e] = "none" /\ pc[c] = "begin" /\ socket = e,
         label = "answered" => pc[c] \in {"advance", "terminate"} /\ Owns(c, e),
         \/ \E kind \in {"stopped", "terminal"} : StopAt(c, e, kind, label)
         \/ EndOf(c, e, label),
         proc[e] # "unborn",
         UNCHANGED <<disk, proc>>
  PROVE  Solo(c)'
<1> c \in Clients OBVIOUS
<1> TypeOK BY DEF IInv, OwnerInv
<1>1. /\ UNCHANGED <<session, stops, finish, socket, proc, doc, first, closing, child, kept, todo>>
      /\ pc'[c] = label
  BY SoloTypes DEF StopAt, EndOf, Goto, disk
<1>2. /\ issued \in [Execs -> 0..MaxStops]
      /\ run \in [Execs -> {"none", "stopped", "terminal", "finished"}]
  BY DEF TypeOK, DaemonTypes
<1>3. \/ /\ reply'[c] = [event |-> "stopped", exec |-> e, seq |-> issued[e] + 1]
         /\ issued' = [issued EXCEPT ![e] = @ + 1]
         /\ \E kind \in {"stopped", "terminal"} : run' = [run EXCEPT ![e] = kind]
      \/ /\ reply'[c] = [event |-> "finished", exec |-> e, seq |-> issued[e]]
         /\ issued' = issued
         /\ run' = [run EXCEPT ![e] = "finished"]
  BY SoloTypes DEF StopAt, EndOf
<1>4. Births'
  <2>1. /\ run'[e] # "none"
        /\ \A d \in Execs \ {e} : run'[d] = run[d] /\ issued'[d] = issued[d]
    BY <1>2, <1>3
  <2>2. QED BY <1>1, <2>1 DEF Births, Solo
<1>5. HistoryOrdered' BY <1>1, OrderKept DEF Solo
<1>6. CASE label = "opened"
  <2>1. Newest' BY <1>1, <1>6 DEF Solo, Newest, Starting, Absent
  <2>2. Starting(c)'
    BY <1>1, <1>2, <1>3, <1>6 DEF Solo, Starting, Births, Answered
  <2>3. Driving(c)' /\ Ending(c)' BY <1>1, <1>6 DEF Driving, Ending
  <2>4. QED BY <1>4, <1>5, <2>1, <2>2, <2>3 DEF Solo
<1>7. CASE label = "answered"
  <2>1. /\ session.state = "live" /\ doc[c] = session
        /\ session.exec = e /\ session.seq = issued[e]
    BY <1>7 DEF Solo, Driving, Owns, IInv, OwnerInv, Handles, Drivable
  <2>2. run[e] # "none"
    <3>1. session.token \in 1..issued[e] /\ issued[e] \in Nat
      BY <1>2, <2>1, BoundsAssumption DEF IInv, OwnerInv, Handles, Drivable
    <3>2. QED BY <3>1 DEF Solo, Births
  <2>3. Newest'
    <3>1. \A d \in Execs : run'[d] # "none" => run[d] # "none"
      BY <1>2, <1>3, <2>2
    <3>2. QED BY <1>1, <3>1 DEF Solo, Newest
  <2>4. Starting(c)' BY <1>1, <1>7 DEF Starting
  <2>5. Driving(c)' BY <1>1, <1>3, <1>7, <2>1 DEF Driving
  <2>6. Ending(c)' BY <1>1, <1>7 DEF Solo, Ending
  <2>7. QED BY <1>4, <1>5, <2>3, <2>4, <2>5, <2>6 DEF Solo
<1>8. QED BY <1>6, <1>7

\* A step of c that writes no file and returns.
LEMMA SoloQuits ==
  ASSUME NEW c, Clients = {c}, IInv, Solo(c), Return(c),
         UNCHANGED <<session, stops, run, issued>>,
         \A e \in Execs : proc'[e] = "unborn" <=> proc[e] = "unborn"
  PROVE  Solo(c)'
<1>1. TypeOK /\ c \in Clients BY DEF IInv, OwnerInv
<1>2. Births' BY BirthsKept DEF Solo
<1>3. HistoryOrdered' BY OrderKept DEF Solo
<1>4. Newest' BY DEF Solo, Newest
<1>5. QED BY <1>1, <1>2, <1>3, <1>4, SoloReturn DEF Solo

\* A step of c that writes no file of the session and goes where nothing is
\* said of it but what close_session knows.
LEMMA SoloMoves ==
  ASSUME NEW c, Clients = {c}, IInv, Solo(c),
         NEW label \in {"retire", "linger", "list", "mark"}, Goto(c, label),
         UNCHANGED <<session, stops, finish, run, issued, locals>>,
         label = "retire" => child[c] \in Execs /\ proc[child[c]] # "unborn",
         label = "mark" => closing[c] # "no" /\ first[c] = session /\ session.state # "absent",
         label \in {"linger", "list"} => session.state # "live",
         \A e \in Execs : proc'[e] = "unborn" <=> proc[e] = "unborn"
  PROVE  Solo(c)'
<1>1. TypeOK /\ c \in Clients BY DEF IInv, OwnerInv
<1>2. Births' BY BirthsKept DEF Solo
<1>3. HistoryOrdered' BY OrderKept DEF Solo
<1>4. Newest' BY DEF Solo, Newest
<1>5. pc'[c] = label /\ UNCHANGED <<closing, first, child>>
  BY <1>1, SoloTypes DEF Goto, locals
<1>6. Starting(c)' /\ Driving(c)' BY <1>5 DEF Starting, Driving
<1>7. Ending(c)' BY <1>5 DEF Ending
<1>8. QED BY <1>2, <1>3, <1>4, <1>6, <1>7 DEF Solo

LEMMA SoloFails ==
  ASSUME NEW c, Clients = {c}, IInv, Solo(c), Fail(c),
         pc[c] \in {"reread", "advance", "terminate", "answered"},
         UNCHANGED <<disk, vm>>
  PROVE  Solo(c)'
BY SoloQuits, SoloMoves DEF Fail, Solo, Ending, disk, vm

LEMMA SoloStart ==
  ASSUME NEW c, Clients = {c}, IInv, IInv', Solo(c), Start(c)
  PROVE  Solo(c)'
<1> c \in Clients OBVIOUS
<1> TypeOK BY DEF IInv, OwnerInv
<1> proc \in [Execs -> {"unborn", "up", "down"}] BY DEF TypeOK, DaemonTypes
<1>1. CASE StartSpawn(c)
  <2>1. PICK e \in Execs :
          /\ proc[e] = "unborn"
          /\ \A d \in 1..(e - 1) : proc[d] # "unborn"
          /\ proc' = [proc EXCEPT ![e] = "up"]
          /\ socket' = e
          /\ child'[c] = e
    BY <1>1, SoloTypes DEF StartSpawn
  <2>2. /\ pc'[c] = "begin"
        /\ UNCHANGED <<session, stops, finish, run, issued, closing>>
        /\ session = Absent
    BY <1>1, SoloTypes DEF StartSpawn, Goto, Solo, Starting
  <2>3. /\ \A d \in Execs : d > e => proc[d] = "unborn"
        /\ \A d \in Execs : d # e => proc'[d] = proc[d]
        /\ \A d \in Execs : d < e => proc[d] # "unborn"
        /\ proc'[e] = "up"
        /\ e \in Nat /\ \A d \in Execs : d \in Nat
    BY <2>1, BoundsAssumption DEF Solo, Births
  <2>4. Births' BY <2>2, <2>3 DEF Solo, Births
  <2>5. Newest' BY <2>2 DEF Solo, Newest
  <2>6. Starting(c)' BY <2>1, <2>2, <2>3 DEF Starting
  <2>7. Driving(c)' BY <2>2 DEF Driving
  <2>8. Ending(c)' BY <1>1, <2>2 DEF Ending
  <2>9. HistoryOrdered' BY <2>2, OrderKept DEF Solo
  <2>10. QED BY <2>4, <2>5, <2>6, <2>7, <2>8, <2>9 DEF Solo
<1>2. CASE StartSpawnFails(c)
  BY <1>2, SoloQuits DEF StartSpawnFails, vm
<1>3. CASE StartWaitFails(c)
  <2>1. \A e \in Execs : proc'[e] = "unborn" <=> proc[e] = "unborn"
    BY <1>3 DEF StartWaitFails, Solo, Starting
  <2>2. QED BY <1>3, <2>1, SoloQuits DEF StartWaitFails
<1>4. CASE StartCall(c)
  <2>1. PICK e \in Execs :
          /\ socket = e /\ proc[e] = "up"
          /\ run[e] = "none"
          /\ \/ \E kind \in {"stopped", "terminal"} : StopAt(c, e, kind, "opened")
             \/ EndOf(c, e, "opened")
    BY <1>4 DEF StartCall, Reached
  <2>2. UNCHANGED <<disk, proc>> /\ pc[c] = "begin" BY <1>4 DEF StartCall
  <2>3. QED BY <2>1, <2>2, SoloAnswer
<1>5. CASE StartCallFails(c)
  BY <1>5, SoloMoves DEF StartCallFails, Solo, Starting, disk, vm
<1>6. CASE StartLive(c)
  <2>1. /\ pc'[c] = "first_stop"
        /\ UNCHANGED <<stops, finish, socket, proc, run, issued, doc, first, closing, child,
                       reply, kept, todo>>
        /\ session' = [state |-> "live", exec |-> reply[c].exec,
                       seq |-> reply[c].seq, token |-> reply[c].seq]
    BY <1>6, SoloTypes DEF StartLive, Goto, vm, locals
  <2>2. /\ reply[c].exec = child[c] /\ reply[c].seq = 1
        /\ \A d \in Execs : proc[d] # "unborn" => d <= child[c]
    BY <1>6 DEF StartLive, Solo, Starting, Answered
  <2>3. Newest'
    <3>1. \A d \in Execs : run'[d] # "none" => d <= session'.exec
      BY <2>1, <2>2 DEF Solo, Births
    <3>2. session'.state = "live" BY <2>1
    <3>3. QED BY <3>1, <3>2 DEF Newest
  <2>4. Births' BY <2>1, BirthsKept DEF Solo
  <2>5. Starting(c)' BY <2>1, <2>2 DEF Starting, Shows, Answered
  <2>6. Driving(c)' /\ Ending(c)' BY <2>1 DEF Driving, Ending
  <2>7. HistoryOrdered' BY <2>1, OrderKept DEF Solo
  <2>8. QED BY <2>3, <2>4, <2>5, <2>6, <2>7 DEF Solo
<1>7. CASE StartHistory(c)
  <2>1. UNCHANGED <<session, proc, run, issued>> /\ Return(c)
    BY <1>7 DEF StartHistory, vm
  <2>2. Births' BY <2>1, BirthsKept DEF Solo
  <2>3. Newest' BY <2>1 DEF Solo, Newest
  <2>4. HistoryOrdered'
    <3>1. Len(stops') = 1 BY <1>7 DEF StartHistory
    <3>2. QED BY <3>1 DEF HistoryOrdered
  <2>5. QED BY <2>1, <2>2, <2>3, <2>4, SoloReturn DEF Solo
<1>8. CASE StartFinished(c)
  <2>1. /\ pc'[c] = "first_evidence"
        /\ UNCHANGED <<stops, finish, socket, proc, run, issued, doc, first, closing, child,
                       reply, kept, todo>>
        /\ session' = [state |-> "finished", exec |-> reply[c].exec, seq |-> 0, token |-> 0]
    BY <1>8, SoloTypes DEF StartFinished, Goto, vm, locals
  <2>2. Newest' BY <2>1 DEF Newest
  <2>3. Births' BY <2>1, BirthsKept DEF Solo
  <2>4. Starting(c)' BY <1>8, <2>1 DEF StartFinished, Solo, Starting, Shows, Answered
  <2>5. Driving(c)' /\ Ending(c)' BY <2>1 DEF Driving, Ending
  <2>6. HistoryOrdered' BY <2>1, OrderKept DEF Solo
  <2>7. QED BY <2>2, <2>3, <2>4, <2>5, <2>6 DEF Solo
<1>9. CASE StartEvidence(c)
  <2>1. /\ pc'[c] = "retire"
        /\ UNCHANGED <<session, stops, socket, proc, run, issued>>
    BY <1>9, SoloTypes DEF StartEvidence, Goto, vm
  <2>2. Newest' BY <2>1 DEF Solo, Newest
  <2>3. Births' BY <2>1, BirthsKept DEF Solo
  <2>4. Starting(c)' /\ Driving(c)' /\ Ending(c)'
    BY <1>9, <2>1 DEF StartEvidence, locals, Solo, Starting, Driving, Ending
  <2>5. HistoryOrdered' BY <2>1, OrderKept DEF Solo
  <2>6. QED BY <2>2, <2>3, <2>4, <2>5 DEF Solo
<1>10. CASE StartRetire(c)
  <2>1. \A e \in Execs : proc'[e] = "unborn" <=> proc[e] = "unborn"
    BY <1>10 DEF StartRetire, Solo, Starting, Reached
  <2>2. QED BY <1>10, <2>1, SoloQuits DEF StartRetire, disk
<1>11. QED
  BY <1>1, <1>2, <1>3, <1>4, <1>5, <1>6, <1>7, <1>8, <1>9, <1>10 DEF Start

Before(x, y) == x.exec < y.exec \/ (x.exec = y.exec /\ x.seq < y.seq)

\* The stop a drive is about to record comes after those already recorded.
LEMMA NewestLast ==
  ASSUME NEW c, Clients = {c}, IInv, Solo(c), pc[c] = "append",
         NEW i \in 1..Len(stops)
  PROVE  Before(stops[i], StopOf(reply[c]))
<1>1. stops \in Seq(Stop) BY DEF IInv, OwnerInv, TypeOK, DiskTypes
<1>2. PICK y \in Stop : y = stops[i] BY <1>1
<1>3. /\ y.exec \in Execs /\ y.seq \in 1..MaxStops
      /\ issued[y.exec] \in Nat
  BY <1>2, BoundsAssumption DEF Stop, IInv, OwnerInv, TypeOK, DaemonTypes
<1>4. Fits(y) BY <1>2 DEF IInv, Records, WellRecorded
<1>5. /\ session.state = "live"
      /\ session.exec = reply[c].exec /\ session.seq = reply[c].seq
  BY DEF Solo, Driving, Shows, Answered
<1>6. reply[c].event = "stopped" BY DEF IInv, OwnerInv, Phases
<1>7. y # StopOf(reply[c]) BY <1>4, <1>6 DEF Fits, StopPending
<1>8. run[y.exec] # "none"
  <2>1. y.seq <= issued[y.exec] BY <1>4 DEF Fits
  <2>2. issued[y.exec] # 0 BY <1>3, <2>1, BoundsAssumption
  <2>3. QED BY <1>3, <2>2 DEF Solo, Births
<1>9. y.exec <= session.exec BY <1>3, <1>5, <1>8 DEF Solo, Newest
<1>10. /\ session.exec \in Nat /\ session.seq \in Nat
  <2>1. session \in Handle BY DEF IInv, OwnerInv, TypeOK, DiskTypes
  <2>2. QED BY <2>1, BoundsAssumption DEF Handle
<1>11. CASE y.exec = session.exec
  <2>1. y.seq <= session.seq BY <1>4, <1>5, <1>11 DEF Fits
  <2>2. y = [exec |-> y.exec, seq |-> y.seq] BY DEF Stop
  <2>3. y.seq # session.seq BY <1>5, <1>7, <1>11, <2>2 DEF StopOf
  <2>4. y.seq \in Nat BY <1>3, BoundsAssumption
  <2>5. QED BY <1>2, <1>5, <1>10, <1>11, <2>1, <2>3, <2>4 DEF Before, StopOf
<1>12. CASE y.exec # session.exec
  <2>1. y.exec \in Nat BY <1>3, BoundsAssumption
  <2>2. QED BY <1>2, <1>5, <1>9, <1>10, <1>12, <2>1 DEF Before, StopOf
<1>13. QED BY <1>11, <1>12

\* A stop that comes after a sequence in order extends it in order, and the
\* stops the bound drops leave the rest in order.
LEMMA OrderExtends ==
  ASSUME NEW s \in Seq(Stop), NEW x \in Stop,
         \A i, j \in 1..Len(s) : i < j => Before(s[i], s[j]),
         \A i \in 1..Len(s) : Before(s[i], x)
  PROVE  LET t == Bounded(Append(s, x))
         IN  \A i, j \in 1..Len(t) : i < j => Before(t[i], t[j])
<1> Append(s, x) \in Seq(Stop) OBVIOUS
<1>1. PICK t \in Seq(Stop) : t = Append(s, x) OBVIOUS
<1>2. /\ Len(t) = Len(s) + 1
      /\ \A i \in 1..Len(s) : t[i] = s[i]
      /\ t[Len(s) + 1] = x
      /\ Len(s) \in Nat
  BY <1>1
<1>3. ASSUME NEW i \in 1..Len(t), NEW j \in 1..Len(t), i < j
      PROVE  Before(t[i], t[j])
  <2>1. i \in 1..Len(s) BY <1>2, <1>3
  <2>2. CASE j \in 1..Len(s) BY <1>2, <1>3, <2>1, <2>2
  <2>3. CASE j = Len(s) + 1 BY <1>2, <2>1, <2>3
  <2>4. QED BY <1>2, <2>2, <2>3
<1>4. PICK k \in 0..Len(t) :
        /\ Len(Bounded(t)) = Len(t) - k
        /\ \A i \in 1..Len(Bounded(t)) : Bounded(t)[i] = t[i + k]
  BY BoundedIsSuffix
<1>5. ASSUME NEW i \in 1..Len(Bounded(t)), NEW j \in 1..Len(Bounded(t)), i < j
      PROVE  Before(Bounded(t)[i], Bounded(t)[j])
  <2>1. i + k \in 1..Len(t) /\ j + k \in 1..Len(t) /\ i + k < j + k
    BY <1>2, <1>4, <1>5
  <2>2. QED BY <1>3, <1>4, <2>1
<1>6. QED BY <1>1, <1>5

LEMMA SoloDrive ==
  ASSUME NEW c, Clients = {c}, IInv, IInv', Solo(c), Drive(c)
  PROVE  Solo(c)'
<1> c \in Clients OBVIOUS
<1> TypeOK BY DEF IInv, OwnerInv
<1>1. CASE DriveCall(c)
  <2>1. PICK e \in Execs :
          /\ proc[e] = "up"
          /\ Owns(c, e)
          /\ \/ \E kind \in {"stopped", "terminal"} : StopAt(c, e, kind, "answered")
             \/ EndOf(c, e, "answered")
    BY <1>1 DEF DriveCall, Reached, Accepts
  <2>2. UNCHANGED <<disk, proc>> /\ pc[c] \in {"advance", "terminate"}
    BY <1>1 DEF DriveCall
  <2>3. QED BY <2>1, <2>2, SoloAnswer
<1>2. CASE DriveCallFails(c)
  BY <1>2, SoloFails DEF DriveCallFails
<1>3. CASE AbsorbStop(c)
  <2>1. /\ pc'[c] = "history"
        /\ UNCHANGED <<stops, finish, socket, proc, run, issued, doc, first, closing, child,
                       reply, kept, todo>>
        /\ session' = [state |-> doc[c].state, exec |-> doc[c].exec,
                       seq |-> reply[c].seq, token |-> reply[c].seq]
    BY <1>3, SoloTypes DEF AbsorbStop, Goto, vm, locals
  <2>2. /\ session.state = "live" /\ doc[c] = session
        /\ reply[c].seq = session.seq + 1
        /\ doc[c].exec = Answered(c)
        /\ session.seq \in Nat /\ session.seq # 0
    <3>1. Drivable(session) /\ issued[session.exec] \in Nat
      BY <1>3, BoundsAssumption
         DEF AbsorbStop, Solo, Driving, IInv, OwnerInv, Handles, Drivable, TypeOK, DaemonTypes
    <3>2. QED BY <1>3, <3>1 DEF AbsorbStop, Solo, Driving, IInv, OwnerInv, Phases, Drivable
  <2>3. Newest' BY <2>1, <2>2 DEF Solo, Newest
  <2>4. Births' BY <2>1, BirthsKept DEF Solo
  <2>5. Driving(c)' BY <2>1, <2>2 DEF Driving, Shows, Answered
  <2>6. Starting(c)' /\ Ending(c)' BY <2>1 DEF Starting, Ending
  <2>7. HistoryOrdered' BY <2>1, OrderKept DEF Solo
  <2>8. QED BY <2>3, <2>4, <2>5, <2>6, <2>7 DEF Solo
<1>4. CASE ReadStops(c)
  <2>1. /\ pc'[c] = "append" /\ kept'[c] = stops
        /\ UNCHANGED <<session, stops, proc, run, issued, reply, closing>>
    BY <1>4, SoloTypes DEF ReadStops, Goto, disk, vm
  <2>2. Newest' BY <2>1 DEF Solo, Newest
  <2>3. Births' BY <2>1, BirthsKept DEF Solo
  <2>4. Driving(c)' BY <1>4, <2>1 DEF ReadStops, Solo, Driving, Shows, Answered
  <2>5. Starting(c)' /\ Ending(c)' BY <2>1 DEF Starting, Ending
  <2>6. HistoryOrdered' BY <2>1, OrderKept DEF Solo
  <2>7. QED BY <2>2, <2>3, <2>4, <2>5, <2>6 DEF Solo
<1>5. CASE AppendStop(c)
  <2>1. /\ UNCHANGED <<session, proc, run, issued>> /\ Return(c)
        /\ kept[c] = stops /\ pc[c] = "append"
        /\ stops' = Bounded(Append(stops, StopOf(reply[c])))
    BY <1>5 DEF AppendStop, vm, Solo, Driving
  <2>2. Newest' BY <2>1 DEF Solo, Newest
  <2>3. Births' BY <2>1, BirthsKept DEF Solo
  <2>4. HistoryOrdered'
    <3>1. stops \in Seq(Stop) /\ StopOf(reply[c]) \in Stop
      BY <2>1, AnsweredStop DEF IInv, OwnerInv, TypeOK, DiskTypes, Phases
    <3>2. \A i, j \in 1..Len(stops) : i < j => Before(stops[i], stops[j])
      BY DEF Solo, HistoryOrdered, Before
    <3>3. \A i \in 1..Len(stops) : Before(stops[i], StopOf(reply[c]))
      BY <2>1, NewestLast
    <3>4. \A i, j \in 1..Len(stops') : i < j => Before(stops'[i], stops'[j])
      BY <2>1, <3>1, <3>2, <3>3, OrderExtends
    <3>5. QED BY <3>4 DEF HistoryOrdered, Before
  <2>5. QED BY <2>1, <2>2, <2>3, <2>4, SoloReturn DEF Solo
<1>6. CASE ReadAllStops(c)
  <2>1. /\ pc'[c] = "finalize" /\ kept'[c] = stops
        /\ UNCHANGED <<session, stops, proc, run, issued, doc>>
    BY <1>6, SoloTypes DEF ReadAllStops, Goto, disk, vm
  <2>2. Newest' BY <2>1 DEF Solo, Newest
  <2>3. Births' BY <2>1, BirthsKept DEF Solo
  <2>4. Driving(c)' BY <1>6, <2>1 DEF ReadAllStops, Solo, Driving
  <2>5. Starting(c)' /\ Ending(c)' BY <2>1 DEF Starting, Ending
  <2>6. HistoryOrdered' BY <2>1, OrderKept DEF Solo
  <2>7. QED BY <2>2, <2>3, <2>4, <2>5, <2>6 DEF Solo
<1>7. CASE FinishHandle(c)
  <2>1. /\ pc'[c] = "evidence"
        /\ UNCHANGED <<stops, proc, run, issued, reply, kept>>
        /\ session' = [state |-> "finished", exec |-> doc[c].exec,
                       seq |-> doc[c].seq, token |-> 0]
    BY <1>7, SoloTypes DEF FinishHandle, Goto, vm, locals
  <2>2. /\ doc[c].exec = Answered(c) /\ kept[c] = stops
        /\ doc[c].seq # 0
    <3>1. doc[c] = session /\ Drivable(session) /\ issued[session.exec] \in Nat
      BY <1>7, BoundsAssumption
         DEF FinishHandle, Solo, Driving, IInv, OwnerInv, Handles, Drivable, TypeOK, DaemonTypes
    <3>2. QED BY <1>7, <3>1 DEF FinishHandle, Solo, Driving, IInv, OwnerInv, Phases, Drivable
  <2>3. Newest' BY <2>1 DEF Newest
  <2>4. Births' BY <2>1, BirthsKept DEF Solo
  <2>5. Driving(c)' BY <2>1, <2>2 DEF Driving, Shows, Answered
  <2>6. Starting(c)' /\ Ending(c)' BY <2>1 DEF Starting, Ending
  <2>7. HistoryOrdered' BY <2>1, OrderKept DEF Solo
  <2>8. QED BY <2>3, <2>4, <2>5, <2>6, <2>7 DEF Solo
<1>8. CASE FinishEvidence(c)
  <2>1. /\ pc'[c] = "farewell"
        /\ UNCHANGED <<session, stops, proc, run, issued>>
    BY <1>8, SoloTypes DEF FinishEvidence, Goto, vm
  <2>2. Newest' BY <2>1 DEF Solo, Newest
  <2>3. Births' BY <2>1, BirthsKept DEF Solo
  <2>4. Driving(c)' BY <1>8, <2>1 DEF FinishEvidence, Solo, Driving, Shows
  <2>5. Starting(c)' /\ Ending(c)' BY <2>1 DEF Starting, Ending
  <2>6. HistoryOrdered' BY <2>1, OrderKept DEF Solo
  <2>7. QED BY <2>2, <2>3, <2>4, <2>5, <2>6 DEF Solo
<1>9. CASE FinishShutdown(c)
  <2>1. \A e \in Execs : proc'[e] = "unborn" <=> proc[e] = "unborn"
    BY <1>9 DEF FinishShutdown, ShutdownCall, Reached
  <2>2. session.state = "finished" BY <1>9 DEF FinishShutdown, Solo, Driving
  <2>3. Return(c) \/ (Goto(c, "linger") /\ UNCHANGED locals)
    BY <1>9 DEF FinishShutdown
  <2>4. QED BY <1>9, <2>1, <2>2, <2>3, SoloQuits, SoloMoves DEF FinishShutdown, disk
<1>10. QED
  BY <1>1, <1>2, <1>3, <1>4, <1>5, <1>6, <1>7, <1>8, <1>9 DEF Drive

LEMMA SoloClose ==
  ASSUME NEW c, Clients = {c}, IInv, IInv', Solo(c), Close(c)
  PROVE  Solo(c)'
<1> c \in Clients OBVIOUS
<1> TypeOK BY DEF IInv, OwnerInv
<1>1. CASE CloseReread(c)
  <2>1. CASE Fail(c)
    BY <1>1, <2>1, SoloFails DEF CloseReread
  <2>2. CASE Return(c)
    BY <1>1, <2>2, SoloQuits DEF CloseReread, disk, vm
  <2>3. CASE /\ session.state = "live"
             /\ doc' = [doc EXCEPT ![c] = session]
             /\ Goto(c, "terminate")
             /\ UNCHANGED <<first, closing, child, reply, kept, todo>>
    <3>1. /\ pc'[c] = "terminate" /\ doc'[c] = session /\ session.state = "live"
          /\ UNCHANGED <<session, stops, proc, run, issued, first, closing>>
      BY <1>1, <2>3, SoloTypes DEF CloseReread, Goto, disk, vm
    <3>2. Newest' BY <3>1 DEF Solo, Newest
    <3>3. Births' BY <3>1, BirthsKept DEF Solo
    <3>4. Ending(c)' BY <1>1, <3>1 DEF CloseReread, Solo, Ending
    <3>5. Starting(c)' /\ Driving(c)' BY <3>1 DEF Starting, Driving
    <3>6. HistoryOrdered' BY <3>1, OrderKept DEF Solo
    <3>7. QED BY <3>2, <3>3, <3>4, <3>5, <3>6 DEF Solo
  <2>4. QED BY <1>1, <2>1, <2>2, <2>3 DEF CloseReread
<1>2. CASE CloseMark(c)
  <2>1. /\ pc'[c] = "linger"
        /\ UNCHANGED <<stops, proc, run, issued>>
        /\ session'.state = "closed"
    BY <1>2, SoloTypes DEF CloseMark, Goto, vm
  <2>2. Newest' BY <2>1 DEF Newest
  <2>3. Births' BY <2>1, BirthsKept DEF Solo
  <2>4. Starting(c)' /\ Driving(c)' /\ Ending(c)' BY <2>1 DEF Starting, Driving, Ending
  <2>5. HistoryOrdered' BY <2>1, OrderKept DEF Solo
  <2>6. QED BY <2>2, <2>3, <2>4, <2>5 DEF Solo
<1>3. CASE CloseShutdown(c)
  <2>1. \A e \in Execs : proc'[e] = "unborn" <=> proc[e] = "unborn"
    BY <1>3 DEF CloseShutdown, ShutdownCall, Reached
  <2>2. session.state # "live" BY <1>3 DEF CloseShutdown, Solo, Ending
  <2>3. Return(c) \/ (Goto(c, "list") /\ UNCHANGED locals)
    BY <1>3 DEF CloseShutdown
  <2>4. QED BY <1>3, <2>1, <2>2, <2>3, SoloQuits, SoloMoves DEF CloseShutdown, disk
<1>4. CASE WipeList(c)
  <2>1. /\ pc'[c] = "wipe" /\ todo'[c] = Listed
        /\ UNCHANGED <<session, stops, finish, proc, run, issued>>
        /\ session.state # "live"
    BY <1>4, SoloTypes DEF WipeList, Goto, disk, vm, Solo, Ending
  <2>2. Newest' BY <2>1 DEF Solo, Newest
  <2>3. Births' BY <2>1, BirthsKept DEF Solo
  <2>4. /\ "finish.json" \notin Listed => finish = NoEvidence
        /\ "session.json" \notin Listed => session = Absent
    BY DEF Listed, Files, Solo, Newest, IInv, OwnerInv, Ends
  <2>5. Ending(c)' BY <2>1, <2>4 DEF Ending
  <2>6. Starting(c)' /\ Driving(c)' BY <2>1 DEF Starting, Driving
  <2>7. HistoryOrdered' BY <2>1, OrderKept DEF Solo
  <2>8. QED BY <2>2, <2>3, <2>5, <2>6, <2>7 DEF Solo
<1>5. CASE WipeOne(c)
  <2>1. PICK f \in todo[c] : Unlink(f) /\ todo'[c] = todo[c] \ {f}
    BY <1>5, SoloTypes DEF WipeOne
  <2>2. UNCHANGED <<proc, run, issued, pc, closing>> /\ pc[c] = "wipe"
    BY <1>5 DEF WipeOne, vm
  <2>3. /\ session' \in {session, Absent}
        /\ f = "session.json" => session' = Absent
        /\ finish' \in {finish, NoEvidence}
        /\ f = "finish.json" => finish' = NoEvidence
        /\ stops' \in {stops, <<>>}
        /\ Absent.state = "absent"
    <3>1. f \in Files BY <2>1, SoloTypes
    <3>2. QED BY <2>1, <3>1 DEF Unlink, Absent, Files
  <2>4. Newest' BY <2>2, <2>3 DEF Solo, Newest
  <2>5. Births' BY <2>2, BirthsKept DEF Solo
  <2>6. Ending(c)' BY <2>1, <2>2, <2>3 DEF Solo, Ending
  <2>7. Starting(c)' /\ Driving(c)' BY <2>2 DEF Starting, Driving
  <2>8. HistoryOrdered' BY <2>3, OrderKept DEF Solo
  <2>9. QED BY <2>4, <2>5, <2>6, <2>7, <2>8 DEF Solo
<1>6. CASE WipeDone(c)
  BY <1>6, SoloQuits DEF WipeDone, disk, vm
<1>7. QED BY <1>1, <1>2, <1>3, <1>4, <1>5, <1>6 DEF Close

LEMMA SoloRest ==
  ASSUME NEW c, Clients = {c}, IInv, IInv', Solo(c),
         Invoke(c) \/ AnswerLost(c) \/ Crash(c)
  PROVE  Solo(c)'
<1> c \in Clients OBVIOUS
<1> TypeOK BY DEF IInv, OwnerInv
<1>1. CASE StartCheck(c)
  <2>1. /\ pc'[c] = "spawn"
        /\ UNCHANGED <<session, stops, finish, proc, run, issued>>
        /\ session.state = "absent"
    BY <1>1, SoloTypes DEF StartCheck, Goto, disk, vm
  <2>2. Newest' BY <2>1 DEF Solo, Newest
  <2>3. Births' BY <2>1, BirthsKept DEF Solo
  <2>4. Starting(c)' BY <2>1 DEF Starting, Solo, Newest
  <2>5. Driving(c)' /\ Ending(c)' BY <2>1 DEF Driving, Ending
  <2>6. HistoryOrdered' BY <2>1, OrderKept DEF Solo
  <2>7. QED BY <2>2, <2>3, <2>4, <2>5, <2>6 DEF Solo
<1>2. ASSUME NEW op \in {"advance", "terminate"}, DriveRead(c, op) PROVE Solo(c)'
  <2>1. /\ pc'[c] = op /\ doc'[c] = session /\ session.state = "live"
        /\ UNCHANGED <<session, stops, proc, run, issued, closing>>
        /\ closing[c] = "no"
    BY <1>2, SoloTypes DEF DriveRead, Goto, disk, vm, Solo, Ending
  <2>2. Newest' BY <2>1 DEF Solo, Newest
  <2>3. Births' BY <2>1, BirthsKept DEF Solo
  <2>4. Starting(c)' /\ Driving(c)' /\ Ending(c)' BY <2>1 DEF Starting, Driving, Ending
  <2>5. HistoryOrdered' BY <2>1, OrderKept DEF Solo
  <2>6. QED BY <2>2, <2>3, <2>4, <2>5 DEF Solo
<1>3. ASSUME NEW remove, CloseRead(c, remove) PROVE Solo(c)'
  <2>1. /\ first'[c] = session /\ closing'[c] # "no"
        /\ UNCHANGED <<session, stops, proc, run, issued>>
        /\ \/ pc'[c] = "list" /\ session.state = "absent"
           \/ pc'[c] \in {"reread", "mark"} /\ session.state # "absent"
    BY <1>3, SoloTypes DEF CloseRead, Goto, disk, vm
  <2>2. Newest' BY <2>1 DEF Solo, Newest
  <2>3. Births' BY <2>1, BirthsKept DEF Solo
  <2>4. Starting(c)' /\ Driving(c)' /\ Ending(c)' BY <2>1 DEF Starting, Driving, Ending
  <2>5. HistoryOrdered' BY <2>1, OrderKept DEF Solo
  <2>6. QED BY <2>2, <2>3, <2>4, <2>5 DEF Solo
<1>4. CASE AnswerLost(c)
  <2>1. CASE pc[c] = "answered" /\ Fail(c)
    BY <1>4, <2>1, SoloFails DEF AnswerLost
  <2>2. CASE pc[c] = "opened" /\ Goto(c, "retire") /\ UNCHANGED locals
    BY <1>4, <2>2, SoloMoves DEF AnswerLost, Solo, Starting, disk, vm
  <2>3. QED BY <1>4, <2>1, <2>2 DEF AnswerLost
<1>5. CASE Crash(c)
  BY <1>5, SoloQuits DEF Crash, disk, vm
<1>6. QED BY <1>1, <1>2, <1>3, <1>4, <1>5 DEF Invoke

LEMMA SoloInit ==
  ASSUME NEW c, Clients = {c}, Init
  PROVE  SoloInv
<1>1. IInv BY IInvInit
<1>2. Solo(c)
  BY DEF Init, Solo, Births, Newest, Starting, Driving, Ending, HistoryOrdered, Absent
<1>3. QED BY <1>1, <1>2, SoloIs

LEMMA SoloStep ==
  ASSUME NEW c, Clients = {c}, SoloInv, [Next]_vars
  PROVE  SoloInv'
<1>1. IInv /\ Solo(c) BY SoloIs
<1>2. IInv' BY <1>1, IInvStep
<1>3. CASE UNCHANGED vars
  BY <1>1, <1>2, <1>3, SoloIs
     DEF vars, disk, vm, locals, Solo, Births, Newest, Starting, Driving, Ending,
         HistoryOrdered, Shows, Answered
<1>4. CASE \E e \in Execs : KillDaemon(e)
  <2>1. /\ UNCHANGED <<session, stops, finish, socket, run, issued, pc, doc, first, closing,
                       child, reply, kept, todo>>
        /\ \A e \in Execs : proc'[e] = "unborn" <=> proc[e] = "unborn"
    BY <1>4 DEF KillDaemon, disk, locals
  <2>2. Solo(c)'
    BY <1>1, <2>1 DEF Solo, Births, Newest, Starting, Driving, Ending,
                      HistoryOrdered, Shows, Answered
  <2>3. QED BY <1>2, <2>2, SoloIs
<1>5. CASE \E d \in Clients : Invoke(d) \/ Proceed(d) \/ AnswerLost(d) \/ Crash(d)
  <2>1. Invoke(c) \/ Proceed(c) \/ AnswerLost(c) \/ Crash(c) BY <1>5
  <2>2. Solo(c)'
    BY <1>1, <1>2, <2>1, SoloStart, SoloDrive, SoloClose, SoloRest DEF Proceed
  <2>3. QED BY <1>2, <2>2, SoloIs
<1>6. QED BY <1>3, <1>4, <1>5 DEF Next

\* The inductive invariant for one client, whatever fails.
THEOREM SoloInvariant ==
  ASSUME NEW c, Clients = {c}
  PROVE  Spec => []SoloInv
BY SoloInit, SoloStep, PTL DEF Spec

\* While one client at a time uses the directory, stops.json is in the order
\* the executions made the stops (HistoryOrdered), although any command may be
\* cut short between its writes: the handle a drive reads is never older than
\* the newest recorded stop.
THEOREM InOrder ==
  ASSUME NEW c, Clients = {c}
  PROVE  Spec => []HistoryOrdered
<1>1. SoloInv => HistoryOrdered BY DEF SoloInv
<1>2. QED BY <1>1, SoloInvariant, PTL

-----------------------------------------------------------------------------
(***************************************************************************)
(* LiveSession implements LiveLedger.                                      *)
(***************************************************************************)

\* Both modules keep the same stops of a history.
LEMMA LastOnesIsBounded ==
  ASSUME NEW S, NEW s \in Seq(S)
  PROVE  Ledger!LastOnes(s) = Bounded(s)
<1>1. Len(s) \in Nat /\ MaxHistory \in Nat \ {0} BY BoundsAssumption
<1>2. CASE Len(s) <= MaxHistory
  <2>1. (IF Len(s) > MaxHistory THEN Len(s) - MaxHistory ELSE 0) + 1 = 1
    BY <1>1, <1>2
  <2>2. Ledger!LastOnes(s) = SubSeq(s, 1, Len(s)) BY <2>1 DEF Ledger!LastOnes
  <2>3. QED BY <1>2, <2>2, SubSeqFull DEF Bounded
<1>3. CASE Len(s) > MaxHistory
  BY <1>1, <1>3 DEF Ledger!LastOnes, Bounded
<1>4. QED BY <1>1, <1>2, <1>3

\* A step that writes none of the files is not seen.
LEMMA LedgerStutters ==
  ASSUME UNCHANGED <<session, stops, finish>>
  PROVE  UNCHANGED Ledger!vars
BY DEF Ledger!vars

LEMMA LedgerStart ==
  ASSUME NEW c, Clients = {c}, SoloInv, Start(c)
  PROVE  [Ledger!Next]_(Ledger!vars)
<1> USE DEF disk
<1>1. IInv /\ Solo(c) /\ TypeOK /\ c \in Clients BY SoloIs DEF IInv, OwnerInv
<1>2. reply[c] \in Reply /\ finish \in Evidence /\ stops \in Seq(Stop)
  BY <1>1 DEF TypeOK, DiskTypes, ClientTypes
<1>3. CASE StartLive(c)
  <2>1. /\ session = Absent /\ reply[c].seq = 1 /\ reply[c].exec \in Execs
        /\ session' = [state |-> "live", exec |-> reply[c].exec,
                       seq |-> reply[c].seq, token |-> reply[c].seq]
        /\ UNCHANGED <<stops, finish>>
    BY <1>1, <1>3 DEF StartLive, Solo, Starting, Answered
  <2>2. Ledger!Open BY <2>1 DEF Ledger!Open, Absent
  <2>3. QED BY <2>2 DEF Ledger!Next
<1>4. CASE StartHistory(c)
  <2>1. /\ session.state = "live" /\ session.seq = 1
        /\ reply[c].exec = session.exec /\ reply[c].seq = 1
        /\ reply[c].event = "stopped"
        /\ stops' = <<StopOf(reply[c])>>
        /\ UNCHANGED <<session, finish>>
    BY <1>1, <1>4
       DEF StartHistory, Solo, Starting, Shows, Answered, IInv, OwnerInv, Phases
  <2>2. StopPending(c) BY <1>4, <2>1 DEF StartHistory, StopPending
  <2>3. \A i \in 1..Len(stops) : stops[i] # StopOf(reply[c])
    BY <1>1, <2>2 DEF IInv, Records, WellRecorded, Fits
  <2>4. Ledger!Current = StopOf(reply[c]) BY <2>1 DEF Ledger!Current, StopOf
  <2>5. Ledger!Record BY <2>1, <2>3, <2>4 DEF Ledger!Record
  <2>6. QED BY <2>5 DEF Ledger!Next
<1>5. CASE StartFinished(c)
  <2>1. /\ session = Absent /\ reply[c].exec \in Execs
        /\ session' = [state |-> "finished", exec |-> reply[c].exec, seq |-> 0, token |-> 0]
        /\ UNCHANGED <<stops, finish>>
    BY <1>1, <1>5 DEF StartFinished, Solo, Starting, Answered
  <2>2. Ledger!Open BY <2>1 DEF Ledger!Open, Absent
  <2>3. QED BY <2>2 DEF Ledger!Next
<1>6. CASE StartEvidence(c)
  <2>1. /\ session.state = "finished" /\ session.exec = reply[c].exec /\ session.seq = 0
        /\ reply[c].event = "finished" /\ pc[c] = "first_evidence"
        /\ finish' = [exec |-> reply[c].exec, stops |-> <<>>]
        /\ UNCHANGED <<session, stops>>
    BY <1>1, <1>6
       DEF StartEvidence, Solo, Starting, Shows, Answered, IInv, OwnerInv, Phases
  <2>2. finish.exec # session.exec
    BY <1>1, <2>1 DEF IInv, OwnerInv, Ends, EndInHand, Answered
  <2>3. Ledger!Certify BY <2>1, <2>2 DEF Ledger!Certify
  <2>4. QED BY <2>3 DEF Ledger!Next
<1>7. CASE \/ StartSpawn(c) \/ StartSpawnFails(c) \/ StartWaitFails(c) \/ StartCall(c)
           \/ StartCallFails(c) \/ StartRetire(c)
  BY <1>7, LedgerStutters
     DEF StartSpawn, StartSpawnFails, StartWaitFails, StartCall, StartCallFails, StartRetire
<1>8. QED BY <1>3, <1>4, <1>5, <1>6, <1>7 DEF Start

LEMMA LedgerDrive ==
  ASSUME NEW c, Clients = {c}, SoloInv, Drive(c)
  PROVE  [Ledger!Next]_(Ledger!vars)
<1> USE DEF disk
<1>1. IInv /\ Solo(c) /\ TypeOK /\ Phases /\ c \in Clients BY SoloIs DEF IInv, OwnerInv
<1>2. stops \in Seq(Stop) /\ session \in Handle
  BY <1>1 DEF TypeOK, DiskTypes
<1>3. CASE AbsorbStop(c)
  <2>1. /\ session.state = "live" /\ reply[c].seq = session.seq + 1
        /\ session' = [state |-> session.state, exec |-> session.exec,
                       seq |-> reply[c].seq, token |-> reply[c].seq]
        /\ UNCHANGED <<stops, finish>>
    BY <1>1, <1>3 DEF AbsorbStop, Solo, Driving
  <2>2. Ledger!Advance BY <2>1 DEF Ledger!Advance
  <2>3. QED BY <2>2 DEF Ledger!Next
<1>4. CASE AppendStop(c)
  <2>1. /\ session.state = "live" /\ session.seq # 1
        /\ reply[c].exec = session.exec /\ reply[c].seq = session.seq
        /\ reply[c].event = "stopped"
        /\ stops' = Bounded(Append(stops, StopOf(reply[c])))
        /\ UNCHANGED <<session, finish>>
    BY <1>1, <1>4 DEF AppendStop, Solo, Driving, Shows, Answered, Phases
  <2>2. StopPending(c) BY <1>4, <2>1 DEF AppendStop, StopPending
  <2>3. \A i \in 1..Len(stops) : stops[i] # StopOf(reply[c])
    BY <1>1, <2>2 DEF IInv, Records, WellRecorded, Fits
  <2>4. Ledger!Current = StopOf(reply[c]) BY <2>1 DEF Ledger!Current, StopOf
  <2>5. StopOf(reply[c]) \in Stop BY <1>1, <2>1, AnsweredStop
  <2>6. Append(stops, StopOf(reply[c])) \in Seq(Stop) BY <1>2, <2>5
  <2>7. stops' = Ledger!LastOnes(Append(stops, StopOf(reply[c])))
    BY <2>1, <2>6, LastOnesIsBounded
  <2>8. Ledger!Record BY <2>1, <2>3, <2>4, <2>7 DEF Ledger!Record
  <2>9. QED BY <2>8 DEF Ledger!Next
<1>5. CASE FinishHandle(c)
  <2>1. /\ session.state = "live"
        /\ session' = [state |-> "finished", exec |-> session.exec,
                       seq |-> session.seq, token |-> 0]
        /\ UNCHANGED <<stops, finish>>
    BY <1>1, <1>5 DEF FinishHandle, Solo, Driving
  <2>2. Ledger!End BY <2>1 DEF Ledger!End
  <2>3. QED BY <2>2 DEF Ledger!Next
<1>6. CASE FinishEvidence(c)
  <2>1. /\ session.state = "finished" /\ session.exec = reply[c].exec /\ session.seq # 0
        /\ reply[c].event = "finished" /\ pc[c] = "evidence"
        /\ finish' = [exec |-> reply[c].exec, stops |-> stops]
        /\ UNCHANGED <<session, stops>>
    BY <1>1, <1>6 DEF FinishEvidence, Solo, Driving, Shows, Answered, Phases
  <2>2. finish.exec # session.exec
    BY <1>1, <2>1 DEF IInv, OwnerInv, Ends, EndInHand, Answered
  <2>3. Ledger!Certify BY <2>1, <2>2 DEF Ledger!Certify
  <2>4. QED BY <2>3 DEF Ledger!Next
<1>7. CASE \/ DriveCall(c) \/ DriveCallFails(c) \/ ReadStops(c) \/ ReadAllStops(c)
           \/ FinishShutdown(c)
  BY <1>7, LedgerStutters
     DEF DriveCall, DriveCallFails, ReadStops, ReadAllStops, FinishShutdown
<1>8. QED BY <1>3, <1>4, <1>5, <1>6, <1>7 DEF Drive

LEMMA LedgerClose ==
  ASSUME NEW c, Clients = {c}, SoloInv, Close(c)
  PROVE  [Ledger!Next]_(Ledger!vars)
<1> USE DEF disk
<1>1. Solo(c) /\ TypeOK /\ c \in Clients BY SoloIs DEF IInv, OwnerInv
<1>2. CASE CloseMark(c)
  <2>1. /\ session.state # "absent"
        /\ session' = [state |-> "closed", exec |-> session.exec,
                       seq |-> session.seq, token |-> 0]
        /\ UNCHANGED <<stops, finish>>
    BY <1>1, <1>2 DEF CloseMark, Solo, Ending
  <2>2. Ledger!Retire BY <2>1 DEF Ledger!Retire
  <2>3. QED BY <2>2 DEF Ledger!Next
<1>3. CASE WipeOne(c)
  <2>1. PICK f \in todo[c] : /\ \A g \in todo[c] : Rank(f) <= Rank(g)
                             /\ Unlink(f)
    BY <1>3 DEF WipeOne
  <2>2. f \in Files /\ session.state # "live"
    BY <1>1, <1>3, <2>1, SoloTypes DEF WipeOne, Solo, Ending
  <2>3. CASE f = "debug.sock"
    BY <2>1, <2>3, LedgerStutters DEF Unlink
  <2>4. CASE f = "finish.json"
    <3>1. finish' = NoEvidence /\ UNCHANGED <<session, stops>>
      BY <2>1, <2>4 DEF Unlink
    <3>2. Ledger!Erase BY <2>2, <3>1 DEF Ledger!Erase, Ledger!NoEvidence, NoEvidence
    <3>3. QED BY <3>2 DEF Ledger!Next
  <2>5. CASE f = "session.json"
    <3>1. session' = Absent /\ UNCHANGED <<finish, stops>>
      BY <2>1, <2>5 DEF Unlink
    <3>2. "finish.json" \notin todo[c] BY <2>1, <2>5 DEF Rank
    <3>3. finish = NoEvidence BY <1>1, <1>3, <3>2 DEF WipeOne, Solo, Ending
    <3>4. Ledger!Erase
      BY <2>2, <3>1, <3>3 DEF Ledger!Erase, Ledger!NoEvidence, NoEvidence,
                              Ledger!NoHandle, Absent
    <3>5. QED BY <3>4 DEF Ledger!Next
  <2>6. CASE f = "stops.json"
    <3>1. stops' = <<>> /\ UNCHANGED <<session, finish>>
      BY <2>1, <2>6 DEF Unlink
    <3>2. "session.json" \notin todo[c] BY <2>1, <2>6 DEF Rank
    <3>3. session = Absent BY <1>1, <1>3, <3>2 DEF WipeOne, Solo, Ending
    <3>4. Ledger!Erase
      BY <2>2, <3>1, <3>3 DEF Ledger!Erase, Ledger!NoHandle, Absent
    <3>5. QED BY <3>4 DEF Ledger!Next
  <2>7. QED BY <2>2, <2>3, <2>4, <2>5, <2>6 DEF Files
<1>4. CASE CloseReread(c) \/ CloseShutdown(c) \/ WipeList(c) \/ WipeDone(c)
  BY <1>4, LedgerStutters DEF CloseReread, CloseShutdown, WipeList, WipeDone
<1>5. QED BY <1>2, <1>3, <1>4 DEF Close

\* One client at a time, whatever fails and wherever it dies, only ever does to
\* the session files what LiveLedger allows (ImplementsLedger): every write of
\* session.json, stops.json and finish.json is one step of the ledger, and
\* everything else a command or a daemon does leaves it as it is.
THEOREM LedgerImplemented ==
  ASSUME NEW c, Clients = {c}
  PROVE  Spec => ImplementsLedger
<1>1. Init => Ledger!Init
  BY DEF Init, Ledger!Init, Ledger!NoHandle, Ledger!NoEvidence, Absent, NoEvidence
<1>2. SoloInv /\ [Next]_vars => [Ledger!Next]_(Ledger!vars)
  <2> SUFFICES ASSUME SoloInv, [Next]_vars PROVE [Ledger!Next]_(Ledger!vars)
    OBVIOUS
  <2>1. CASE UNCHANGED vars \/ \E e \in Execs : KillDaemon(e)
    BY <2>1, LedgerStutters DEF vars, disk, KillDaemon
  <2>2. CASE Invoke(c) \/ AnswerLost(c) \/ Crash(c)
    BY <2>2, LedgerStutters
       DEF Invoke, StartCheck, DriveRead, CloseRead, AnswerLost, Crash, disk
  <2>3. CASE Proceed(c)
    BY <2>3, LedgerStart, LedgerDrive, LedgerClose DEF Proceed
  <2>4. QED BY <2>1, <2>2, <2>3 DEF Next
<1>3. QED BY <1>1, <1>2, SoloInvariant, PTL DEF Spec, ImplementsLedger, Ledger!Spec

-----------------------------------------------------------------------------
(***************************************************************************)
(* One client, and nothing lost: the files hold the whole history.         *)
(***************************************************************************)

\* Dropping the oldest stops before or after one is appended is the same.
LEMMA BoundedAppend ==
  ASSUME NEW S, NEW s \in Seq(S), NEW x \in S
  PROVE  Bounded(Append(Bounded(s), x)) = Bounded(Append(s, x))
<1>1. Len(s) \in Nat /\ MaxHistory \in Nat \ {0} BY BoundsAssumption
<1>2. CASE Len(s) <= MaxHistory BY <1>2 DEF Bounded
<1>3. CASE Len(s) > MaxHistory
  <2> DEFINE k == Len(s) - MaxHistory
             b == SubSeq(s, k + 1, Len(s))
  <2>1. /\ b \in Seq(S) /\ Len(b) = MaxHistory
        /\ \A i \in 1..MaxHistory : b[i] = s[i + k]
    BY <1>1, <1>3
  <2>2. Bounded(s) = b BY <1>1, <1>3 DEF Bounded
  <2> HIDE DEF b
  <2>3. /\ Append(b, x) \in Seq(S) /\ Len(Append(b, x)) = MaxHistory + 1
        /\ Append(s, x) \in Seq(S) /\ Len(Append(s, x)) = Len(s) + 1
        /\ \A i \in 1..MaxHistory : Append(b, x)[i] = s[i + k]
        /\ Append(b, x)[MaxHistory + 1] = x
        /\ \A i \in 1..Len(s) : Append(s, x)[i] = s[i]
        /\ Append(s, x)[Len(s) + 1] = x
    BY <1>1, <2>1
  <2>4. PICK t \in Seq(S) : t = Append(s, x) BY <2>3
  <2> DEFINE l == SubSeq(Append(b, x), 2, MaxHistory + 1)
             r == SubSeq(t, k + 2, Len(t))
  <2>5. /\ l \in Seq(S) /\ Len(l) = MaxHistory
        /\ \A i \in 1..MaxHistory : l[i] = Append(b, x)[i + 1]
    BY <1>1, <2>3
  <2>6. /\ r \in Seq(S) /\ Len(r) = MaxHistory
        /\ \A i \in 1..MaxHistory : r[i] = t[i + k + 1]
    <3>1. k + 2 \in 1..Len(t) /\ Len(t) - (k + 2) + 1 = MaxHistory /\ Len(t) \in Nat
      BY <1>1, <1>3, <2>3, <2>4
    <3>2. \A i \in 1..MaxHistory : k + 2 + i - 1 = i + k + 1 BY <1>1
    <3>3. QED BY <1>1, <3>1, <3>2
  <2>7. Bounded(Append(b, x)) = l BY <1>1, <2>3 DEF Bounded
  <2>8. Bounded(t) = r
    <3>1. Len(t) - MaxHistory + 1 = k + 2 /\ ~(Len(t) <= MaxHistory)
      BY <1>1, <1>3, <2>3, <2>4
    <3>2. QED BY <3>1 DEF Bounded
  <2> HIDE DEF l, r
  <2>9. ASSUME NEW i \in 1..MaxHistory PROVE l[i] = r[i]
    <3>1. CASE i = MaxHistory
      <4>1. l[i] = x BY <2>3, <2>5, <3>1
      <4>2. i + k + 1 = Len(s) + 1 BY <1>1, <3>1
      <4>3. QED BY <2>3, <2>4, <2>6, <4>1, <4>2
    <3>2. CASE i # MaxHistory
      <4>1. i + 1 \in 1..MaxHistory /\ i + k + 1 \in 1..Len(s) BY <1>1, <1>3, <3>2
      <4>2. i + 1 + k = i + k + 1 BY <1>1
      <4>3. l[i] = s[i + k + 1] BY <2>3, <2>5, <4>1, <4>2
      <4>4. QED BY <2>3, <2>4, <2>6, <4>1, <4>3
    <3>3. QED BY <3>1, <3>2
  <2>10. l = r BY <2>5, <2>6, <2>9, SeqEqual
  <2>11. QED BY <2>2, <2>4, <2>7, <2>8, <2>10
<1>4. QED BY <1>1, <1>2, <1>3

LEMMA PrefixEmpty ==
  ASSUME NEW e
  PROVE  Prefix(e, 0) = <<>>
<1>1. [i \in 1..0 |-> [exec |-> e, seq |-> i]] = <<>> OBVIOUS
<1>2. Bounded(<<>>) = <<>> BY BoundsAssumption DEF Bounded
<1>3. QED BY <1>1, <1>2 DEF Prefix

\* The stops of an execution up to some number, and one more.
LEMMA PrefixGrows ==
  ASSUME NEW e \in Execs, NEW n \in 0..MaxStops
  PROVE  /\ Prefix(e, n) \in Seq(Stop)
         /\ n # 0 => Prefix(e, n) =
                       Bounded(Append(Prefix(e, n - 1), [exec |-> e, seq |-> n]))
<1> DEFINE Upto(m) == [i \in 1..m |-> [exec |-> e, seq |-> i]]
<1>1. ASSUME NEW m \in 0..MaxStops
      PROVE  Upto(m) \in Seq(Stop) /\ Len(Upto(m)) = m
  BY BoundsAssumption DEF Stop
<1>2. Prefix(e, n) \in Seq(Stop) BY <1>1, BoundedIsSeq DEF Prefix
<1>3. ASSUME n # 0
      PROVE  Prefix(e, n) = Bounded(Append(Prefix(e, n - 1), [exec |-> e, seq |-> n]))
  <2> DEFINE x == [exec |-> e, seq |-> n]
  <2>1. n - 1 \in 0..MaxStops /\ n \in Nat /\ x \in Stop
    BY <1>3, BoundsAssumption DEF Stop
  <2>2. /\ Upto(n - 1) \in Seq(Stop) /\ Len(Upto(n - 1)) = n - 1
        /\ Upto(n) \in Seq(Stop) /\ Len(Upto(n)) = n
    BY <1>1, <2>1
  <2>3. \A i \in 1..n : Upto(n)[i] = Append(Upto(n - 1), x)[i]
    BY <2>1, <2>2
  <2>4. Upto(n) = Append(Upto(n - 1), x)
    <3>1. Append(Upto(n - 1), x) \in Seq(Stop) /\ Len(Append(Upto(n - 1), x)) = n
      BY <2>1, <2>2
    <3> HIDE DEF Upto
    <3>2. QED BY <2>2, <2>3, <3>1, SeqEqual
  <2>5. Bounded(Append(Bounded(Upto(n - 1)), x)) = Bounded(Append(Upto(n - 1), x))
    BY <2>1, <2>2, BoundedAppend
  <2>6. QED BY <2>4, <2>5 DEF Prefix
<1>4. QED BY <1>2, <1>3

LEMMA WholeIs ==
  ASSUME NEW c, Clients = {c}
  PROVE  /\ WholeInv <=> SoloInv /\ Recorded(c) /\ EvidenceComplete
         /\ WholeInv' <=> SoloInv' /\ Recorded(c)' /\ EvidenceComplete'
BY DEF WholeInv

\* A step that leaves the history and its execution alone, to a place where no
\* stop is waiting to be recorded.
LEMMA WholeMoves ==
  ASSUME NEW c, Clients = {c}, WholeInv,
         UNCHANGED <<session, stops, finish, issued>>,
         pc[c] # "wipe", ~Unrecorded(c),
         pc'[c] \notin {"wipe", "opened", "first_stop", "first_evidence", "history", "append"},
         pc'[c] = "answered" => reply'[c].event # "stopped"
  PROVE  Recorded(c)' /\ EvidenceComplete'
<1>1. Recorded(c) /\ EvidenceComplete BY WholeIs
<1>2. EvidenceComplete' BY <1>1 DEF EvidenceComplete, AllStops
<1>3. Recorded(c)' BY <1>1 DEF Recorded, Unrecorded, AllStops
<1>4. QED BY <1>2, <1>3

\* Evidence is about executions that make no more stops.
LEMMA EvidenceStays ==
  ASSUME NEW c, Clients = {c}, WholeInv, NEW e \in Execs, run[e] # "finished",
         issued' = [issued EXCEPT ![e] = @ + 1] \/ issued' = issued,
         UNCHANGED finish
  PROVE  EvidenceComplete'
<1>1. EvidenceComplete /\ TypeOK /\ EvidenceEarned
  BY WholeIs, SoloIs DEF IInv, OwnerInv
<1>2. ASSUME finish.exec # NoExec PROVE issued'[finish.exec] = issued[finish.exec]
  <2>1. finish.exec \in Execs
    BY <1>1, <1>2, BoundsAssumption DEF TypeOK, DiskTypes, Evidence
  <2>2. finish.exec # e BY <1>1, <1>2 DEF EvidenceEarned
  <2>3. QED BY <1>1, <2>1, <2>2 DEF TypeOK, DaemonTypes
<1>3. QED BY <1>1, <1>2 DEF EvidenceComplete, AllStops

LEMMA WholeStart ==
  ASSUME NEW c, Clients = {c}, WholeInv, Start(c)
  PROVE  Recorded(c)' /\ EvidenceComplete'
<1> USE DEF disk, vm
<1>1. /\ IInv /\ Solo(c) /\ TypeOK /\ Phases /\ c \in Clients
      /\ Recorded(c) /\ EvidenceComplete
  BY WholeIs, SoloIs DEF IInv, OwnerInv
<1>2. CASE StartSpawn(c) \/ StartCallFails(c)
  <2>1. /\ pc[c] \in {"spawn", "begin"} /\ pc'[c] \in {"begin", "retire"}
        /\ UNCHANGED <<session, stops, finish, issued>>
    BY <1>1, <1>2, SoloTypes DEF StartSpawn, StartCallFails, Goto
  <2>2. QED BY <2>1, WholeMoves DEF Unrecorded
<1>3. CASE StartSpawnFails(c) \/ StartWaitFails(c) \/ StartRetire(c)
  <2>1. /\ pc[c] \in {"spawn", "begin", "retire"} /\ pc'[c] = "idle"
        /\ UNCHANGED <<session, stops, finish, issued>>
    BY <1>1, <1>3, SoloTypes DEF StartSpawnFails, StartWaitFails, StartRetire, Return, Goto
  <2>2. QED BY <2>1, WholeMoves DEF Unrecorded
<1>4. CASE StartCall(c)
  <2>1. PICK e \in Execs :
          /\ run[e] = "none"
          /\ \/ \E kind \in {"stopped", "terminal"} : StopAt(c, e, kind, "opened")
             \/ EndOf(c, e, "opened")
    BY <1>4 DEF StartCall, Reached
  <2>2. /\ UNCHANGED <<session, stops, finish>> /\ pc[c] = "begin" /\ pc'[c] = "opened"
        /\ session = Absent /\ stops = <<>>
        /\ reply'[c].event = "finished" => reply'[c].exec = e /\ issued'[e] = 0
        /\ issued' = [issued EXCEPT ![e] = @ + 1] \/ issued' = issued
    BY <1>1, <1>4, <2>1, SoloTypes
       DEF StartCall, StopAt, EndOf, Goto, Solo, Starting, Births, Recorded, Absent
  <2>3. EvidenceComplete' BY <2>1, <2>2, EvidenceStays
  <2>4. Recorded(c)' BY <2>2 DEF Recorded, Unrecorded, Answered, Absent
  <2>5. QED BY <2>3, <2>4
<1>5. CASE StartLive(c)
  <2>1. /\ reply[c].seq = 1 /\ reply[c].exec \in Execs
        /\ issued[reply[c].exec] = 1
        /\ stops = <<>>
    BY <1>1, <1>5
       DEF StartLive, Solo, Starting, Answered, Recorded, Absent, IInv, OwnerInv, Custody,
           StopInHand
  <2>2. /\ pc'[c] = "first_stop" /\ session'.exec = reply[c].exec /\ session'.state = "live"
        /\ UNCHANGED <<stops, finish, issued, reply>>
    BY <1>1, <1>5, SoloTypes DEF StartLive, Goto, locals
  <2>3. stops = Prefix(reply[c].exec, 0) BY <2>1, PrefixEmpty
  <2>4. Recorded(c)' BY <2>1, <2>2, <2>3 DEF Recorded, Unrecorded, Prefix
  <2>5. EvidenceComplete' BY <1>1, <2>2 DEF EvidenceComplete, AllStops
  <2>6. QED BY <2>4, <2>5
<1>6. CASE StartHistory(c)
  <2>1. /\ session.state = "live" /\ session.exec = reply[c].exec /\ reply[c].seq = 1
        /\ session.exec \in Execs /\ issued[session.exec] = 1
    BY <1>1, <1>6
       DEF StartHistory, Solo, Starting, Shows, Answered, Recorded, Unrecorded, Phases
  <2>2. /\ stops' = <<[exec |-> session.exec, seq |-> 1]>> /\ pc'[c] = "idle"
        /\ UNCHANGED <<session, finish, issued>>
    BY <1>1, <1>6, <2>1, SoloTypes DEF StartHistory, Return, Goto, StopOf
  <2>3. stops' = Prefix(session.exec, 1)
    <3>1. Append(<<>>, [exec |-> session.exec, seq |-> 1]) = stops' BY <2>2
    <3>2. Len(stops') = 1 BY <2>2
    <3>3. Bounded(stops') = stops' BY <3>2, BoundsAssumption DEF Bounded
    <3>4. /\ Prefix(session.exec, 1) =
               Bounded(Append(Prefix(session.exec, 0), [exec |-> session.exec, seq |-> 1]))
          /\ Prefix(session.exec, 0) = <<>>
      BY <2>1, PrefixEmpty, PrefixGrows, BoundsAssumption
    <3>5. QED BY <3>1, <3>3, <3>4
  <2>4. Recorded(c)' BY <2>1, <2>2, <2>3 DEF Recorded, Unrecorded, AllStops, Prefix
  <2>5. EvidenceComplete' BY <1>1, <2>2 DEF EvidenceComplete, AllStops
  <2>6. QED BY <2>4, <2>5
<1>7. CASE StartFinished(c)
  <2>1. /\ reply[c].exec \in Execs /\ issued[reply[c].exec] = 0 /\ stops = <<>>
    BY <1>1, <1>7 DEF StartFinished, Solo, Starting, Answered, Recorded, Absent
  <2>2. /\ pc'[c] = "first_evidence" /\ session'.exec = reply[c].exec
        /\ session'.state = "finished"
        /\ UNCHANGED <<stops, finish, issued, reply>>
    BY <1>1, <1>7, SoloTypes DEF StartFinished, Goto, locals
  <2>3. stops = Prefix(reply[c].exec, 0) BY <2>1, PrefixEmpty
  <2>4. Recorded(c)'
    BY <2>1, <2>2, <2>3 DEF Recorded, Unrecorded, Prefix, AllStops, Answered
  <2>5. EvidenceComplete' BY <1>1, <2>2 DEF EvidenceComplete, AllStops
  <2>6. QED BY <2>4, <2>5
<1>8. CASE StartEvidence(c)
  <2>1. /\ reply[c].exec \in Execs /\ issued[reply[c].exec] = 0
        /\ pc[c] = "first_evidence"
    BY <1>1, <1>8 DEF StartEvidence, Answered, Recorded, Phases
  <2>2. /\ pc'[c] = "retire"
        /\ finish' = [exec |-> reply[c].exec, stops |-> <<>>]
        /\ UNCHANGED <<session, stops, issued>>
    BY <1>1, <1>8, SoloTypes DEF StartEvidence, Goto
  <2>3. Prefix(reply[c].exec, 0) = <<>> BY PrefixEmpty
  <2>4. EvidenceComplete' BY <2>1, <2>2, <2>3 DEF EvidenceComplete, AllStops, Prefix
  <2>5. Recorded(c)' BY <1>1, <2>1, <2>2 DEF Recorded, Unrecorded, AllStops
  <2>6. QED BY <2>4, <2>5
<1>9. QED BY <1>2, <1>3, <1>4, <1>5, <1>6, <1>7, <1>8 DEF Start

LEMMA WholeDrive ==
  ASSUME NEW c, Clients = {c}, Faults \subseteq {"kill"}, WholeInv, Drive(c)
  PROVE  Recorded(c)' /\ EvidenceComplete'
<1> USE DEF disk, vm
<1>1. /\ IInv /\ Solo(c) /\ TypeOK /\ Phases /\ c \in Clients
      /\ Recorded(c) /\ EvidenceComplete
  BY WholeIs, SoloIs DEF IInv, OwnerInv
<1>2. CASE DriveCall(c)
  <2>1. PICK e \in Execs :
          /\ run[e] # "finished" /\ doc[c].exec = e
          /\ \/ \E kind \in {"stopped", "terminal"} : StopAt(c, e, kind, "answered")
             \/ EndOf(c, e, "answered")
    BY <1>2 DEF DriveCall, Reached, Accepts, Owns
  <2>2. /\ UNCHANGED <<session, stops, finish>> /\ pc[c] \in {"advance", "terminate"}
        /\ pc'[c] = "answered"
        /\ session.exec = e /\ session.state = "live"
        /\ \/ /\ issued' = [issued EXCEPT ![e] = @ + 1]
              /\ reply'[c] = [event |-> "stopped", exec |-> e, seq |-> issued[e] + 1]
           \/ issued' = issued /\ reply'[c].event = "finished"
    BY <1>1, <1>2, <2>1, SoloTypes DEF DriveCall, StopAt, EndOf, Goto, Solo, Driving
  <2>3. EvidenceComplete' BY <2>1, <2>2, EvidenceStays
  <2>4. CASE issued' = issued /\ reply'[c].event = "finished"
    BY <2>2, <2>4, WholeMoves DEF Unrecorded
  <2>5. CASE /\ issued' = [issued EXCEPT ![e] = @ + 1]
             /\ reply'[c] = [event |-> "stopped", exec |-> e, seq |-> issued[e] + 1]
    <3>1. issued'[e] = issued[e] + 1 /\ issued[e] \in Nat
      BY <1>1, <2>5, BoundsAssumption DEF TypeOK, DaemonTypes
    <3>2. stops = Prefix(e, issued[e])
      BY <1>1, <2>2 DEF Recorded, Unrecorded, AllStops, Prefix
    <3>3. reply'[c].seq = issued'[e] /\ issued'[e] - 1 = issued[e] BY <2>5, <3>1
    <3>4. stops' = Prefix(session'.exec, issued'[session'.exec] - 1)
      BY <2>2, <3>2, <3>3
    <3>5. /\ Unrecorded(c)' /\ session'.state = "live"
          /\ reply'[c].seq = issued'[session'.exec] /\ pc'[c] = "answered"
      BY <2>2, <2>5, <3>3 DEF Unrecorded
    <3>6. Recorded(c)' BY <3>4, <3>5 DEF Recorded, Prefix
    <3>7. QED BY <2>3, <3>6
  <2>6. QED BY <2>2, <2>4, <2>5
<1>3. CASE DriveCallFails(c)
  <2>1. /\ pc[c] \in {"advance", "terminate"} /\ pc'[c] \in {"idle", "mark"}
        /\ UNCHANGED <<session, stops, finish, issued>>
    BY <1>1, <1>3, SoloTypes DEF DriveCallFails, Fail, Return, Goto
  <2>2. QED BY <2>1, WholeMoves DEF Unrecorded
<1>4. CASE AbsorbStop(c)
  <2>1. /\ pc[c] = "answered" /\ reply[c].event = "stopped" /\ pc'[c] = "history"
        /\ session'.state = "live" /\ session'.exec = session.exec
        /\ UNCHANGED <<stops, finish, issued, reply>>
    BY <1>1, <1>4, SoloTypes DEF AbsorbStop, Goto, locals, Solo, Driving
  <2>2. Recorded(c)' BY <1>1, <2>1 DEF Recorded, Unrecorded, Prefix
  <2>3. EvidenceComplete' BY <1>1, <2>1 DEF EvidenceComplete, AllStops
  <2>4. QED BY <2>2, <2>3
<1>5. CASE ReadStops(c)
  <2>1. /\ pc[c] = "history" /\ pc'[c] = "append"
        /\ UNCHANGED <<session, stops, finish, issued, reply>>
    BY <1>1, <1>5, SoloTypes DEF ReadStops, Goto
  <2>2. Recorded(c)' BY <1>1, <2>1 DEF Recorded, Unrecorded, Prefix
  <2>3. EvidenceComplete' BY <1>1, <2>1 DEF EvidenceComplete, AllStops
  <2>4. QED BY <2>2, <2>3
<1>6. CASE AppendStop(c)
  <2>1. /\ kept[c] = stops /\ session.exec = reply[c].exec /\ reply[c].exec \in Execs
        /\ session.state = "live"
        /\ reply[c].seq = issued[session.exec] /\ reply[c].seq # 0
        /\ stops = Prefix(session.exec, issued[session.exec] - 1)
    <3>1. reply[c].seq \in 1..issued[reply[c].exec] /\ reply[c].exec \in Execs
      BY <1>1, <1>6 DEF AppendStop, Phases, Answered
    <3>2. issued[reply[c].exec] \in Nat
      BY <1>1, <3>1, BoundsAssumption DEF TypeOK, DaemonTypes
    <3>3. QED
      BY <1>1, <1>6, <3>1, <3>2
         DEF AppendStop, Solo, Driving, Shows, Answered, Recorded, Unrecorded
  <2>2. /\ stops' = Bounded(Append(stops, StopOf(reply[c]))) /\ pc'[c] = "idle"
        /\ UNCHANGED <<session, finish, issued>>
    BY <1>1, <1>6, <2>1, SoloTypes DEF AppendStop, Return, Goto
  <2>3. issued[session.exec] \in 0..MaxStops
    BY <1>1, <2>1 DEF TypeOK, DaemonTypes
  <2>4. StopOf(reply[c]) = [exec |-> session.exec, seq |-> issued[session.exec]]
    BY <2>1 DEF StopOf
  <2>5. stops' = Prefix(session.exec, issued[session.exec])
    BY <2>1, <2>2, <2>3, <2>4, PrefixGrows
  <2>6. Recorded(c)' BY <2>1, <2>2, <2>5 DEF Recorded, Unrecorded, AllStops, Prefix
  <2>7. EvidenceComplete' BY <1>1, <2>2 DEF EvidenceComplete, AllStops
  <2>8. QED BY <2>6, <2>7
<1>7. CASE ReadAllStops(c)
  <2>1. /\ pc[c] = "answered" /\ reply[c].event = "finished" /\ pc'[c] = "finalize"
        /\ UNCHANGED <<session, stops, finish, issued>>
    BY <1>1, <1>7, SoloTypes DEF ReadAllStops, Goto
  <2>2. QED BY <2>1, WholeMoves DEF Unrecorded
<1>8. CASE FinishHandle(c)
  <2>1. /\ pc[c] = "finalize" /\ pc'[c] = "evidence" /\ session.state = "live"
        /\ session'.state = "finished" /\ session'.exec = session.exec
        /\ UNCHANGED <<stops, finish, issued>>
    BY <1>1, <1>8, SoloTypes DEF FinishHandle, Goto, Solo, Driving
  <2>2. Recorded(c)' BY <1>1, <2>1 DEF Recorded, Unrecorded, AllStops
  <2>3. EvidenceComplete' BY <1>1, <2>1 DEF EvidenceComplete, AllStops
  <2>4. QED BY <2>2, <2>3
<1>9. CASE FinishEvidence(c)
  <2>1. /\ pc[c] = "evidence" /\ pc'[c] = "farewell"
        /\ session.state = "finished" /\ session.exec = reply[c].exec
        /\ finish' = [exec |-> reply[c].exec, stops |-> stops]
        /\ UNCHANGED <<session, stops, issued>>
    BY <1>1, <1>9, SoloTypes DEF FinishEvidence, Goto, Solo, Driving, Shows, Answered
  <2>2. stops = AllStops(session.exec) BY <1>1, <2>1 DEF Recorded, Unrecorded
  <2>3. EvidenceComplete' BY <2>1, <2>2 DEF EvidenceComplete, AllStops
  <2>4. Recorded(c)' BY <2>1, <2>2 DEF Recorded, Unrecorded, AllStops
  <2>5. QED BY <2>3, <2>4
<1>10. CASE FinishShutdown(c)
  <2>1. /\ pc[c] = "farewell" /\ pc'[c] \in {"idle", "linger"}
        /\ UNCHANGED <<session, stops, finish, issued>>
    BY <1>1, <1>10, SoloTypes DEF FinishShutdown, Return, Goto
  <2>2. QED BY <2>1, WholeMoves DEF Unrecorded
<1>11. QED
  BY <1>2, <1>3, <1>4, <1>5, <1>6, <1>7, <1>8, <1>9, <1>10 DEF Drive

LEMMA WholeClose ==
  ASSUME NEW c, Clients = {c}, WholeInv, Close(c)
  PROVE  Recorded(c)' /\ EvidenceComplete'
<1> USE DEF disk, vm
<1>1. /\ IInv /\ Solo(c) /\ TypeOK /\ c \in Clients
      /\ Recorded(c) /\ EvidenceComplete
  BY WholeIs, SoloIs DEF IInv, OwnerInv
<1>2. CASE CloseReread(c) \/ CloseShutdown(c)
  <2>1. /\ pc[c] \in {"reread", "linger"} /\ pc'[c] \in {"idle", "mark", "terminate", "list"}
        /\ UNCHANGED <<session, stops, finish, issued>>
    BY <1>1, <1>2, SoloTypes DEF CloseReread, CloseShutdown, Fail, Return, Goto
  <2>2. QED BY <2>1, WholeMoves DEF Unrecorded
<1>3. CASE CloseMark(c)
  <2>1. /\ pc[c] = "mark" /\ pc'[c] = "linger" /\ session.state # "absent"
        /\ session'.state = "closed" /\ session'.exec = session.exec
        /\ UNCHANGED <<stops, finish, issued>>
    BY <1>1, <1>3, SoloTypes DEF CloseMark, Goto, Solo, Ending
  <2>2. Recorded(c)' BY <1>1, <2>1 DEF Recorded, Unrecorded, AllStops
  <2>3. EvidenceComplete' BY <1>1, <2>1 DEF EvidenceComplete, AllStops
  <2>4. QED BY <2>2, <2>3
<1>4. CASE WipeList(c)
  <2>1. /\ pc[c] = "list" /\ pc'[c] = "wipe" /\ todo'[c] = Listed
        /\ UNCHANGED <<session, stops, finish, issued>>
    BY <1>1, <1>4, SoloTypes DEF WipeList, Goto
  <2>2. "stops.json" \notin Listed => stops = <<>> BY DEF Listed, Files
  <2>3. Recorded(c)' BY <2>1, <2>2 DEF Recorded, Unrecorded
  <2>4. EvidenceComplete' BY <1>1, <2>1 DEF EvidenceComplete, AllStops
  <2>5. QED BY <2>3, <2>4
<1>5. CASE WipeOne(c)
  <2>1. PICK f \in todo[c] : Unlink(f) /\ todo'[c] = todo[c] \ {f}
    BY <1>1, <1>5, SoloTypes DEF WipeOne
  <2>2. UNCHANGED <<issued, pc>> /\ pc[c] = "wipe" BY <1>5 DEF WipeOne
  <2>3. /\ stops' \in {stops, <<>>}
        /\ f = "stops.json" => stops' = <<>>
        /\ finish' \in {finish, NoEvidence}
    BY <2>1 DEF Unlink
  <2>4. Recorded(c)' BY <1>1, <2>1, <2>2, <2>3 DEF Recorded, Unrecorded
  <2>5. EvidenceComplete'
    <3>1. CASE finish' = finish BY <1>1, <2>2, <3>1 DEF EvidenceComplete, AllStops
    <3>2. CASE finish' = NoEvidence BY <3>2 DEF EvidenceComplete, NoEvidence
    <3>3. QED BY <2>3, <3>1, <3>2
  <2>6. QED BY <2>4, <2>5
<1>6. CASE WipeDone(c)
  <2>1. /\ session = Absent /\ stops = <<>> /\ pc'[c] = "idle"
        /\ UNCHANGED <<session, stops, finish, issued>>
    BY <1>1, <1>6, SoloTypes DEF WipeDone, Return, Goto, Solo, Ending, Recorded
  <2>2. Recorded(c)' BY <2>1 DEF Recorded, Unrecorded, Absent
  <2>3. EvidenceComplete' BY <1>1, <2>1 DEF EvidenceComplete, AllStops
  <2>4. QED BY <2>2, <2>3
<1>7. QED BY <1>2, <1>3, <1>4, <1>5, <1>6 DEF Close

LEMMA WholeInit ==
  ASSUME NEW c, Clients = {c}, Init
  PROVE  WholeInv
<1>1. SoloInv BY SoloInit
<1>2. Recorded(c) /\ EvidenceComplete
  BY DEF Init, Recorded, Unrecorded, EvidenceComplete, NoEvidence, Absent
<1>3. QED BY <1>1, <1>2, WholeIs

LEMMA WholeStep ==
  ASSUME NEW c, Clients = {c}, Faults \subseteq {"kill"}, WholeInv, [Next]_vars
  PROVE  WholeInv'
<1>1. SoloInv /\ Recorded(c) /\ EvidenceComplete BY WholeIs
<1>2. SoloInv' BY <1>1, SoloStep
<1>3. Recorded(c)' /\ EvidenceComplete'
  <2>1. CASE UNCHANGED vars \/ \E e \in Execs : KillDaemon(e)
    <3>1. UNCHANGED <<session, stops, finish, issued, pc, todo, reply>>
      BY <2>1 DEF vars, disk, vm, locals, KillDaemon
    <3>2. QED
      BY <1>1, <3>1 DEF Recorded, Unrecorded, EvidenceComplete, AllStops, Prefix, Answered
  <2>2. CASE Invoke(c)
    <3>1. c \in Clients /\ TypeOK BY <1>1, SoloIs DEF IInv, OwnerInv
    <3>2. /\ pc[c] = "idle"
          /\ pc'[c] \in {"spawn", "advance", "terminate", "list", "reread", "mark"}
          /\ UNCHANGED <<session, stops, finish, issued>>
      BY <2>2, <3>1, SoloTypes
         DEF Invoke, StartCheck, DriveRead, CloseRead, Goto, disk, vm
    <3>3. QED BY <1>1, <3>2, WholeIs, WholeMoves DEF Unrecorded
  <2>3. CASE Proceed(c)
    BY <1>1, <2>3, WholeIs, WholeStart, WholeDrive, WholeClose DEF Proceed
  <2>4. ~AnswerLost(c) /\ ~Crash(c) BY DEF AnswerLost, Crash
  <2>5. QED BY <2>1, <2>2, <2>3, <2>4 DEF Next
<1>4. QED BY <1>2, <1>3, WholeIs

\* The inductive invariant for one client when only daemons may die.
THEOREM WholeInvariant ==
  ASSUME NEW c, Clients = {c}, Faults \subseteq {"kill"}
  PROVE  Spec => []WholeInv
BY WholeInit, WholeStep, PTL DEF Spec

\* When no command runs, stops.json holds every stop of the execution that
\* MAX_STOP_HISTORY leaves room for (HistoryComplete).
THEOREM HistoryWhole ==
  ASSUME NEW c, Clients = {c}, Faults \subseteq {"kill"}
  PROVE  Spec => []HistoryComplete
<1>1. WholeInv => HistoryComplete
  BY WholeIs DEF HistoryComplete, Settled, Recorded, Unrecorded
<1>2. QED BY <1>1, WholeInvariant, PTL

\* Terminal evidence carries the whole history (EvidenceComplete): the stops
\* _absorb_event read before it marked the handle are all there were.
THEOREM EvidenceWhole ==
  ASSUME NEW c, Clients = {c}, Faults \subseteq {"kill"}
  PROVE  Spec => []EvidenceComplete
<1>1. WholeInv => EvidenceComplete BY DEF WholeInv
<1>2. QED BY <1>1, WholeInvariant, PTL

\* The stop that is appended is the last one kept.
LEMMA BoundedLast ==
  ASSUME NEW S, NEW s \in Seq(S), NEW x \in S
  PROVE  LET t == Bounded(Append(s, x)) IN t[Len(t)] = x
<1> Append(s, x) \in Seq(S) OBVIOUS
<1>1. PICK a \in Seq(S) : a = Append(s, x) OBVIOUS
<1>2. Len(a) = Len(s) + 1 /\ a[Len(a)] = x /\ Len(s) \in Nat BY <1>1
<1>3. PICK k \in 0..Len(a) :
        /\ Len(Bounded(a)) = Len(a) - k
        /\ \A i \in 1..Len(Bounded(a)) : Bounded(a)[i] = a[i + k]
  BY BoundedIsSuffix
<1>4. Len(Bounded(a)) # 0
  <2>1. CASE Len(a) <= MaxHistory BY <1>2, <2>1 DEF Bounded
  <2>2. CASE ~(Len(a) <= MaxHistory)
    <3>1. Len(a) - MaxHistory + 1 \in 1..Len(a) BY <1>2, <2>2, BoundsAssumption
    <3>2. Len(SubSeq(a, Len(a) - MaxHistory + 1, Len(a))) = MaxHistory
      BY <1>2, <3>1, BoundsAssumption
    <3>3. QED BY <2>2, <3>2, BoundsAssumption DEF Bounded
  <2>3. QED BY <2>1, <2>2
<1>5. Len(Bounded(a)) \in 1..Len(Bounded(a)) /\ Len(Bounded(a)) + k = Len(a)
  BY <1>2, <1>3, <1>4
<1>6. Bounded(a)[Len(Bounded(a))] = x BY <1>2, <1>3, <1>5
<1>7. QED BY <1>1, <1>6

\* stops.json only grows at its end (StopsAppendOnly): no update is lost while
\* one client works on the directory and nothing cuts it short.
THEOREM AppendOnly ==
  ASSUME NEW c, Clients = {c}, Faults \subseteq {"kill"}
  PROVE  Spec => StopsAppendOnly
<1>1. ASSUME WholeInv, [Next]_vars, stops' # stops
      PROVE  \/ stops' = <<>>
             \/ stops' = Bounded(Append(stops, stops'[Len(stops')]))
  <2>1. /\ TypeOK /\ Phases /\ IInv /\ Solo(c) /\ Recorded(c) /\ c \in Clients
        /\ stops \in Seq(Stop)
    BY <1>1, WholeIs, SoloIs DEF IInv, OwnerInv, TypeOK, DiskTypes
  <2>2. CASE StartHistory(c)
    <3>1. /\ issued[session.exec] = 1
          /\ stops = Prefix(session.exec, issued[session.exec] - 1)
      BY <2>1, <2>2 DEF StartHistory, Solo, Starting, Recorded, Unrecorded
    <3>2. stops = <<>> BY <3>1, PrefixEmpty
    <3>3. stops' = <<StopOf(reply[c])>> BY <2>2 DEF StartHistory
    <3>4. Append(stops, stops'[Len(stops')]) = stops' /\ Len(stops') = 1
      BY <3>2, <3>3
    <3>5. QED BY <3>4, BoundsAssumption DEF Bounded
  <2>3. CASE AppendStop(c)
    <3>1. StopOf(reply[c]) \in Stop BY <2>1, <2>3, AnsweredStop DEF AppendStop, Phases
    <3>2. stops' = Bounded(Append(stops, StopOf(reply[c])))
      BY <2>1, <2>3 DEF AppendStop, Solo, Driving
    <3>3. QED BY <2>1, <3>1, <3>2, BoundedLast
  <2>4. CASE WipeOne(c) BY <1>1, <2>4 DEF WipeOne, Unlink
  <2>5. CASE Invoke(c) \/ AnswerLost(c) \/ Crash(c) \/ \E e \in Execs : KillDaemon(e)
    BY <1>1, <2>5
       DEF Invoke, StartCheck, DriveRead, CloseRead, AnswerLost, Crash, KillDaemon, disk
  <2>6. CASE Start(c) /\ ~StartHistory(c)
    BY <1>1, <2>6
       DEF Start, StartSpawn, StartSpawnFails, StartWaitFails, StartCall, StartCallFails,
           StartLive, StartFinished, StartEvidence, StartRetire, disk
  <2>7. CASE Drive(c) /\ ~AppendStop(c)
    BY <1>1, <2>7
       DEF Drive, DriveCall, DriveCallFails, AbsorbStop, ReadStops, ReadAllStops,
           FinishHandle, FinishEvidence, FinishShutdown, disk
  <2>8. CASE Close(c) /\ ~WipeOne(c)
    BY <1>1, <2>8
       DEF Close, CloseReread, CloseMark, CloseShutdown, WipeList, WipeDone, disk
  <2>9. Next BY <1>1 DEF vars, disk
  <2>10. QED
    BY <2>2, <2>3, <2>4, <2>5, <2>6, <2>7, <2>8, <2>9 DEF Next, Proceed
<1>2. WholeInv /\ [Next]_vars =>
        [\/ stops' = <<>>
         \/ stops' = Bounded(Append(stops, stops'[Len(stops')]))]_stops
  BY <1>1
<1>3. QED BY <1>2, WholeInvariant, PTL DEF Spec, StopsAppendOnly

-----------------------------------------------------------------------------
(***************************************************************************)
(* Any clients, one of which may start a session, none of which removes    *)
(* it, and only daemons die: no daemon is forgotten.                       *)
(***************************************************************************)

\* Who looks after a daemon that is up: the start that spawned it, the client
\* that was told its newest stop or its end, or one about to shut it down.
Keeps(c, e) ==
  \/ pc[c] \in {"begin", "opened", "first_evidence", "retire"} /\ child[c] = e
  \/ pc[c] = "answered" /\ Answered(c) = e
  \/ pc[c] \in {"finalize", "evidence"} /\ Answered(c) = e
  \/ pc[c] \in {"farewell", "linger"}

\* ... or the handle, for whoever reads it next.
Driven(e) ==
  session.state = "live" /\ session.exec = e /\ session.token = issued[e]

Tending ==
  \A e \in Execs : proc[e] = "up" =>
    /\ socket = e
    /\ session.state # "absent" => session.exec = e
    /\ Driven(e) \/ \E c \in Clients : Keeps(c, e)

\* A start happens before there is a handle, everything else after it.
Staged(c) ==
  /\ pc[c] \in {"spawn", "begin", "opened", "first_stop", "first_evidence", "retire"} =>
       c \in Starters
  /\ session.state = "absent" =>
       pc[c] \in {"idle", "spawn", "begin", "opened", "retire"}
  /\ session.state # "absent" => pc[c] \notin {"spawn", "begin", "opened"}
  /\ pc[c] = "opened" => Answered(c) = child[c]

\* There is one execution: every copy of the handle is of that one.
OneRun(c) ==
  /\ pc[c] \in {"advance", "terminate", "answered", "finalize"} =>
       doc[c].exec = session.exec
  /\ pc[c] \in {"idle", "advance"} => closing[c] = "no"
  /\ \/ pc[c] \in {"reread", "mark"}
     \/ closing[c] # "no" /\ pc[c] \in {"terminate", "answered"}
     => first[c].exec = session.exec
  /\ closing[c] # "remove" /\ pc[c] \notin {"list", "wipe"}

\* The inductive invariant for one starter, no removal, and only daemons dying.
TendedInv ==
  /\ IInv
  /\ Tending
  /\ \A c \in Clients : Staged(c) /\ OneRun(c)

\* What a step of c leaves alone.
Others(c) ==
  \A d \in Clients \ {c} :
    /\ pc'[d] = pc[d] /\ closing'[d] = closing[d] /\ doc'[d] = doc[d]
    /\ first'[d] = first[d] /\ child'[d] = child[d] /\ reply'[d] = reply[d]

Disciplined ==
  /\ \A c, d \in Starters : c = d
  /\ TRUE \notin Removals
  /\ Faults \subseteq {"kill"}

LEMMA OthersReturn ==
  ASSUME TypeOK, NEW c \in Clients, Return(c)
  PROVE  Others(c) /\ pc'[c] = "idle" /\ closing'[c] = "no"
BY SoloTypes DEF Return, Goto, Others

LEMMA OthersGoto ==
  ASSUME TypeOK, NEW c \in Clients, NEW label, Goto(c, label), UNCHANGED locals
  PROVE  /\ Others(c) /\ pc'[c] = label
         /\ UNCHANGED <<doc, first, closing, child, reply, kept, todo>>
BY SoloTypes DEF Goto, Others, locals

\* A step of c that keeps the handle's execution is about c only.
LEMMA StageOfOne ==
  ASSUME TendedInv, NEW c \in Clients, Others(c),
         session'.exec = session.exec,
         session'.state = "absent" <=> session.state = "absent",
         Staged(c)', OneRun(c)'
  PROVE  \A d \in Clients : Staged(d)' /\ OneRun(d)'
<1>1. ASSUME NEW d \in Clients \ {c} PROVE Staged(d)' /\ OneRun(d)'
  BY <1>1 DEF TendedInv, Others, Staged, OneRun, Answered
<1>2. QED BY <1>1

\* Nothing is left to look after, or nobody stops looking after it.
LEMMA NothingUp ==
  ASSUME \A e \in Execs : proc'[e] # "up"
  PROVE  Tending'
BY DEF Tending

LEMMA StillTended ==
  ASSUME TendedInv, NEW c \in Clients, Others(c),
         \A e \in Execs : proc'[e] = "up" => proc[e] = "up",
         \A e \in Execs : Keeps(c, e) => Keeps(c, e)',
         UNCHANGED <<session, socket, issued>>
  PROVE  Tending'
<1>1. ASSUME NEW e \in Execs, proc'[e] = "up"
      PROVE  Driven(e)' \/ \E d \in Clients : Keeps(d, e)'
  <2>1. CASE Driven(e) BY <2>1 DEF Driven
  <2>2. CASE \E d \in Clients : Keeps(d, e)
    BY <2>2 DEF Others, Keeps, Answered
  <2>3. QED BY <1>1, <2>1, <2>2 DEF TendedInv, Tending
<1>2. QED BY <1>1 DEF TendedInv, Tending

\* A call that reaches the daemon shuts the only one down that is up.
LEMMA ShutDown ==
  ASSUME TendedInv, Disciplined, ShutdownCall
  PROVE  \A e \in Execs : proc'[e] # "up"
BY DEF Disciplined, ShutdownCall, Reached, TendedInv, Tending

LEMMA TendedStart ==
  ASSUME TendedInv, Disciplined, NEW c \in Clients, Start(c)
  PROVE  Tending' /\ \A d \in Clients : Staged(d)' /\ OneRun(d)'
<1> USE DEF disk, vm
<1>1. IInv /\ TypeOK /\ Phases /\ Staged(c) /\ OneRun(c) BY DEF TendedInv, IInv, OwnerInv
<1>2. proc \in [Execs -> {"unborn", "up", "down"}] BY <1>1 DEF TypeOK, DaemonTypes
\* Before there is a handle, the daemon that is up is the child of the start.
<1>3. ASSUME pc[c] \in {"spawn", "begin", "opened"}, NEW e \in Execs, proc[e] = "up"
      PROVE  pc[c] # "spawn" /\ child[c] = e /\ socket = e
  <2>1. session.state = "absent" /\ c \in Starters BY <1>1, <1>3 DEF Staged
  <2>2. PICK d \in Clients : Keeps(d, e)
    BY <1>3, <2>1 DEF TendedInv, Tending, Driven
  <2>3. pc[d] \in {"begin", "opened", "retire"} /\ d \in Starters /\ child[d] = e
    BY <2>1, <2>2 DEF TendedInv, Staged, Keeps
  <2>4. d = c BY <2>1, <2>3 DEF Disciplined
  <2>5. QED BY <1>3, <2>3, <2>4 DEF TendedInv, Tending
<1>4. CASE StartSpawn(c)
  <2>1. PICK e \in Execs :
          /\ proc' = [proc EXCEPT ![e] = "up"] /\ socket' = e
          /\ child' = [child EXCEPT ![c] = e]
    BY <1>4 DEF StartSpawn
  <2>2. /\ Others(c) /\ pc[c] = "spawn" /\ pc'[c] = "begin" /\ child'[c] = e
        /\ UNCHANGED <<session, closing>>
    BY <1>1, <1>4, <2>1, SoloTypes DEF StartSpawn, Goto, Others
  <2>3. \A d \in Execs : proc'[d] = "up" => d = e BY <1>2, <1>3, <2>1, <2>2
  <2>4. session.state = "absent" BY <1>1, <2>2 DEF Staged
  <2>5. Keeps(c, e)' BY <2>2 DEF Keeps
  <2>6. Tending' BY <2>1, <2>2, <2>3, <2>4, <2>5 DEF Tending
  <2>7. Staged(c)' /\ OneRun(c)' BY <1>1, <2>2, <2>4 DEF Staged, OneRun
  <2>8. QED BY <2>2, <2>6, <2>7, StageOfOne
<1>5. CASE StartSpawnFails(c) \/ StartWaitFails(c)
  <2>1. /\ Others(c) /\ pc'[c] = "idle" /\ closing'[c] = "no"
        /\ pc[c] \in {"spawn", "begin"} /\ UNCHANGED session
    BY <1>1, <1>5, OthersReturn DEF StartSpawnFails, StartWaitFails
  <2>2. \A e \in Execs : proc'[e] # "up"
    BY <1>2, <1>3, <1>5 DEF StartSpawnFails, StartWaitFails
  <2>3. Staged(c)' /\ OneRun(c)' BY <2>1 DEF Staged, OneRun
  <2>4. QED BY <2>1, <2>2, <2>3, NothingUp, StageOfOne
<1>6. CASE StartCall(c)
  <2>1. PICK e \in Execs :
          /\ socket = e /\ proc[e] = "up"
          /\ \/ \E kind \in {"stopped", "terminal"} : StopAt(c, e, kind, "opened")
             \/ EndOf(c, e, "opened")
    BY <1>6 DEF StartCall, Reached
  <2>2. /\ Others(c) /\ pc[c] = "begin" /\ pc'[c] = "opened" /\ reply'[c].exec = e
        /\ UNCHANGED <<session, socket, proc, child, closing>>
    BY <1>1, <1>6, <2>1, SoloTypes DEF StartCall, StopAt, EndOf, Goto, Others
  <2>3. child[c] = e /\ \A d \in Execs : proc[d] = "up" => d = e
    BY <1>3, <2>1, <2>2
  <2>4. Keeps(c, e)' BY <2>2, <2>3 DEF Keeps
  <2>5. session.state = "absent" BY <1>1, <2>2 DEF Staged
  <2>6. Tending' BY <2>1, <2>2, <2>3, <2>4, <2>5 DEF Tending
  <2>7. Staged(c)' /\ OneRun(c)' BY <1>1, <2>2, <2>3, <2>5 DEF Staged, OneRun, Answered
  <2>8. QED BY <2>2, <2>6, <2>7, StageOfOne
<1>7. CASE StartCallFails(c)
  <2>1. /\ Others(c) /\ pc[c] = "begin" /\ pc'[c] = "retire"
        /\ UNCHANGED <<session, socket, proc, issued, child, closing>>
    BY <1>1, <1>7, OthersGoto DEF StartCallFails
  <2>2. Tending' BY <2>1, StillTended DEF Keeps
  <2>3. Staged(c)' /\ OneRun(c)' BY <1>1, <2>1 DEF Staged, OneRun
  <2>4. QED BY <2>1, <2>2, <2>3, StageOfOne
<1>8. CASE StartLive(c) \/ StartFinished(c)
  <2>1. /\ Others(c) /\ pc[c] = "opened"
        /\ UNCHANGED <<socket, proc, issued, child, closing, reply>>
        /\ session'.exec = child[c] /\ reply[c].exec = child[c]
    BY <1>1, <1>8, OthersGoto DEF StartLive, StartFinished, Staged, Answered
  <2>2. \/ /\ pc'[c] = "first_stop" /\ session'.state = "live"
           /\ session'.token = issued[child[c]]
        \/ pc'[c] = "first_evidence" /\ session'.state = "finished"
    <3>1. CASE StartLive(c)
      <4>1. reply[c].seq = issued[child[c]]
        BY <1>1, <2>1, <3>1
           DEF StartLive, IInv, OwnerInv, Custody, StopInHand, Answered
      <4>2. QED BY <1>1, <3>1, <4>1, OthersGoto DEF StartLive
    <3>2. CASE StartFinished(c)
      BY <1>1, <3>2, OthersGoto DEF StartFinished
    <3>3. QED BY <1>8, <3>1, <3>2
  <2>3. Tending'
    <3>1. ASSUME NEW e \in Execs, proc'[e] = "up"
          PROVE  socket' = e /\ session'.exec = e /\ (Driven(e)' \/ Keeps(c, e)')
      BY <1>3, <2>1, <2>2, <3>1 DEF Driven, Keeps
    <3>2. QED BY <3>1 DEF Tending
  <2>4. c \in Starters /\ session.state = "absent" BY <1>1, <2>1 DEF Staged
  <2>5. Staged(c)' /\ OneRun(c)' BY <1>1, <2>1, <2>2, <2>4 DEF Staged, OneRun
  <2>6. ASSUME NEW d \in Clients \ {c} PROVE Staged(d)' /\ OneRun(d)'
    <3>1. pc[d] = "idle"
      BY <2>4 DEF TendedInv, Staged, Disciplined
    <3>2. pc'[d] = "idle" /\ closing'[d] = closing[d] BY <2>1, <3>1 DEF Others
    <3>3. OneRun(d) BY DEF TendedInv
    <3>4. QED BY <2>2, <3>1, <3>2, <3>3 DEF Staged, OneRun
  <2>7. QED BY <2>3, <2>5, <2>6
<1>9. CASE StartHistory(c)
  <2>1. /\ Others(c) /\ pc[c] = "first_stop" /\ pc'[c] = "idle" /\ closing'[c] = "no"
        /\ UNCHANGED <<session, socket, proc, issued>>
    BY <1>1, <1>9, OthersReturn DEF StartHistory
  <2>2. Tending' BY <2>1, StillTended DEF Keeps
  <2>3. Staged(c)' /\ OneRun(c)' BY <1>1, <2>1 DEF Staged, OneRun
  <2>4. QED BY <2>1, <2>2, <2>3, StageOfOne
<1>10. CASE StartEvidence(c)
  <2>1. /\ Others(c) /\ pc[c] = "first_evidence" /\ pc'[c] = "retire"
        /\ UNCHANGED <<session, socket, proc, issued, child, closing>>
    BY <1>1, <1>10, OthersGoto DEF StartEvidence
  <2>2. Tending' BY <2>1, StillTended DEF Keeps
  <2>3. Staged(c)' /\ OneRun(c)' BY <1>1, <2>1 DEF Staged, OneRun
  <2>4. QED BY <2>1, <2>2, <2>3, StageOfOne
<1>11. CASE StartRetire(c)
  <2>1. /\ Others(c) /\ pc[c] = "retire" /\ pc'[c] = "idle" /\ closing'[c] = "no"
        /\ UNCHANGED session
    BY <1>1, <1>11, OthersReturn DEF StartRetire
  <2>2. \A e \in Execs : proc'[e] # "up"
    BY <1>11 DEF StartRetire, Reached, Disciplined, TendedInv, Tending
  <2>3. Staged(c)' /\ OneRun(c)' BY <1>1, <2>1 DEF Staged, OneRun
  <2>4. QED BY <2>1, <2>2, <2>3, NothingUp, StageOfOne
<1>12. QED
  BY <1>4, <1>5, <1>6, <1>7, <1>8, <1>9, <1>10, <1>11 DEF Start

LEMMA TendedDrive ==
  ASSUME TendedInv, Disciplined, NEW c \in Clients, Drive(c)
  PROVE  Tending' /\ \A d \in Clients : Staged(d)' /\ OneRun(d)'
<1> USE DEF disk, vm
<1>1. IInv /\ TypeOK /\ Phases /\ Staged(c) /\ OneRun(c) BY DEF TendedInv, IInv, OwnerInv
\* There is a handle, and it is of the daemon that is up.
<1>2. session.state # "absent"
  BY <1>1
     DEF Staged, Drive, DriveCall, DriveCallFails, AbsorbStop, ReadStops, AppendStop,
         ReadAllStops, FinishHandle, FinishEvidence, FinishShutdown
<1>3. \A e \in Execs : proc[e] = "up" => socket = e /\ session.exec = e
  BY <1>2 DEF TendedInv, Tending
<1>4. CASE DriveCall(c)
  <2>1. PICK e \in Execs :
          /\ socket = e /\ proc[e] = "up"
          /\ \/ \E kind \in {"stopped", "terminal"} : StopAt(c, e, kind, "answered")
             \/ EndOf(c, e, "answered")
    BY <1>4 DEF DriveCall, Reached
  <2>2. /\ Others(c) /\ pc[c] \in {"advance", "terminate"} /\ pc'[c] = "answered"
        /\ reply'[c].exec = e
        /\ UNCHANGED <<session, socket, proc, closing, doc, first>>
    BY <1>1, <1>4, <2>1, SoloTypes DEF DriveCall, StopAt, EndOf, Goto, Others
  <2>3. Keeps(c, e)' BY <2>2 DEF Keeps, Answered
  <2>4. Tending' BY <1>3, <2>1, <2>2, <2>3 DEF Tending
  <2>5. Staged(c)' /\ OneRun(c)' BY <1>1, <1>2, <2>2 DEF Staged, OneRun
  <2>6. QED BY <2>2, <2>4, <2>5, StageOfOne
<1>5. CASE DriveCallFails(c)
  <2>1. pc[c] \in {"advance", "terminate"} /\ UNCHANGED <<session, socket, proc, issued>>
    BY <1>5 DEF DriveCallFails
  <2>2. /\ Others(c)
        /\ \/ pc'[c] = "idle" /\ closing'[c] = "no"
           \/ pc'[c] = "mark" /\ closing[c] # "no" /\ UNCHANGED <<closing, first>>
    BY <1>1, <1>5, OthersReturn, OthersGoto DEF DriveCallFails, Fail
  <2>3. Tending' BY <2>1, <2>2, StillTended DEF Keeps
  <2>4. Staged(c)' /\ OneRun(c)' BY <1>1, <1>2, <2>1, <2>2 DEF Staged, OneRun
  <2>5. QED BY <2>1, <2>2, <2>3, <2>4, StageOfOne
<1>6. CASE AbsorbStop(c)
  <2>1. /\ Others(c) /\ pc[c] = "answered" /\ pc'[c] = "history"
        /\ UNCHANGED <<socket, proc, issued, closing, first>>
    BY <1>1, <1>6, OthersGoto DEF AbsorbStop
  <2>2. /\ doc[c].exec = session.exec /\ doc[c].exec = Answered(c)
        /\ doc[c].state = "live"
    BY <1>1, <2>1 DEF OneRun, Phases
  <2>3. reply[c].seq = issued[Answered(c)]
    BY <1>1, <1>6, <2>1 DEF AbsorbStop, IInv, OwnerInv, Custody, StopInHand
  <2>4. /\ session'.state = "live" /\ session'.exec = session.exec
        /\ session'.token = issued[session.exec]
    BY <1>6, <2>2, <2>3 DEF AbsorbStop
  <2>5. Tending' BY <1>3, <2>1, <2>4 DEF Tending, Driven
  <2>6. Staged(c)' /\ OneRun(c)' BY <1>1, <2>1, <2>4 DEF Staged, OneRun
  <2>7. QED BY <1>2, <2>1, <2>4, <2>5, <2>6, StageOfOne
<1>7. CASE ReadStops(c) \/ ReadAllStops(c)
  <2>1. /\ Others(c) /\ UNCHANGED <<session, socket, proc, issued, closing, first, doc, reply>>
        /\ \/ pc[c] = "history" /\ pc'[c] = "append"
           \/ pc[c] = "answered" /\ pc'[c] = "finalize"
    BY <1>1, <1>7, SoloTypes DEF ReadStops, ReadAllStops, Goto, Others
  <2>2. Tending' BY <2>1, StillTended DEF Keeps, Answered
  <2>3. Staged(c)' /\ OneRun(c)' BY <1>1, <1>2, <2>1 DEF Staged, OneRun
  <2>4. QED BY <2>1, <2>2, <2>3, StageOfOne
<1>8. CASE AppendStop(c)
  <2>1. /\ Others(c) /\ pc[c] = "append" /\ pc'[c] = "idle" /\ closing'[c] = "no"
        /\ UNCHANGED <<session, socket, proc, issued>>
    BY <1>1, <1>8, OthersReturn DEF AppendStop
  <2>2. Tending' BY <2>1, StillTended DEF Keeps
  <2>3. Staged(c)' /\ OneRun(c)' BY <1>1, <2>1 DEF Staged, OneRun
  <2>4. QED BY <2>1, <2>2, <2>3, StageOfOne
<1>9. CASE FinishHandle(c)
  <2>1. /\ Others(c) /\ pc[c] = "finalize" /\ pc'[c] = "evidence"
        /\ UNCHANGED <<socket, proc, issued, closing, first, reply>>
    BY <1>1, <1>9, OthersGoto DEF FinishHandle
  <2>2. doc[c].exec = session.exec /\ doc[c].exec = Answered(c)
    BY <1>1, <2>1 DEF OneRun, Phases
  <2>3. session'.state = "finished" /\ session'.exec = session.exec
    BY <1>9, <2>2 DEF FinishHandle
  <2>4. Keeps(c, session.exec)' BY <2>1, <2>2, <2>3 DEF Keeps, Answered
  <2>5. Tending' BY <1>3, <2>1, <2>3, <2>4 DEF Tending
  <2>6. Staged(c)' /\ OneRun(c)' BY <1>1, <2>1, <2>3 DEF Staged, OneRun
  <2>7. QED BY <1>2, <2>1, <2>3, <2>5, <2>6, StageOfOne
<1>10. CASE FinishEvidence(c)
  <2>1. /\ Others(c) /\ pc[c] = "evidence" /\ pc'[c] = "farewell"
        /\ UNCHANGED <<session, socket, proc, issued, closing>>
    BY <1>1, <1>10, OthersGoto DEF FinishEvidence
  <2>2. Tending' BY <2>1, StillTended DEF Keeps
  <2>3. Staged(c)' /\ OneRun(c)' BY <1>1, <1>2, <2>1 DEF Staged, OneRun
  <2>4. QED BY <2>1, <2>2, <2>3, StageOfOne
<1>11. CASE FinishShutdown(c)
  <2>1. /\ Others(c) /\ UNCHANGED session
        /\ \/ pc'[c] = "idle" /\ closing'[c] = "no"
           \/ pc'[c] = "linger" /\ UNCHANGED closing
    BY <1>1, <1>11, OthersReturn, OthersGoto DEF FinishShutdown
  <2>2. Tending' BY <1>11, ShutDown, NothingUp DEF FinishShutdown
  <2>3. Staged(c)' /\ OneRun(c)' BY <1>1, <1>2, <2>1 DEF Staged, OneRun
  <2>4. QED BY <2>1, <2>2, <2>3, StageOfOne
<1>12. QED
  BY <1>4, <1>5, <1>6, <1>7, <1>8, <1>9, <1>10, <1>11 DEF Drive

LEMMA TendedClose ==
  ASSUME TendedInv, Disciplined, NEW c \in Clients, Close(c)
  PROVE  Tending' /\ \A d \in Clients : Staged(d)' /\ OneRun(d)'
<1> USE DEF disk, vm
<1>1. IInv /\ TypeOK /\ Staged(c) /\ OneRun(c) BY DEF TendedInv, IInv, OwnerInv
<1>2. pc[c] \notin {"list", "wipe"} /\ closing[c] # "remove" BY <1>1 DEF OneRun
<1>3. session.state # "absent"
  BY <1>1, <1>2 DEF Staged, Close, CloseReread, CloseMark, CloseShutdown, WipeList, WipeOne, WipeDone
<1>4. CASE CloseReread(c)
  <2>1. /\ Others(c) /\ pc[c] = "reread" /\ UNCHANGED <<session, socket, proc, issued>>
        /\ \/ pc'[c] = "terminate" /\ doc'[c] = session /\ UNCHANGED <<closing, first>>
           \/ pc'[c] = "mark" /\ UNCHANGED <<closing, first>>
           \/ pc'[c] = "idle" /\ closing'[c] = "no"
    <3>1. CASE Goto(c, "terminate") /\ doc' = [doc EXCEPT ![c] = session]
               /\ UNCHANGED <<first, closing, child, reply, kept, todo>>
      BY <1>1, <1>4, <3>1, SoloTypes DEF CloseReread, Goto, Others
    <3>2. CASE Fail(c) \/ Return(c)
      BY <1>1, <1>4, <3>2, OthersReturn, OthersGoto DEF CloseReread, Fail
    <3>3. QED BY <1>4, <3>1, <3>2 DEF CloseReread
  <2>2. Tending' BY <2>1, StillTended DEF Keeps
  <2>3. Staged(c)' /\ OneRun(c)' BY <1>1, <1>3, <2>1 DEF Staged, OneRun
  <2>4. QED BY <2>1, <2>2, <2>3, StageOfOne
<1>5. CASE CloseMark(c)
  <2>1. /\ Others(c) /\ pc[c] = "mark" /\ pc'[c] = "linger"
        /\ UNCHANGED <<socket, proc, issued, closing>>
    BY <1>1, <1>5, OthersGoto DEF CloseMark
  <2>2. session'.state = "closed" /\ session'.exec = session.exec
    BY <1>1, <1>5, <2>1 DEF OneRun, CloseMark
  <2>3. \A e \in Execs : Keeps(c, e)' BY <2>1 DEF Keeps
  <2>4. Tending' BY <1>3, <2>1, <2>2, <2>3 DEF TendedInv, Tending
  <2>5. Staged(c)' /\ OneRun(c)' BY <1>1, <2>1, <2>2 DEF Staged, OneRun
  <2>6. QED BY <1>3, <2>1, <2>2, <2>4, <2>5, StageOfOne
<1>6. CASE CloseShutdown(c)
  <2>1. /\ Others(c) /\ UNCHANGED session /\ pc'[c] = "idle" /\ closing'[c] = "no"
    BY <1>1, <1>2, <1>6, OthersReturn DEF CloseShutdown
  <2>2. Tending' BY <1>6, ShutDown, NothingUp DEF CloseShutdown
  <2>3. Staged(c)' /\ OneRun(c)' BY <1>1, <2>1 DEF Staged, OneRun
  <2>4. QED BY <2>1, <2>2, <2>3, StageOfOne
<1>7. QED
  BY <1>2, <1>4, <1>5, <1>6 DEF Close, WipeList, WipeOne, WipeDone

LEMMA TendedRest ==
  ASSUME TendedInv, Disciplined,
         \/ \E c \in Clients : Invoke(c) \/ AnswerLost(c) \/ Crash(c)
         \/ \E e \in Execs : KillDaemon(e)
         \/ UNCHANGED vars
  PROVE  Tending' /\ \A d \in Clients : Staged(d)' /\ OneRun(d)'
<1> USE DEF disk, vm
<1>1. TypeOK BY DEF TendedInv, IInv, OwnerInv
<1>2. ASSUME NEW c \in Clients, Invoke(c)
      PROVE  Tending' /\ \A d \in Clients : Staged(d)' /\ OneRun(d)'
  <2>1. /\ Others(c) /\ pc[c] = "idle" /\ UNCHANGED <<session, socket, proc, issued>>
        /\ \/ /\ pc'[c] = "spawn" /\ UNCHANGED closing
              /\ c \in Starters /\ session.state = "absent"
           \/ /\ pc'[c] \in {"advance", "terminate"} /\ UNCHANGED closing
              /\ doc'[c] = session /\ session.state = "live"
           \/ /\ pc'[c] \in {"reread", "mark"} /\ closing'[c] = "keep"
              /\ first'[c] = session /\ session.state # "absent"
    <3>1. CASE c \in Starters /\ StartCheck(c)
      BY <1>1, <3>1, OthersGoto DEF StartCheck
    <3>2. ASSUME NEW op \in {"advance", "terminate"}, DriveRead(c, op)
          PROVE  /\ Others(c) /\ pc[c] = "idle" /\ UNCHANGED <<session, socket, proc, issued>>
                 /\ pc'[c] = op /\ UNCHANGED closing
                 /\ doc'[c] = session /\ session.state = "live"
      BY <1>1, <3>2, SoloTypes DEF DriveRead, Goto, Others
    <3>3. ASSUME NEW remove \in Removals, CloseRead(c, remove)
          PROVE  /\ Others(c) /\ pc[c] = "idle" /\ UNCHANGED <<session, socket, proc, issued>>
                 /\ pc'[c] \in {"reread", "mark"} /\ closing'[c] = "keep"
                 /\ first'[c] = session /\ session.state # "absent"
      <4>1. remove = FALSE BY ChoicesAssumption DEF Disciplined
      <4>2. pc'[c] \in {"reread", "mark"}
        BY <1>1, <3>3, <4>1, SoloTypes DEF CloseRead, Goto
      <4>3. QED BY <1>1, <3>3, <4>1, <4>2, SoloTypes DEF CloseRead, Goto, Others
    <3>4. QED BY <1>2, <3>1, <3>2, <3>3 DEF Invoke
  <2>2. Tending' BY <2>1, StillTended DEF Keeps
  <2>3. Staged(c) /\ OneRun(c) BY DEF TendedInv
  <2>4. Staged(c)' /\ OneRun(c)' BY <2>1, <2>3 DEF Staged, OneRun
  <2>5. QED BY <2>1, <2>2, <2>4, StageOfOne
<1>3. CASE \E e \in Execs : KillDaemon(e)
  <2>1. /\ UNCHANGED <<disk, issued, pc, locals>>
        /\ \A e \in Execs : proc'[e] = "up" => proc[e] = "up"
    BY <1>1, <1>3 DEF KillDaemon, TypeOK, DaemonTypes
  <2>2. Tending'
    BY <2>1 DEF TendedInv, Tending, Driven, Keeps, Answered, locals
  <2>3. QED BY <2>1, <2>2 DEF TendedInv, Staged, OneRun, Answered, locals
<1>4. CASE UNCHANGED vars
  <2>1. Tending'
    BY <1>4 DEF TendedInv, Tending, Driven, Keeps, Answered, vars, locals
  <2>2. QED BY <1>4, <2>1 DEF TendedInv, Staged, OneRun, Answered, vars, locals
<1>5. QED BY <1>2, <1>3, <1>4 DEF Disciplined, AnswerLost, Crash

LEMMA TendedInit == Init => TendedInv
<1> SUFFICES ASSUME Init PROVE TendedInv OBVIOUS
<1>1. IInv BY IInvInit
<1>2. Tending BY DEF Init, Tending
<1>3. \A c \in Clients : Staged(c) /\ OneRun(c) BY DEF Init, Staged, OneRun
<1>4. QED BY <1>1, <1>2, <1>3 DEF TendedInv

LEMMA TendedStep ==
  ASSUME Disciplined
  PROVE  TendedInv /\ [Next]_vars => TendedInv'
<1> SUFFICES ASSUME TendedInv, [Next]_vars PROVE TendedInv' OBVIOUS
<1>1. IInv' BY IInvStep DEF TendedInv
<1>2. Tending' /\ \A d \in Clients : Staged(d)' /\ OneRun(d)'
  BY TendedStart, TendedDrive, TendedClose, TendedRest DEF Next, Proceed
<1>3. QED BY <1>1, <1>2 DEF TendedInv

\* One client starts sessions, no close deletes files, and only daemons die:
\* then whatever any number of clients do, a daemon that is up is on the socket,
\* is the handle's if there is one, and is either driven by the live handle
\* under its newest token or in the care of a client that goes on with it.
THEOREM TendedInvariant ==
  ASSUME Disciplined
  PROVE  Spec => []TendedInv
<1>1. TendedInv /\ [Next]_vars => TendedInv' BY TendedStep
<1>2. QED BY TendedInit, <1>1, PTL DEF Spec

\* Under the same discipline no daemon is orphaned: when no command runs, one
\* that is still up is the one the live handle attaches to (start_session,
\* _absorb_event, close_session and the daemon's token check together).
THEOREM NoOrphan ==
  ASSUME Disciplined
  PROVE  Spec => []NoOrphanDaemon
<1>1. ASSUME TendedInv PROVE NoOrphanDaemon
  <2>1. SUFFICES ASSUME Settled, NEW e \in Execs, proc[e] = "up"
                 PROVE  Driven(e) /\ socket = e
    BY DEF NoOrphanDaemon, Driven
  <2>2. ASSUME NEW c \in Clients PROVE ~Keeps(c, e)
    BY <2>1 DEF Settled, Keeps
  <2>3. QED BY <1>1, <2>1, <2>2 DEF TendedInv, Tending
<1>2. QED BY <1>1, TendedInvariant, PTL
=============================================================================
