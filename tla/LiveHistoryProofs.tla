------------------------- MODULE LiveHistoryProofs -------------------------
(***************************************************************************)
(* What stops.json never shows, although its read-modify-write is not      *)
(* protected: a stop twice, or a stop the live handle has not reached.     *)
(***************************************************************************)
EXTENDS LiveSessionProofs

USE DEF Execs, NoExec

\* Bounded drops a prefix.
LEMMA BoundedIsSuffix ==
  ASSUME NEW S, NEW s \in Seq(S)
  PROVE  \E k \in 0..Len(s) :
           /\ Len(Bounded(s)) = Len(s) - k
           /\ \A i \in 1..Len(Bounded(s)) : Bounded(s)[i] = s[i + k]
<1>1. MaxHistory \in Nat \ {0} /\ Len(s) \in Nat BY BoundsAssumption
<1>2. CASE Len(s) <= MaxHistory
  <2>1. Bounded(s) = s BY <1>2 DEF Bounded
  <2>2. 0 \in 0..Len(s) BY <1>1
  <2>3. /\ Len(Bounded(s)) = Len(s) - 0
        /\ \A i \in 1..Len(Bounded(s)) : Bounded(s)[i] = s[i + 0]
    BY <1>1, <2>1
  <2>4. QED BY <2>2, <2>3
<1>3. CASE Len(s) > MaxHistory
  <2> DEFINE k == Len(s) - MaxHistory
  <2>1. k \in 0..Len(s) BY <1>1, <1>3
  <2>2. Bounded(s) = SubSeq(s, k + 1, Len(s)) BY <1>1, <1>3 DEF Bounded
  <2>3. k + 1 \in 1..Len(s) BY <1>1, <1>3
  <2>4. /\ Len(Bounded(s)) = Len(s) - k
        /\ \A i \in 1..Len(Bounded(s)) : Bounded(s)[i] = s[i + k]
    BY <1>1, <2>2, <2>3
  <2>5. QED BY <2>1, <2>4
<1>4. QED BY <1>1, <1>2, <1>3

\* What a step may do to the stops that are pending and to the live handle:
\* at most c is told of a stop, a new one, and a handle that is written shows
\* the newest stop.
StopsAdvance(c) ==
  /\ \A e \in Execs : issued'[e] >= issued[e]
  /\ \A d \in Clients : StopPending(d)' =>
       \/ StopPending(d) /\ reply'[d] = reply[d]
       \/ d = c /\ reply'[c].seq > issued[reply'[c].exec]
  /\ session'.state = "live" =>
       session' = session \/ session'.seq = issued[session'.exec]
  /\ \A d \in Clients : pc'[d] \in {"first_stop", "history", "append"} =>
       \/ pc[d] \in {"first_stop", "history", "append"} /\ reply'[d] = reply[d]
       \/ session'.state = "live" => reply'[d].seq <= session'.seq

LEMMA FitsKeeps ==
  ASSUME IInv, TypeOK', NEW c \in Clients, StopsAdvance(c),
         NEW x \in Stop, Fits(x)
  PROVE  Fits(x)'
<1>1. /\ x.exec \in Execs /\ x.seq \in Nat
      /\ issued[x.exec] \in Nat /\ issued'[x.exec] \in Nat
  BY BoundsAssumption DEF Stop, IInv, OwnerInv, TypeOK, DaemonTypes
<1>2. x.seq <= issued'[x.exec] BY <1>1 DEF StopsAdvance, Fits
<1>3. ASSUME NEW d \in Clients, StopPending(d)'
      PROVE  x # StopOf(reply'[d])
  <2>1. CASE StopPending(d) /\ reply'[d] = reply[d] BY <2>1 DEF Fits
  <2>2. CASE d = c /\ reply'[c].seq > issued[reply'[c].exec]
    <3>1. ASSUME x = StopOf(reply'[c]) PROVE FALSE
      <4>1. x.seq = reply'[c].seq /\ x.exec = reply'[c].exec BY <3>1 DEF StopOf
      <4>2. x.seq > issued[x.exec] BY <2>2, <4>1
      <4>3. QED BY <1>1, <4>2 DEF Fits
    <3>2. QED BY <2>2, <3>1
  <2>3. QED BY <1>3, <2>1, <2>2 DEF StopsAdvance
<1>4. ASSUME session'.state = "live", session'.exec = x.exec
      PROVE  x.seq <= session'.seq
  <2>1. CASE session' = session BY <1>4, <2>1 DEF Fits
  <2>2. CASE session'.seq = issued[session'.exec] BY <1>4, <2>2 DEF Fits
  <2>3. QED BY <1>4, <2>1, <2>2 DEF StopsAdvance
<1>5. QED BY <1>2, <1>3, <1>4 DEF Fits

\* The two parts of Records about the answers that are pending.
LEMMA PendingKeeps ==
  ASSUME IInv, TypeOK', Phases', NEW c \in Clients, StopsAdvance(c)
  PROVE  /\ \A d, o \in Clients :
              StopPending(d)' /\ StopPending(o)' /\ d # o =>
                StopOf(reply'[d]) # StopOf(reply'[o])
         /\ \A d \in Clients :
              /\ pc'[d] \in {"first_stop", "history", "append"}
              /\ session'.state = "live"
              /\ session'.exec = Answered(d)'
              => reply'[d].seq <= session'.seq
<1>1. \A d \in Clients : StopPending(d) =>
        /\ reply[d].exec \in Execs
        /\ reply[d].seq \in 1..issued[reply[d].exec]
        /\ issued[reply[d].exec] \in Nat
  BY BoundsAssumption DEF StopPending, IInv, OwnerInv, Phases, Answered, TypeOK, DaemonTypes
<1>2. ASSUME NEW d \in Clients, NEW o \in Clients, d # o,
             StopPending(d)', StopPending(o)',
             StopOf(reply'[d]) = StopOf(reply'[o])
      PROVE  FALSE
  <2>1. reply'[d].exec = reply'[o].exec /\ reply'[d].seq = reply'[o].seq
    BY <1>2 DEF StopOf
  <2>2. CASE /\ StopPending(d) /\ reply'[d] = reply[d]
             /\ StopPending(o) /\ reply'[o] = reply[o]
    BY <1>2, <2>2 DEF IInv, Records
  <2>3. CASE /\ d = c /\ reply'[c].seq > issued[reply'[c].exec]
             /\ StopPending(o) /\ reply'[o] = reply[o]
    BY <1>1, <2>1, <2>3
  <2>4. CASE /\ o = c /\ reply'[c].seq > issued[reply'[c].exec]
             /\ StopPending(d) /\ reply'[d] = reply[d]
    BY <1>1, <2>1, <2>4
  <2>5. QED BY <1>2, <2>2, <2>3, <2>4 DEF StopsAdvance
<1>3. ASSUME NEW d \in Clients,
             pc'[d] \in {"first_stop", "history", "append"},
             session'.state = "live",
             session'.exec = Answered(d)'
      PROVE  reply'[d].seq <= session'.seq
  <2>1. CASE /\ pc[d] \in {"first_stop", "history", "append"}
             /\ reply'[d] = reply[d]
    <3>1. /\ StopPending(d) /\ Answered(d)' = Answered(d)
      BY <2>1 DEF StopPending, Answered, IInv, OwnerInv, Phases
    <3>2. CASE session' = session
      BY <1>3, <2>1, <3>1, <3>2 DEF IInv, Records
    <3>3. CASE session'.seq = issued[session'.exec]
      BY <1>1, <1>3, <2>1, <3>1, <3>3 DEF Answered
    <3>4. QED BY <1>3, <3>2, <3>3 DEF StopsAdvance
  <2>2. QED BY <1>3, <2>1 DEF StopsAdvance
<1>4. QED BY <1>2, <1>3

\* Every sequence after the step was there before it, or is empty.
OldRecords ==
  /\ stops' \in {stops, <<>>}
  /\ \A d \in Clients : kept'[d] \in {stops, kept[d], <<>>}

LEMMA OldKeeps ==
  ASSUME IInv, TypeOK', NEW c \in Clients, StopsAdvance(c)
  PROVE  /\ stops' \in {stops, <<>>} => WellRecorded(stops)'
         /\ \A d \in Clients :
              kept'[d] \in {stops, kept[d], <<>>} => WellRecorded(kept[d])'
<1>1. /\ stops \in Seq(Stop)
      /\ \A d \in Clients : kept[d] \in Seq(Stop)
  BY DEF IInv, OwnerInv, TypeOK, DiskTypes, ClientTypes
<1>2. ASSUME NEW s \in Seq(Stop),
             \A i \in 1..Len(s) : Fits(s[i])
      PROVE  \A i \in 1..Len(s) :
               /\ s[i].seq <= issued'[s[i].exec]
               /\ \A d \in Clients : StopPending(d)' => s[i] # StopOf(reply'[d])
               /\ session'.state = "live" /\ session'.exec = s[i].exec =>
                    s[i].seq <= session'.seq
  <2>1. \A x \in Stop : Fits(x) =>
          /\ x.seq <= issued'[x.exec]
          /\ \A d \in Clients : StopPending(d)' => x # StopOf(reply'[d])
          /\ session'.state = "live" /\ session'.exec = x.exec =>
               x.seq <= session'.seq
    BY FitsKeeps DEF Fits
  <2>2. \A i \in 1..Len(s) : s[i] \in Stop OBVIOUS
  <2>3. QED BY <1>2, <2>1, <2>2
<1>3. Len(<<>>) = 0 OBVIOUS
<1>4. stops' = stops => WellRecorded(stops)'
  BY <1>1, <1>2 DEF IInv, Records, WellRecorded, Fits
<1>5. stops' = <<>> => WellRecorded(stops)'
  BY <1>3 DEF WellRecorded
<1>6. ASSUME NEW d \in Clients, kept'[d] \in {stops, kept[d], <<>>}
      PROVE  WellRecorded(kept[d])'
  <2>1. ASSUME NEW s \in Seq(Stop), kept'[d] = s,
               \A i, j \in 1..Len(s) : s[i] = s[j] => i = j,
               \A i \in 1..Len(s) : Fits(s[i])
        PROVE  WellRecorded(kept[d])'
    <3>1. \A i \in 1..Len(s) :
            /\ s[i].seq <= issued'[s[i].exec]
            /\ \A o \in Clients : StopPending(o)' => s[i] # StopOf(reply'[o])
            /\ session'.state = "live" /\ session'.exec = s[i].exec =>
                 s[i].seq <= session'.seq
      BY <1>2, <2>1
    <3>2. QED BY <2>1, <3>1 DEF WellRecorded, Fits
  <2>2. CASE kept'[d] = stops BY <1>1, <2>1, <2>2 DEF IInv, Records, WellRecorded
  <2>3. CASE kept'[d] = kept[d] BY <1>1, <2>1, <2>3 DEF IInv, Records, WellRecorded
  <2>4. CASE kept'[d] = <<>> BY <1>3, <2>4 DEF WellRecorded
  <2>5. QED BY <1>6, <2>2, <2>3, <2>4
<1>7. QED BY <1>4, <1>5, <1>6

LEMMA RecordsKeep ==
  ASSUME IInv, OwnerInv', NEW c \in Clients, StopsAdvance(c), OldRecords
  PROVE  Records'
<1>1. TypeOK' /\ Phases' BY DEF OwnerInv
<1>2. QED BY <1>1, PendingKeeps, OldKeeps DEF Records, OldRecords

\* A step after which no client has a stop to record that it had not.
PendingShrink ==
  \A d \in Clients :
    /\ StopPending(d)' => StopPending(d) /\ reply'[d] = reply[d]
    /\ pc'[d] \in {"first_stop", "history", "append"} =>
         pc[d] \in {"first_stop", "history", "append"}
    /\ kept'[d] \in {stops, kept[d], <<>>}

LEMMA NoNews ==
  ASSUME IInv, OwnerInv', NEW c \in Clients, PendingShrink,
         UNCHANGED issued,
         session' = session \/ session'.state # "live"
  PROVE  StopsAdvance(c)
<1>1. \A e \in Execs : issued[e] \in Nat
  BY BoundsAssumption DEF IInv, OwnerInv, TypeOK, DaemonTypes
<1>2. ASSUME NEW d \in Clients, pc'[d] \in {"first_stop", "history", "append"}
      PROVE  StopPending(d)'
  BY <1>2 DEF StopPending, OwnerInv, Phases
<1>3. QED BY <1>1, <1>2 DEF StopsAdvance, PendingShrink

LEMMA QuietRecords ==
  ASSUME IInv, OwnerInv', NEW c \in Clients, PendingShrink,
         UNCHANGED issued,
         session' = session \/ session'.state # "live",
         stops' \in {stops, <<>>}
  PROVE  Records'
BY NoNews, RecordsKeep DEF OldRecords, PendingShrink

LEMMA ReturnPending ==
  ASSUME TypeOK, NEW c \in Clients, Return(c)
  PROVE  PendingShrink
BY DEF TypeOK, ClientTypes, Return, Goto, PendingShrink, StopPending

LEMMA GotoPending ==
  ASSUME TypeOK, NEW c \in Clients,
         NEW label \in Labels \ {"opened", "answered", "first_stop", "history", "append"},
         Goto(c, label), UNCHANGED <<reply, kept>>
  PROVE  PendingShrink
BY DEF TypeOK, ClientTypes, Goto, PendingShrink, StopPending

LEMMA FailPending ==
  ASSUME TypeOK, NEW c \in Clients, Fail(c)
  PROVE  PendingShrink
BY ReturnPending, GotoPending DEF Fail, Labels, locals

\* The daemon tells c of a new stop, or of the end.
LEMMA AnswerPending ==
  ASSUME IInv, OwnerInv', NEW c \in Clients, NEW e \in Execs,
         NEW label \in {"opened", "answered"},
         \/ \E kind \in {"stopped", "terminal"} : StopAt(c, e, kind, label)
         \/ EndOf(c, e, label),
         UNCHANGED disk
  PROVE  Records'
<1> TypeOK BY DEF IInv, OwnerInv
<1>1. /\ UNCHANGED <<session, stops, kept>>
      /\ pc' = [pc EXCEPT ![c] = label]
  BY DEF disk, StopAt, EndOf, Goto
<1>2. OldRecords BY <1>1 DEF OldRecords
<1>3. CASE \E kind \in {"stopped", "terminal"} : StopAt(c, e, kind, label)
  <2>1. /\ issued' = [issued EXCEPT ![e] = @ + 1]
        /\ reply' = [reply EXCEPT ![c] =
                       [event |-> "stopped", exec |-> e, seq |-> issued[e] + 1]]
    BY <1>3 DEF StopAt
  <2>2. \A f \in Execs : issued[f] \in Nat
    BY BoundsAssumption DEF TypeOK, DaemonTypes
  <2>3. \A f \in Execs : issued'[f] >= issued[f]
    BY <2>1, <2>2 DEF TypeOK, DaemonTypes
  <2>4. /\ reply'[c].exec = e /\ reply'[c].seq = issued[e] + 1
        /\ \A d \in Clients \ {c} : reply'[d] = reply[d] /\ pc'[d] = pc[d]
        /\ pc'[c] = label
    BY <1>1, <2>1 DEF TypeOK, ClientTypes
  <2>5. StopsAdvance(c) BY <1>1, <2>2, <2>3, <2>4 DEF StopsAdvance, StopPending
  <2>6. QED BY <1>2, <2>5, RecordsKeep
<1>4. CASE EndOf(c, e, label)
  <2>1. /\ UNCHANGED issued
        /\ reply' = [reply EXCEPT ![c] =
                       [event |-> "finished", exec |-> e, seq |-> issued[e]]]
    BY <1>4 DEF EndOf
  <2>2. PendingShrink
    BY <1>1, <2>1 DEF TypeOK, ClientTypes, PendingShrink, StopPending
  <2>3. QED BY <1>1, <2>1, <2>2, QuietRecords
<1>5. QED BY <1>3, <1>4

\* A client writes the stop it holds to the handle.
LEMMA StopShown ==
  ASSUME IInv, OwnerInv', NEW c \in Clients, StopInHand(c),
         session'.exec = Answered(c), session'.seq = reply[c].seq,
         NEW label \in {"first_stop", "history"}, Goto(c, label),
         UNCHANGED <<stops, finish, socket, vm, locals>>
  PROVE  Records'
<1> TypeOK BY DEF IInv, OwnerInv
<1>1. UNCHANGED <<issued, reply, kept, stops>> BY DEF vm, locals
<1>2. session'.seq = issued[session'.exec]
  BY DEF IInv, OwnerInv, Custody
<1>3. \A e \in Execs : issued[e] \in Nat
  BY BoundsAssumption DEF TypeOK, DaemonTypes
<1>4. /\ reply[c].event = "stopped" /\ Answered(c) \in Execs
      /\ session'.seq \in Nat
  BY <1>2, <1>3 DEF StopInHand, IInv, OwnerInv, Phases
<1>5. \A d \in Clients \ {c} : pc'[d] = pc[d]
  BY DEF Goto, TypeOK, ClientTypes
<1>6. pc'[c] = label BY DEF Goto, TypeOK, ClientTypes
<1>7. StopsAdvance(c)
  <2>1. \A e \in Execs : issued'[e] >= issued[e] BY <1>1, <1>3
  <2>2. \A d \in Clients : StopPending(d)' => StopPending(d) /\ reply'[d] = reply[d]
    BY <1>1, <1>5, <1>6 DEF StopPending, StopInHand
  <2>3. reply'[c].seq <= session'.seq BY <1>1, <1>4
  <2>4. \A d \in Clients : pc'[d] \in {"first_stop", "history", "append"} =>
          \/ pc[d] \in {"first_stop", "history", "append"} /\ reply'[d] = reply[d]
          \/ session'.state = "live" => reply'[d].seq <= session'.seq
    BY <1>1, <1>5, <2>3
  <2>5. QED BY <1>2, <2>1, <2>2, <2>4 DEF StopsAdvance
<1>8. OldRecords BY <1>1 DEF OldRecords
<1>9. QED BY <1>7, <1>8, RecordsKeep

\* A client writes the stop it has to record, alone or behind a sequence.
LEMMA StopRecorded ==
  ASSUME IInv, OwnerInv', NEW c \in Clients,
         pc[c] \in {"first_stop", "history", "append"},
         \/ stops' = <<StopOf(reply[c])>>
         \/ stops' = Bounded(Append(kept[c], StopOf(reply[c]))),
         Return(c),
         UNCHANGED <<session, finish, socket, vm>>
  PROVE  Records'
<1>1. TypeOK /\ Phases /\ Records BY DEF IInv, OwnerInv
<1>2. StopPending(c) BY <1>1 DEF StopPending, Phases
<1>3. StopOf(reply[c]) \in Stop BY <1>1, <1>2, AnsweredStop DEF StopPending
<1>4. PICK x \in Stop : x = StopOf(reply[c]) BY <1>3
<1>5. UNCHANGED <<session, issued>> BY DEF vm
<1>6. PendingShrink BY <1>1, ReturnPending
<1>7. StopsAdvance(c) BY <1>5, <1>6, NoNews
<1>8. Fits(x)'
  <2>1. x.seq = reply[c].seq /\ x.exec = reply[c].exec BY <1>4 DEF StopOf
  <2>2. x.seq <= issued[x.exec]
    <3>1. reply[c].seq \in 1..issued[reply[c].exec] /\ reply[c].exec \in Execs
      BY <1>1, <1>2 DEF Phases, StopPending, Answered
    <3>2. issued[reply[c].exec] \in Nat
      BY <1>1, <3>1, BoundsAssumption DEF TypeOK, DaemonTypes
    <3>3. QED BY <2>1, <3>1, <3>2
  <2>3. session.state = "live" /\ session.exec = x.exec => x.seq <= session.seq
    BY <1>1, <2>1 DEF Records, Answered
  <2>4. ASSUME NEW d \in Clients, StopPending(d)' PROVE x # StopOf(reply'[d])
    <3>1. StopPending(d) /\ reply'[d] = reply[d] BY <1>6, <2>4 DEF PendingShrink
    <3>2. pc'[c] = "idle" BY <1>1 DEF Return, Goto, TypeOK, ClientTypes
    <3>3. d # c BY <2>4, <3>2 DEF StopPending
    <3>4. QED BY <1>1, <1>2, <1>4, <3>1, <3>3 DEF Records
  <2>5. QED BY <1>5, <2>2, <2>3, <2>4 DEF Fits
<1>9. kept[c] \in Seq(Stop) BY <1>1 DEF TypeOK, ClientTypes
<1>10. PICK s \in Seq(Stop) : s = kept[c] BY <1>9
<1>11. WellRecorded(s)'
  <2>1. \A y \in Stop : Fits(y) =>
          /\ y.seq <= issued'[y.exec]
          /\ \A d \in Clients : StopPending(d)' => y # StopOf(reply'[d])
          /\ session'.state = "live" /\ session'.exec = y.exec =>
               y.seq <= session'.seq
    BY <1>7, FitsKeeps DEF Fits, OwnerInv
  <2>2. \A i \in 1..Len(s) : s[i] \in Stop /\ Fits(s[i])
    BY <1>1, <1>10 DEF Records, WellRecorded
  <2>3. \A i, j \in 1..Len(s) : s[i] = s[j] => i = j
    BY <1>1, <1>10 DEF Records, WellRecorded
  <2>4. QED BY <2>1, <2>2, <2>3 DEF WellRecorded, Fits
<1>12. \A i \in 1..Len(s) : s[i] # x
  BY <1>1, <1>2, <1>4, <1>10 DEF Records, WellRecorded, Fits
<1>13. WellRecorded(stops)'
  <2>1. CASE stops' = <<StopOf(reply[c])>>
    <3>1. Len(stops') = 1 /\ stops'[1] = x BY <1>4, <2>1
    <3>2. QED BY <1>8, <3>1 DEF WellRecorded, Fits
  <2>2. CASE stops' = Bounded(Append(kept[c], StopOf(reply[c])))
    <3> Append(s, x) \in Seq(Stop) OBVIOUS
    <3>1. PICK t \in Seq(Stop) : t = Append(s, x) OBVIOUS
    <3>2. /\ Len(t) = Len(s) + 1
          /\ \A i \in 1..Len(s) : t[i] = s[i]
          /\ t[Len(s) + 1] = x
          /\ Len(s) \in Nat
      BY <3>1
    <3>3. /\ \A i, j \in 1..Len(t) : t[i] = t[j] => i = j
          /\ \A i \in 1..Len(t) : Fits(t[i])'
      BY <1>8, <1>11, <1>12, <3>2 DEF WellRecorded
    <3>4. PICK k \in 0..Len(t) :
            /\ Len(Bounded(t)) = Len(t) - k
            /\ \A i \in 1..Len(Bounded(t)) : Bounded(t)[i] = t[i + k]
      BY BoundedIsSuffix
    <3>5. stops' = Bounded(t) BY <1>4, <1>10, <2>2, <3>1
    <3>6. \A i \in 1..Len(stops') : i + k \in 1..Len(t) /\ stops'[i] = t[i + k]
      BY <3>2, <3>4, <3>5
    <3>7. \A i \in 1..Len(stops') : i \in Nat BY <3>2, <3>4, <3>5
    <3>8. /\ \A i, j \in 1..Len(stops') : stops'[i] = stops'[j] => i = j
          /\ \A i \in 1..Len(stops') : Fits(stops[i])'
      BY <3>2, <3>3, <3>6, <3>7 DEF Fits
    <3>9. QED BY <3>8 DEF WellRecorded
  <2>3. QED BY <2>1, <2>2
<1>14. \A d \in Clients : WellRecorded(kept[d])'
  BY <1>6, <1>7, OldKeeps DEF OwnerInv, PendingShrink
<1>15. QED BY <1>7, <1>13, <1>14, PendingKeeps DEF Records, OwnerInv

LEMMA RecordsStart ==
  ASSUME IInv, OwnerInv', NEW c \in Clients, Start(c)
  PROVE  Records'
<1> USE DEF disk, vm
<1> TypeOK BY DEF IInv, OwnerInv
<1>1. CASE StartSpawn(c)
  <2>1. PendingShrink BY <1>1, GotoPending DEF StartSpawn, Labels
  <2>2. QED BY <1>1, <2>1, QuietRecords DEF StartSpawn
<1>2. CASE StartSpawnFails(c)
  BY <1>2, ReturnPending, QuietRecords DEF StartSpawnFails
<1>3. CASE StartWaitFails(c)
  BY <1>3, ReturnPending, QuietRecords DEF StartWaitFails
<1>4. CASE StartCall(c)
  <2>1. PICK e \in Execs :
          \/ \E kind \in {"stopped", "terminal"} : StopAt(c, e, kind, "opened")
          \/ EndOf(c, e, "opened")
    BY <1>4 DEF StartCall, Reached
  <2>2. UNCHANGED disk BY <1>4 DEF StartCall
  <2>3. QED BY <2>1, <2>2, AnswerPending
<1>5. CASE StartCallFails(c)
  <2>1. PendingShrink BY <1>5, GotoPending DEF StartCallFails, Labels, locals
  <2>2. QED BY <1>5, <2>1, QuietRecords DEF StartCallFails
<1>6. CASE StartLive(c)
  BY <1>6, StopShown DEF StartLive, StopInHand, Answered
<1>7. CASE StartHistory(c)
  BY <1>7, StopRecorded DEF StartHistory
<1>8. CASE StartFinished(c)
  <2>1. PendingShrink BY <1>8, GotoPending DEF StartFinished, Labels, locals
  <2>2. session'.state # "live" BY <1>8 DEF StartFinished
  <2>3. QED BY <1>8, <2>1, <2>2, QuietRecords DEF StartFinished
<1>9. CASE StartEvidence(c)
  <2>1. PendingShrink BY <1>9, GotoPending DEF StartEvidence, Labels, locals
  <2>2. QED BY <1>9, <2>1, QuietRecords DEF StartEvidence
<1>10. CASE StartRetire(c)
  BY <1>10, ReturnPending, QuietRecords DEF StartRetire
<1>11. QED
  BY <1>1, <1>2, <1>3, <1>4, <1>5, <1>6, <1>7, <1>8, <1>9, <1>10 DEF Start

LEMMA RecordsDrive ==
  ASSUME IInv, OwnerInv', NEW c \in Clients, Drive(c)
  PROVE  Records'
<1> USE DEF disk, vm
<1> TypeOK BY DEF IInv, OwnerInv
<1>1. CASE DriveCall(c)
  <2>1. PICK e \in Execs :
          \/ \E kind \in {"stopped", "terminal"} : StopAt(c, e, kind, "answered")
          \/ EndOf(c, e, "answered")
    BY <1>1 DEF DriveCall, Reached
  <2>2. UNCHANGED disk BY <1>1 DEF DriveCall
  <2>3. QED BY <2>1, <2>2, AnswerPending
<1>2. CASE DriveCallFails(c)
  BY <1>2, FailPending, QuietRecords DEF DriveCallFails
<1>3. CASE AbsorbStop(c)
  <2>1. StopInHand(c) /\ doc[c].exec = Answered(c)
    BY <1>3 DEF AbsorbStop, StopInHand, IInv, OwnerInv, Phases
  <2>2. QED BY <1>3, <2>1, StopShown DEF AbsorbStop
<1>4. CASE ReadStops(c)
  <2>1. PendingShrink
    BY <1>4 DEF ReadStops, TypeOK, ClientTypes, Goto, PendingShrink, StopPending
  <2>2. QED BY <1>4, <2>1, QuietRecords DEF ReadStops
<1>5. CASE AppendStop(c)
  BY <1>5, StopRecorded DEF AppendStop
<1>6. CASE ReadAllStops(c)
  <2>1. PendingShrink
    BY <1>6 DEF ReadAllStops, TypeOK, ClientTypes, Goto, PendingShrink, StopPending
  <2>2. QED BY <1>6, <2>1, QuietRecords DEF ReadAllStops
<1>7. CASE FinishHandle(c)
  <2>1. PendingShrink BY <1>7, GotoPending DEF FinishHandle, Labels, locals
  <2>2. session'.state # "live" BY <1>7 DEF FinishHandle
  <2>3. QED BY <1>7, <2>1, <2>2, QuietRecords DEF FinishHandle
<1>8. CASE FinishEvidence(c)
  <2>1. PendingShrink BY <1>8, GotoPending DEF FinishEvidence, Labels, locals
  <2>2. QED BY <1>8, <2>1, QuietRecords DEF FinishEvidence
<1>9. CASE FinishShutdown(c)
  <2>1. PendingShrink
    BY <1>9, ReturnPending, GotoPending DEF FinishShutdown, Labels, locals
  <2>2. QED BY <1>9, <2>1, QuietRecords DEF FinishShutdown
<1>10. QED
  BY <1>1, <1>2, <1>3, <1>4, <1>5, <1>6, <1>7, <1>8, <1>9 DEF Drive

LEMMA RecordsClose ==
  ASSUME IInv, OwnerInv', NEW c \in Clients, Close(c)
  PROVE  Records'
<1> USE DEF disk, vm
<1> TypeOK BY DEF IInv, OwnerInv
<1>1. CASE CloseReread(c)
  <2>1. PendingShrink
    <3>1. CASE Goto(c, "terminate") /\ UNCHANGED <<reply, kept>>
      BY <3>1, GotoPending DEF Labels
    <3>2. QED BY <1>1, <3>1, FailPending, ReturnPending DEF CloseReread
  <2>2. QED BY <1>1, <2>1, QuietRecords DEF CloseReread
<1>2. CASE CloseMark(c)
  <2>1. PendingShrink BY <1>2, GotoPending DEF CloseMark, Labels, locals
  <2>2. session'.state # "live" BY <1>2 DEF CloseMark
  <2>3. QED BY <1>2, <2>1, <2>2, QuietRecords DEF CloseMark
<1>3. CASE CloseShutdown(c)
  <2>1. PendingShrink
    BY <1>3, ReturnPending, GotoPending DEF CloseShutdown, Labels, locals
  <2>2. QED BY <1>3, <2>1, QuietRecords DEF CloseShutdown
<1>4. CASE WipeList(c)
  <2>1. PendingShrink BY <1>4, GotoPending DEF WipeList, Labels
  <2>2. QED BY <1>4, <2>1, QuietRecords DEF WipeList
<1>5. CASE WipeOne(c)
  <2>1. UNCHANGED <<issued, pc, reply, kept>> BY <1>5 DEF WipeOne
  <2>2. PendingShrink BY <2>1 DEF PendingShrink, StopPending
  <2>3. PICK f \in todo[c] : Unlink(f) BY <1>5 DEF WipeOne
  <2>4. /\ session' = session \/ session' = Absent
        /\ stops' \in {stops, <<>>}
    BY <2>3 DEF Unlink
  <2>5. Absent.state # "live" BY DEF Absent
  <2>6. QED BY <2>1, <2>2, <2>4, <2>5, QuietRecords
<1>6. CASE WipeDone(c)
  BY <1>6, ReturnPending, QuietRecords DEF WipeDone
<1>7. QED BY <1>1, <1>2, <1>3, <1>4, <1>5, <1>6 DEF Close

LEMMA RecordsRest ==
  ASSUME IInv, OwnerInv', NEW c \in Clients,
         Invoke(c) \/ AnswerLost(c) \/ Crash(c)
  PROVE  Records'
<1> USE DEF disk, vm
<1> TypeOK BY DEF IInv, OwnerInv
<1>1. CASE StartCheck(c)
  <2>1. PendingShrink BY <1>1, GotoPending DEF StartCheck, Labels, locals
  <2>2. QED BY <1>1, <2>1, QuietRecords DEF StartCheck
<1>2. ASSUME NEW op \in {"advance", "terminate"}, DriveRead(c, op) PROVE Records'
  <2>1. PendingShrink BY <1>2, GotoPending DEF DriveRead, Labels
  <2>2. QED BY <1>2, <2>1, QuietRecords DEF DriveRead
<1>3. ASSUME NEW remove, CloseRead(c, remove) PROVE Records'
  <2>1. PICK label \in {"list", "reread", "mark"} : Goto(c, label)
    BY <1>3 DEF CloseRead
  <2>2. PendingShrink BY <1>3, <2>1, GotoPending DEF CloseRead, Labels
  <2>3. QED BY <1>3, <2>2, QuietRecords DEF CloseRead
<1>4. CASE AnswerLost(c)
  <2>1. PendingShrink
    BY <1>4, FailPending, GotoPending DEF AnswerLost, Labels, locals
  <2>2. QED BY <1>4, <2>1, QuietRecords DEF AnswerLost
<1>5. CASE Crash(c)
  BY <1>5, ReturnPending, QuietRecords DEF Crash
<1>6. QED BY <1>1, <1>2, <1>3, <1>4, <1>5 DEF Invoke

LEMMA IInvInit == Init => IInv
<1> SUFFICES ASSUME Init PROVE IInv
  OBVIOUS
<1>1. OwnerInv BY OwnerInit
<1>2. /\ stops = <<>> /\ Len(<<>>) = 0
      /\ \A c \in Clients : pc[c] = "idle" /\ kept[c] = <<>>
  BY DEF Init
<1>3. QED BY <1>1, <1>2 DEF IInv, Records, WellRecorded, StopPending

LEMMA IInvStep == IInv /\ [Next]_vars => IInv'
<1> SUFFICES ASSUME IInv, [Next]_vars PROVE IInv'
  OBVIOUS
<1>1. OwnerInv' BY OwnerStep DEF IInv
<1>2. Records'
  <2>1. CASE UNCHANGED vars
    BY <2>1 DEF vars, disk, vm, locals, IInv, Records, WellRecorded, Fits, StopPending,
                Answered
  <2>2. CASE \E c \in Clients : Invoke(c) \/ Proceed(c) \/ AnswerLost(c) \/ Crash(c)
    BY <1>1, <2>2, RecordsStart, RecordsDrive, RecordsClose, RecordsRest DEF Proceed
  <2>3. CASE \E e \in Execs : KillDaemon(e)
    BY <2>3 DEF KillDaemon, disk, locals, IInv, Records, WellRecorded, Fits, StopPending,
                Answered
  <2>4. QED BY <2>1, <2>2, <2>3 DEF Next
<1>3. QED BY <1>1, <1>2 DEF IInv

\* The inductive invariant IInv holds: who may write which file next is settled
\* by the tokens the clients hold, for any number of clients and any faults.
THEOREM Invariant == Spec => []IInv
BY IInvInit, IInvStep, PTL DEF Spec

\* Lost updates of stops.json may drop a stop, but they never record one
\* twice (NoStopTwice): a stop is absorbed by the one client it was told to.
THEOREM NeverTwice == Spec => []NoStopTwice
<1>1. IInv => NoStopTwice BY DEF IInv, Records, WellRecorded, NoStopTwice
<1>2. QED BY <1>1, Invariant, PTL

\* The history never runs ahead of the handle (HistoryNeverAhead):
\* _absorb_event writes session.json before stops.json.
THEOREM NeverAhead == Spec => []HistoryNeverAhead
<1>1. IInv => HistoryNeverAhead
  BY DEF IInv, Records, WellRecorded, Fits, HistoryNeverAhead
<1>2. QED BY <1>1, Invariant, PTL
=============================================================================
