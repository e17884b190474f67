-------------------------- MODULE LiveSessionInv --------------------------
(***************************************************************************)
(* The inductive invariant behind the safety properties of LiveSession     *)
(* that hold for any number of clients and whatever fails.                 *)
(***************************************************************************)
EXTENDS LiveSession

\* The execution a client's answer is about.
Answered(c) == reply[c].exec

\* The client was told of a stop the handle does not show yet ...
StopInHand(c) ==
  pc[c] \in {"opened", "answered"} /\ reply[c].event = "stopped"

\* ... or that stops.json does not show yet.
StopPending(c) ==
  /\ pc[c] \in {"opened", "answered", "first_stop", "history", "append"}
  /\ reply[c].event = "stopped"

\* The client was told the end and has not written the evidence.
EndInHand(c) ==
  /\ pc[c] \in {"opened", "answered", "first_evidence", "finalize", "evidence"}
  /\ reply[c].event = "finished"

Calling(c) == pc[c] \in {"advance", "terminate"}

\* A handle a command may drive from.
Drivable(d) ==
  /\ d.exec \in Execs
  /\ d.token = d.seq
  /\ d.token \in 1..issued[d.exec]

\* The answer a client holds fits the place it is at.
Phases ==
  \A c \in Clients :
    /\ pc[c] \in {"first_stop", "history", "append"} =>
         reply[c].event = "stopped"
    /\ pc[c] \in {"first_evidence", "finalize", "evidence"} =>
         reply[c].event = "finished"
    /\ pc[c] \in {"opened", "answered"} => reply[c].event # "none"
    /\ reply[c].event # "none" => Answered(c) \in Execs
    /\ reply[c].event = "stopped" =>
         reply[c].seq \in 1..issued[Answered(c)]
    /\ pc[c] \in {"answered", "history", "finalize"} =>
         doc[c].exec = Answered(c)
    /\ pc[c] \in {"advance", "terminate", "answered"} => doc[c].state = "live"

Handles ==
  /\ session.state = "live" => Drivable(session)
  /\ \A c \in Clients : Calling(c) => Drivable(doc[c])

\* The newest stop of an execution is in the hand of at most one client, and
\* no handle and no caller has its token before that client writes it.
Custody ==
  \A c \in Clients : StopInHand(c) =>
    /\ reply[c].seq = issued[Answered(c)]
    /\ run[Answered(c)] \in {"stopped", "terminal"}
    /\ session.state = "live" /\ session.exec = Answered(c) =>
         session.token < issued[Answered(c)]
    /\ \A d \in Clients :
         Calling(d) /\ doc[d].exec = Answered(c) =>
           doc[d].token < issued[Answered(c)]
    /\ \A d \in Clients \ {c} : StopInHand(d) => Answered(d) # Answered(c)

\* The end of an execution is in the hand of at most one client, until it
\* writes the evidence of it.
Ends ==
  /\ \A c \in Clients : EndInHand(c) =>
       /\ run[Answered(c)] = "finished"
       /\ finish.exec # Answered(c)
       /\ \A d \in Clients \ {c} : EndInHand(d) => Answered(d) # Answered(c)
  /\ finish.exec = NoExec => finish = NoEvidence

\* A stop that was made, is not pending, and is not ahead of the live handle.
Fits(x) ==
  /\ x.seq <= issued[x.exec]
  /\ \A c \in Clients : StopPending(c) => x # StopOf(reply[c])
  /\ session.state = "live" /\ session.exec = x.exec => x.seq <= session.seq

\* A sequence of such stops, each there once.
WellRecorded(s) ==
  /\ \A i, j \in 1..Len(s) : s[i] = s[j] => i = j
  /\ \A i \in 1..Len(s) : Fits(s[i])

Records ==
  /\ WellRecorded(stops)
  /\ \A c \in Clients : WellRecorded(kept[c])
  /\ \A c, d \in Clients :
       StopPending(c) /\ StopPending(d) /\ c # d =>
         StopOf(reply[c]) # StopOf(reply[d])
  /\ \A c \in Clients :
       /\ pc[c] \in {"first_stop", "history", "append"}
       /\ session.state = "live"
       /\ session.exec = Answered(c)
       => reply[c].seq <= session.seq

\* What the token discipline gives.
OwnerInv == TypeOK /\ Phases /\ Handles /\ Custody /\ Ends /\ EvidenceEarned
\* The inductive invariant: between a daemon call and the writes that follow it
\* in _absorb_event, a stop or an end belongs to one client only, and every
\* copy of stops.json a client holds is as well recorded as the file.
IInv == OwnerInv /\ Records
=============================================================================
