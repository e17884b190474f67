--------------------------- MODULE MCLiveSession ---------------------------
(***************************************************************************)
(* Instances of LiveSession for TLC: one command at a time, or two clients *)
(* on the same session directory.                                          *)
(***************************************************************************)
EXTENDS LiveSessionInv

CONSTANTS c1, c2

One == {c1}
Two == {c1, c2}
AllFaults == {"crash", "lose", "kill"}
=============================================================================
