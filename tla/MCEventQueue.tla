---------------------------- MODULE MCEventQueue ----------------------------
(***************************************************************************)
(* Values for TLC.  Two writers stand for the three callers of push_event: *)
(* one can be before its wake_up while the other appends.  A ring of three *)
(* slots holds two events; four appends fill it, overwrite and wrap.       *)
(***************************************************************************)
EXTENDS EventQueue

CONSTANTS w1, w2, r1, r2

TwoWriters == {w1, w2}
TwoReaders == {r1, r2}
AllModes   == {"block", "nonblock", "poll"}

=============================================================================
