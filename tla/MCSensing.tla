----------------------------- MODULE MCSensing ------------------------------
(***************************************************************************)
(* Values for TLC.  Of the distances one is in range, one is not, and one  *)
(* is zero; the levels are zero, for the average to start again, and one   *)
(* above the threshold.                                                    *)
(***************************************************************************)
EXTENDS Sensing

FewDistances == {0, 3, 6}
FewLevels    == {0, 3}
=============================================================================
