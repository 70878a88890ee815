--------------------------- MODULE ConveyorTypes ---------------------------
(***************************************************************************)
(* The enumerations of conveyor_node.c and its pure decision function,     *)
(* shared by every module of the driver.                                   *)
(***************************************************************************)

\* enum tilt_state, enum blockage_state, enum conveyor_state
TiltStates     == {"LEVEL", "TILTED"}
BlockageStates == {"CLEAR", "BLOCKED"}
ConveyorStates == {"RUNNING_OK", "BLOCKAGE_ALERT", "STRUCTURAL_FAULT", "CRITICAL_FAULT"}

\* The REASON_* bits that name a changed input.  The other two say what the
\* sample saw; nothing in the driver depends on them.
Reasons == {"TILT_CHANGED", "BLOCKAGE_CHANGED"}

\* struct conveyor_event, without the raw readings it also carries
Events == [state : ConveyorStates, tilt : TiltStates, blockage : BlockageStates,
           reason : SUBSET Reasons]

EvaluateState(tilt, blockage) ==
    IF tilt = "LEVEL"
    THEN IF blockage = "CLEAR" THEN "RUNNING_OK" ELSE "BLOCKAGE_ALERT"
    ELSE IF blockage = "CLEAR" THEN "STRUCTURAL_FAULT" ELSE "CRITICAL_FAULT"
=============================================================================
