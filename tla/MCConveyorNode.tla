--------------------------- MODULE MCConveyorNode ---------------------------
(***************************************************************************)
(* Values for TLC.  With two confirming samples a streak can be started,   *)
(* broken and completed, and with three streak values it wraps; clearing   *)
(* takes one sample.                                                       *)
(***************************************************************************)
EXTENDS ConveyorNode

Two   == 2
Three == 3
One   == 1
=============================================================================
