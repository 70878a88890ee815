-------------------------- MODULE MCMqttSubscriber --------------------------
(***************************************************************************)
(* Values for TLC.  With a base of 2 the lengths 2 and 9 take two and four *)
(* bytes, the most there may be.  A misread packet may end in the middle   *)
(* of the next one.                                                        *)
(***************************************************************************)
EXTENDS MqttSubscriber

Lengths == <<2, 9, 3>>
=============================================================================
