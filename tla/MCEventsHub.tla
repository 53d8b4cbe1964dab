---------------------------- MODULE MCEventsHub ----------------------------
(* EventsHub with three enumerations on two busids: the first busid is used *)
(* twice.                                                                   *)
EXTENDS EventsHubInv, TLC

CONSTANTS i1, i2, i3, b1, b2

MCIds == {i1, i2, i3}
MCBusids == {b1, b2}
MCBusidOf == i1 :> b1 @@ i2 :> b1 @@ i3 :> b2
=============================================================================
