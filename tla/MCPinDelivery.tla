--------------------------- MODULE MCPinDelivery ---------------------------
(***************************************************************************)
(* Small instances of PinDelivery: an input pin fed from the start and one *)
(* that is connected while values are written.  The late one takes         *)
(* value 3 only.                                                               *)
(***************************************************************************)
EXTENDS PinDelivery

CONSTANTS output, early, late

MCAccepts == [p \in Pins |-> IF p = late THEN {3} ELSE Values]
MCAcceptsAll == [p \in Pins |-> Values]
=============================================================================
