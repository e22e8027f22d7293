----------------------------- MODULE MCPinGraph -----------------------------
(***************************************************************************)
(* Small instances of PinGraph.  plain is an input pin as the code makes   *)
(* it; single and multi show what the rest of the protocol does when the   *)
(* lock is released.  plain and pull are both passive, so canConnectToPin: *)
(* refuses that pair; it accepts the others.                               *)
(***************************************************************************)
EXTENDS PinGraph

CONSTANTS plain, single, multi,  \* input pins
          push, pull             \* output pins

MCPinType == [p \in Pins |-> IF p \in {single, pull} THEN "code" ELSE "text"]

MCPinMode == [p \in Pins |-> CASE p \in {plain, pull} -> "passive"
                               [] p = push            -> "active"
                               [] OTHER               -> "auto"]
=============================================================================
