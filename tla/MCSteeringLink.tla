--------------------------- MODULE MCSteeringLink ---------------------------
(***************************************************************************)
(* Small instances of SteeringLink with a word of 16 values, every number  *)
(* a possible leftover in FRONT, and enough sends for a resynchronisation  *)
(* and a publish, or for five publishes after a failed one.                *)
(***************************************************************************)
EXTENDS SteeringLink

MCSteers == {"STRAIGHT", "LEFT"}
MCPriors == Words
=============================================================================
