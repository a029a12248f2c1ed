--------------------------- MODULE MCDoubleBuffer ---------------------------
(***************************************************************************)
(* Small instances of DoubleBuffer: three fields, two values.              *)
(***************************************************************************)
EXTENDS DoubleBuffer
=============================================================================
