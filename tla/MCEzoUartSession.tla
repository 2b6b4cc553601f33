-------------------------- MODULE MCEzoUartSession --------------------------
(***************************************************************************)
(* The session on small instances.                                         *)
(***************************************************************************)
EXTENDS EzoUartSessionProps

MCLine == SessionLine
=============================================================================
