----------------------------- MODULE MCEzoUart -----------------------------
(***************************************************************************)
(* The UART core on small instances.  Sizes are scaled down and keep the   *)
(* order of the real ones: a token fits the terminal buffer, a data line   *)
(* does not, and the callers' buffers are too small (2) or large (5).      *)
(* A data line ends like *OK: the last two of its three characters are the *)
(* token, the last one alone is data.                                      *)
(***************************************************************************)
EXTENDS EzoUartProps
=============================================================================
