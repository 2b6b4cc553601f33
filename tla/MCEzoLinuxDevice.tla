--------------------------- MODULE MCEzoLinuxDevice ---------------------------
(***************************************************************************)
(* The Linux facade on small instances: two serial devices on three lines, *)
(* so that both can be reopened elsewhere, an I2C device, and four         *)
(* descriptors for the five that two reopens and an open would need.       *)
(***************************************************************************)
EXTENDS EzoLinuxDeviceProps, TLC

CONSTANTS u1, u2, i1, ttyA, ttyB, ttyC, busA, b1, b2

UartSymmetry == Permutations({u1, u2}) \cup Permutations({ttyA, ttyB, ttyC})
=============================================================================
