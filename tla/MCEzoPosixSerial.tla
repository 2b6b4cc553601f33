--------------------------- MODULE MCEzoPosixSerial ---------------------------
(***************************************************************************)
(* The serial adapter on small instances: an int of four bits, so that the *)
(* timeouts 1 .. 7 keep their sign in the cast and 8 .. 15 lose it.        *)
(***************************************************************************)
EXTENDS EzoPosixSerialProps
=============================================================================
