------------------------------- MODULE MCEzoI2c -------------------------------
(***************************************************************************)
(* The I2C core on small instances: replies of one and three characters    *)
(* for buffers of two and four, so that a text fits, fills or overflows    *)
(* its buffer, and two circuits, either of which may be addressed by       *)
(* either device, and an address where nobody answers.                     *)
(***************************************************************************)
EXTENDS EzoI2cProps, TLC

CONSTANTS d1, d2, a1, a2, a3

BusSymmetry == Permutations({d1, d2}) \cup Permutations({a1, a2})

(* The bound: every buffer size and the empty address while only one       *)
(* device is used, with two faults on Linux and one on Arduino; two        *)
(* devices on a Linux bus without faults, with typed reads into one size   *)
(* of buffer from circuits that are there.                                 *)
Used(d) == call[d] # Idle \/ ret[d] # NoReturn \/ latest[d] # 0

Alone == Cardinality({d \in Device : Used(d)}) <= 1

Plain(d) ==
  /\ address[d] \in Present /\ ret[d].res # "INVALID_ARGUMENT"
  /\ call[d].op \in {"none", "send", "typed"} /\ call[d].cap \in {0, 2}

SharedBusIsPlain ==
  IF transport = "wire" THEN Alone /\ faults <= 1
  ELSE Alone \/ (faults = 0 /\ \A d \in Device : Plain(d))
=============================================================================
