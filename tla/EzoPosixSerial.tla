---------------------------- MODULE EzoPosixSerial ----------------------------
(***************************************************************************)
(* The byte transport of the POSIX serial adapter                          *)
(* (platform/linux/ezo_uart_posix_serial.c): write_bytes, read_bytes and   *)
(* discard_input, one system call per step, with short writes, signals     *)
(* that interrupt a call, errors and a line that hangs up.                 *)
(***************************************************************************)
EXTENDS Integers, Sequences

CONSTANTS
  IntBits,        \* the width of int, to which the read timeout is cast
  Timeouts,       \* the read timeouts in milliseconds callers choose
  TxLens,         \* the lengths of the writes callers make
  MaxWrites,      \* bound: writes
  MaxArrivals,    \* bound: bytes that arrive
  MaxSignals      \* bound: signals that interrupt a system call

ASSUME SerialAssumption ==
  /\ IntBits \in Nat \ {0}
  /\ Timeouts \subseteq 1 .. 2 ^ IntBits - 1
  /\ TxLens \subseteq Nat
  /\ MaxWrites \in Nat /\ MaxArrivals \in Nat /\ MaxSignals \in Nat

VARIABLES
  timeout,       \* read_timeout_ms
  at,            \* the system call the adapter is in, or "idle"
  written,       \* bytes of the write in progress handed to write(2)
  calls,         \* the writes so far: their lengths and results
  wire,          \* bytes sent, each by its write and its place in it
  rx,            \* bytes in the input queue
  arrived, signals, hung

vars == <<timeout, at, written, calls, wire, rx, arrived, signals, hung>>

Init ==
  /\ timeout \in Timeouts
  /\ at = "idle" /\ written = 0 /\ calls = <<>> /\ wire = <<>>
  /\ rx = 0 /\ arrived = 0 /\ signals = 0 /\ hung = FALSE

(* Mutant: the timeout is kept in a type one bit narrower than int. *)
CastToNarrower(t) ==
  LET low == t % 2 ^ (IntBits - 1) IN
  IF low < 2 ^ (IntBits - 2) THEN low ELSE low - 2 ^ (IntBits - 1)

(* (int)serial->read_timeout_ms *)
CastToInt(t) == IF t < 2 ^ (IntBits - 1) THEN t ELSE t - 2 ^ IntBits

-----------------------------------------------------------------------------
Arrive ==
  /\ arrived < MaxArrivals
  /\ arrived' = arrived + 1 /\ rx' = rx + 1
  /\ UNCHANGED <<timeout, at, written, calls, wire, signals, hung>>

HangUp ==
  /\ hung' = TRUE
  /\ UNCHANGED <<timeout, at, written, calls, wire, rx, arrived, signals>>

(* EINTR: write(2), poll(2) and read(2) are called again as they were, the *)
(* poll with its whole timeout.                                            *)
Interrupted ==
  /\ at \in {"write", "poll", "read"}
  /\ signals < MaxSignals /\ signals' = signals + 1
  /\ UNCHANGED <<timeout, at, written, calls, wire, rx, arrived, hung>>

-----------------------------------------------------------------------------
TxLen == calls[Len(calls)].len

StartWrite(n) ==
  /\ at = "idle" /\ Len(calls) < MaxWrites
  /\ at' = IF n = 0 THEN "drain" ELSE "write"
  /\ written' = 0
  /\ calls' = Append(calls, [len |-> n, res |-> "running"])
  /\ UNCHANGED <<timeout, wire, rx, arrived, signals, hung>>

WriteReturns(r) ==
  /\ at' = "idle"
  /\ calls' = [calls EXCEPT ![Len(calls)].res = r]

Sent(from, n) == [i \in 1 .. n |-> [call |-> Len(calls), i |-> from + i]]

(* Mutants: a short write counts as the whole; write(2) is always offered  *)
(* the whole length.                                                       *)
WriteSomeAsAll(n) ==
  /\ at = "write" /\ n \in 1 .. TxLen - written
  /\ wire' = wire \o Sent(written, n)
  /\ written' = TxLen
  /\ at' = "drain"
  /\ UNCHANGED <<timeout, calls, rx, arrived, signals, hung>>

WriteSomeTooMany(n) ==
  /\ at = "write" /\ n \in 1 .. TxLen
  /\ wire' = wire \o Sent(written, n)
  /\ written' = written + n
  /\ at' = IF written' < TxLen THEN "write" ELSE "drain"
  /\ UNCHANGED <<timeout, calls, rx, arrived, signals, hung>>

(* write(2) takes n of the bytes that are left. *)
WriteSome(n) ==
  /\ at = "write" /\ n \in 1 .. TxLen - written
  /\ wire' = wire \o Sent(written, n)
  /\ written' = written + n
  /\ at' = IF written' < TxLen THEN "write" ELSE "drain"
  /\ UNCHANGED <<timeout, calls, rx, arrived, signals, hung>>

WriteFails ==
  /\ at = "write"
  /\ WriteReturns("TRANSPORT")
  /\ UNCHANGED <<timeout, written, wire, rx, arrived, signals, hung>>

(* tcdrain is not called again after a signal: the write then fails with   *)
(* every byte on its way.                                                  *)
Drain ==
  /\ at = "drain"
  /\ WriteReturns("OK") \/ WriteReturns("TRANSPORT")
  /\ UNCHANGED <<timeout, written, wire, rx, arrived, signals, hung>>

-----------------------------------------------------------------------------
StartRead ==
  /\ at = "idle"
  /\ at' = "poll"
  /\ UNCHANGED <<timeout, written, calls, wire, rx, arrived, signals, hung>>

(* Input is reported; an error or a hang-up wins over it. *)
PollReady ==
  /\ at = "poll" /\ rx > 0 /\ ~hung
  /\ at' = "read"
  /\ UNCHANGED <<timeout, written, calls, wire, rx, arrived, signals, hung>>

(* poll returns 0: EZO_OK and no byte.  A negative timeout never passes. *)
PollTimesOut ==
  /\ at = "poll" /\ rx = 0 /\ ~hung
  /\ CastToInt(timeout) >= 0
  /\ at' = "idle"
  /\ UNCHANGED <<timeout, written, calls, wire, rx, arrived, signals, hung>>

PollFails ==
  /\ at = "poll" /\ hung
  /\ at' = "idle"
  /\ UNCHANGED <<timeout, written, calls, wire, rx, arrived, signals, hung>>

(* read(2) takes a byte; after a hang-up it may report none, or an error. *)
ReadByte ==
  /\ at = "read"
  /\ at' = "idle"
  /\ rx' = rx - 1 \/ (hung /\ UNCHANGED rx)
  /\ UNCHANGED <<timeout, written, calls, wire, arrived, signals, hung>>

(* tcflush succeeds, or fails and leaves the input. *)
DiscardInput ==
  /\ at = "idle"
  /\ rx' \in {0, rx}
  /\ UNCHANGED <<timeout, at, written, calls, wire, arrived, signals, hung>>

AdapterStep ==
  \/ at = "write" /\ \E n \in 1 .. TxLen : WriteSome(n)
  \/ WriteFails \/ Drain
  \/ PollReady \/ PollTimesOut \/ PollFails \/ ReadByte

Next ==
  \/ Arrive \/ HangUp \/ Interrupted
  \/ \E n \in TxLens : StartWrite(n)
  \/ StartRead \/ DiscardInput
  \/ AdapterStep

Spec == Init /\ [][Next]_vars

(* A system call returns: write(2) when the line takes bytes, poll(2) with *)
(* input or when its timeout passes.  Signals and input need not come.     *)
FairSpec == Spec /\ WF_vars(AdapterStep)
=============================================================================
