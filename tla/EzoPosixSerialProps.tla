------------------------- MODULE EzoPosixSerialProps -------------------------
(***************************************************************************)
(* What the serial adapter promises the UART core.                         *)
(***************************************************************************)
EXTENDS EzoPosixSerial

(* Types; `written` never runs past the buffer of the write in progress. *)
SerialTypeOK ==
  /\ timeout \in Timeouts
  /\ at \in {"idle", "write", "drain", "poll", "read"}
  /\ calls \in Seq([len : TxLens, res : {"running", "OK", "TRANSPORT"}])
  /\ wire \in Seq([call : 1 .. MaxWrites, i : Nat \ {0}])
  /\ at \in {"write", "drain"} => written \in 0 .. TxLen
  /\ rx \in 0 .. arrived /\ arrived \in 0 .. MaxArrivals
  /\ signals \in 0 .. MaxSignals /\ hung \in BOOLEAN
  /\ at = "read" => rx > 0

(* Where the byte at j of the wire comes from: it opens a later write than *)
(* the byte before it, or it is the next byte of the same write.           *)
InPlace(j) ==
  /\ wire[j].call \in DOMAIN calls /\ wire[j].i <= calls[wire[j].call].len
  /\ \/ wire[j].i = 1 /\ (j > 1 => wire[j - 1].call < wire[j].call)
     \/ j > 1 /\ wire[j].call = wire[j - 1].call /\ wire[j].i = wire[j - 1].i + 1

LastByteSent(c) ==
  calls[c].len > 0 => \E j \in DOMAIN wire : wire[j] = [call |-> c, i |-> calls[c].len]

(* However the kernel cuts a write up and signals interrupt it, the bytes  *)
(* on the wire are the callers' buffers in order, each from its first byte *)
(* without a gap or a repetition; a write that reports success has sent    *)
(* its whole buffer, one that fails a prefix, perhaps all of it.           *)
WritesWholeOrPrefix ==
  /\ \A j \in DOMAIN wire : InPlace(j)
  /\ \A c \in DOMAIN calls : calls[c].res = "OK" => LastByteSent(c)

(* "configures termios for 8N1, no flow control, and bounded reads"        *)
(* (docs/api-contract.md, POSIX UART adapter contract): a read returns     *)
(* although nothing arrives and signals interrupt it.                      *)
ReadBounded == (at \in {"poll", "read"}) ~> (at = "idle")
=============================================================================
