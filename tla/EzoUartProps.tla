---------------------------- MODULE EzoUartProps ----------------------------
(***************************************************************************)
(* What the UART core guarantees.                                          *)
(***************************************************************************)
EXTENDS EzoUart

CallTypeOK ==
  /\ lastKind \in Kinds
  /\ op \in ReadOps \cup {"none"}
  /\ step \in {"first", "between", "second"}
  /\ cap \in 0 .. MaxCap
  /\ buf \in Seq(Byte) /\ data \in Seq(Byte)
  /\ ret \in [op : Ops \cup {"none"}, res : Results]
  /\ op = "none" => step = "first"
  /\ Reading => Len(buf) + 1 <= cap

LinkTypeOK == rx \in Seq(Byte) /\ air \in Seq(Byte) /\ emitted \in 0 .. MaxLines

(* Types, and the room read_line keeps for the terminating NUL: used + 1   *)
(* never exceeds buffer_len while a line is being stored.                  *)
TypeOK ==
  /\ CallTypeOK
  /\ over \in BOOLEAN
  /\ LinkTypeOK

(***************************************************************************)
(* The bytes still to be read, and the shape of a byte stream: within a    *)
(* line each character is followed by the next one, and a carriage return  *)
(* by the first byte of another line.                                      *)
(***************************************************************************)
Pending == rx \o air

Follows(b, c) ==
  IF IsCR(b) THEN c.i = 1 /\ c.line.no = b.line.no + 1
  ELSE c = [line |-> b.line, i |-> b.i + 1]

Chained(s) == \A j \in 1 .. Len(s) - 1 : Follows(s[j], s[j + 1])

(* Consecutive characters of one line. *)
IsRun(s) ==
  \A j \in 1 .. Len(s) :
    ~IsCR(s[j]) /\ s[j].line = s[1].line /\ s[j].i = s[1].i + j - 1

(* The text of one line from somewhere in it to its last character. *)
IsTail(s) == s # <<>> /\ IsRun(s) /\ s[Len(s)].i = Chars(s[1].line.kind)

(* The text s is the token k, in a line of its own or as the end of a data *)
(* line of which only that is left.                                        *)
Spells(s, k) ==
  \/ s[1].i = 1 /\ s[1].line.kind = k
  \/ s[1].i # 1 /\ s[1].line.ending = k /\ Len(s) = Chars(k)

(* A payload: the tail of a line, and no control token. *)
IsPayload(s) == IsTail(s) /\ \A k \in ControlKinds : ~Spells(s, k)

(* What is pending are whole lines in the order they were emitted, but for *)
(* the beginning of the first one; the last one is the n-th line emitted.  *)
FramedUpTo(s, n) ==
  Chained(s) /\ (s # <<>> => IsCR(s[Len(s)]) /\ s[Len(s)].line.no = n)

WireFramed == FramedUpTo(Pending, emitted)

(* While a line is being read, its text so far and the next byte pending   *)
(* are consecutive, whatever was torn off or discarded before.             *)
ReadFramed ==
  Reading =>
    /\ lastKind = "UNKNOWN"
    /\ IsRun(buf)
    /\ (buf # <<>> /\ ~over) => Pending # <<>> /\ Follows(buf[Len(buf)], Pending[1])

(* Between the two lines of a typed read nothing can slip in: the line it  *)
(* goes on to read is the one emitted after its payload, from its first    *)
(* character on.                                                           *)
AckFramed ==
  step # "first" =>
    /\ op = "typed"
    /\ IsPayload(data)
    /\ (step = "second" /\ ~over /\ buf # <<>>) =>
         buf[1].i = 1 /\ buf[1].line.no = data[1].line.no + 1
    /\ (step = "second" => ~over /\ buf = <<>>) =>
         IF Pending = <<>> THEN data[1].line.no = emitted
         ELSE Pending[1].i = 1 /\ Pending[1].line.no = data[1].line.no + 1

Framing == WireFramed /\ ReadFramed /\ AckFramed

(* ezo_uart_read_line never splices two lines: whenever it leaves a kind   *)
(* behind, its buffer is the text of one line the circuit emitted, or what *)
(* an earlier read that broke off or a discard in mid-line left of it,     *)
(* complete up to the carriage return, and the kind is a control token     *)
(* exactly when that text is the token.  Timeouts, drained overflows,      *)
(* discards and calls of every kind may have come before.                  *)
LineIntegrity ==
  (op = "none" /\ lastKind # "UNKNOWN") =>
    /\ IsTail(buf)
    /\ \A k \in ControlKinds : lastKind = k <=> Spells(buf, k)

(* A read that succeeds, or that reports a line too long for the buffer,   *)
(* leaves the input at a line boundary, so that the next read gets a whole *)
(* line: the overflow path drains the line it refuses.                     *)
BoundaryAfterLine ==
  (op = "none" /\ ret.op \in ReadOps /\ ret.res \in {"OK", "BUFFER_TOO_SMALL"}
   /\ Pending # <<>>) => Pending[1].i = 1

(* A typed read that succeeds returns the payload that was acknowledged:   *)
(* the *OK it consumed is a line the circuit sent, not the rest of one,    *)
(* and was emitted right after the payload's; the payload is no token.     *)
TypedIsAcknowledged ==
  (op = "none" /\ ret.op = "typed" /\ ret.res = "OK") =>
    /\ lastKind = "OK"
    /\ IsPayload(data)
    /\ buf[1].i = 1 /\ buf[1].line.kind = "OK"
    /\ buf[1].line.no = data[1].line.no + 1

(* "Buffer exhaustion before \r returns EZO_ERR_BUFFER_TOO_SMALL"          *)
(* (docs/api-contract.md, UART rule 15): a line of which a character was   *)
(* dropped for want of room ends in that result.                           *)
ExhaustionReported ==
  [][(over /\ Reading /\ rx # <<>> /\ IsCR(Head(rx)) /\ rx' = Tail(rx))
     => ret'.res = "BUFFER_TOO_SMALL" /\ op' = "none"]_vars

(* Every call returns: no transport answer, line length or order of        *)
(* arrival keeps ezo_uart_read_line in its loop once the line goes quiet.  *)
CallReturns == (op # "none") ~> (op = "none")

(***************************************************************************)
(* Refinement: the byte-level reader implements the line-level promise.    *)
(* The lines of a stream of bytes s, after n lines were emitted, are those *)
(* from its first byte's to the n-th.                                      *)
(***************************************************************************)
FirstNo(s, n) == IF s = <<>> THEN n + 1 ELSE s[1].line.no

Numbered(s, m) == CHOOSE l \in {s[k].line : k \in 1 .. Len(s)} : l.no = m

LinesOf(s, n) ==
  [j \in 1 .. n + 1 - FirstNo(s, n) |-> Numbered(s, FirstNo(s, n) + j - 1)]

PendingLines == LinesOf(Pending, emitted)

(* The head line is torn when the first byte this read got of it, or the   *)
(* next one will get, is not its first.                                    *)
Unread == IF Reading /\ buf # <<>> THEN buf ELSE Pending

HeadTorn == Unread # <<>> /\ Unread[1].i # 1

TextRead ==
  IF lastKind = "UNKNOWN" THEN [whole |-> FALSE, line |-> <<>>]
  ELSE [whole |-> buf[1].i = 1, line |-> buf[1].line]

Promise == INSTANCE EzoLine WITH
  lines <- PendingLines, torn <- HeadTorn, kind <- lastKind, text <- TextRead

(* Every step of the driver is a step of the line-level promise EzoLine    *)
(* or changes nothing there: the reads of src/ezo_uart.c consume lines in  *)
(* order, deliver each at most once, and lose text only by breaking off.   *)
ImplementsPromise == Promise!LineSpec
=============================================================================
