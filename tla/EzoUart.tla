------------------------------- MODULE EzoUart -------------------------------
(***************************************************************************)
(* The UART core (src/ezo_uart.c) over a byte transport: the line reader   *)
(* and the calls built on it, interleaved with bytes that arrive late,     *)
(* time out, or stop in the middle of a line.                              *)
(*                                                                         *)
(* A byte is a position in a line: byte i of a line of n characters is its *)
(* i-th character, byte n + 1 its carriage return.  Of the text of a line  *)
(* two things are kept: the token it is, if it is one, and the token its   *)
(* last characters spell, if they do: a name may hold any printable        *)
(* character (src/ezo_control.c:57), so the answer ?NAME,A*OK ends in *OK. *)
(***************************************************************************)
EXTENDS Naturals, Sequences

CONSTANTS
  Caps,          \* the buffer sizes callers pass to ezo_uart_read_line
  MaxCap,        \* EZO_UART_MAX_TEXT_RESPONSE_CAPACITY
  TerminalCap,   \* the buffer in ezo_uart_read_terminal_response
  DataLen,       \* characters of a data line
  TokenLen,      \* characters of a control token such as *OK
  DoneLen,       \* characters of *DONE
  Emittable,     \* the kinds of line the circuit emits
  Endings,       \* the tokens data lines may end in; DATA for none
  MaxLines       \* bound: lines the circuit emits

Kinds == {"UNKNOWN", "DATA", "OK", "ERROR", "OVER_VOLTAGE", "UNDER_VOLTAGE",
          "RESET", "READY", "SLEEP", "WAKE", "DONE"}

TerminalKinds == {"OK", "ERROR", "DONE"}

ControlKinds == Kinds \ {"UNKNOWN", "DATA"}

ASSUME UartAssumption ==
  /\ Caps \subseteq Nat
  /\ MaxCap \in Nat /\ TerminalCap \in 1 .. MaxCap
  /\ DataLen \in Nat \ {0} /\ TokenLen \in Nat \ {0} /\ DoneLen \in Nat \ {0}
  /\ Emittable \subseteq ControlKinds \cup {"DATA", "EMPTY"}
  /\ Endings \subseteq ControlKinds \cup {"DATA"}
  /\ MaxLines \in Nat

(***************************************************************************)
(* Lines and bytes.  A line of kind EMPTY is a bare carriage return.  The  *)
(* ending of a line is the token that its last characters spell without    *)
(* being the whole line, DATA when they spell none.  It is one at most, as *)
(* a token has its only asterisk in front.                                 *)
(***************************************************************************)
LineKinds == ControlKinds \cup {"DATA", "EMPTY"}

Line == [no : 1 .. MaxLines, kind : LineKinds, ending : Endings \cup {"DATA"}]

EndingsOf(k) == IF k = "DATA" THEN Endings ELSE {"DATA"}

Chars(k) == IF k = "EMPTY" THEN 0
            ELSE IF k = "DATA" THEN DataLen
            ELSE IF k = "DONE" THEN DoneLen ELSE TokenLen

Byte == [line : Line, i : Nat \ {0}]

IsCR(b) == b.i = Chars(b.line.kind) + 1

Bytes(l) == [i \in 1 .. Chars(l.kind) + 1 |-> [line |-> l, i |-> i]]

(* A buffer that holds the text of its line from the first character to    *)
(* the last.                                                               *)
IsWhole(s) == /\ Len(s) = Chars(s[1].line.kind)
              /\ s[1].i = 1

(* Mutant: the length is not compared, only how the text ends. *)
ClassifyByEnd(s) ==
  LET l == s[1].line IN
  IF l.kind \in ControlKinds THEN l.kind
  ELSE IF Len(s) >= Chars(l.ending) THEN l.ending ELSE "DATA"

(* The text is compared with the tokens, and nothing else is known of it:  *)
(* a whole line is what it is, and what is left of a torn one is a token   *)
(* when it is just the characters that spell it.                           *)
Classify(s) ==
  LET l == s[1].line IN
  IF IsWhole(s) THEN l.kind
  ELSE IF Len(s) = Chars(l.ending) THEN l.ending ELSE "DATA"

VARIABLES
  lastKind,    \* device->last_response_kind
  op,          \* the call in progress, or "none"
  step,        \* "first" line, "between" lines, "second" line of the call
  cap,         \* buffer_len of the ezo_uart_read_line in progress
  buf,         \* text stored by the last ezo_uart_read_line; after it
               \* returned, the *response_len characters it reports
  over,        \* overflowed
  data,        \* the payload a typed read keeps while it reads its *OK
  ret,         \* the last call that returned, and its ezo_result_t
  rx,          \* bytes in the host's input queue
  air,         \* bytes the circuit has emitted that have not arrived
  emitted      \* lines emitted so far

callVars == <<op, step, cap, buf, over, data>>
linkVars == <<rx, air, emitted>>
vars == <<lastKind, callVars, ret, linkVars>>

ReadOps == {"line", "terminal", "ok", "typed"}
Ops == ReadOps \cup {"send", "discard"}
Results == {"OK", "INVALID_ARGUMENT", "TRANSPORT", "PROTOCOL", "BUFFER_TOO_SMALL"}

Init ==
  /\ lastKind = "UNKNOWN"
  /\ op = "none" /\ step = "first" /\ cap = 0
  /\ buf = <<>> /\ over = FALSE /\ data = <<>>
  /\ ret = [op |-> "none", res |-> "OK"]
  /\ rx = <<>> /\ air = <<>> /\ emitted = 0

-----------------------------------------------------------------------------
(***************************************************************************)
(* The environment: a circuit that emits lines, and a link that delivers   *)
(* their bytes one at a time and in order.                                 *)
(***************************************************************************)
Emit(k, e) ==
  /\ emitted < MaxLines
  /\ emitted' = emitted + 1
  /\ air' = air \o Bytes([no |-> emitted + 1, kind |-> k, ending |-> e])
  /\ UNCHANGED <<lastKind, callVars, ret, rx>>

Arrive ==
  /\ air # <<>>
  /\ rx' = Append(rx, Head(air))
  /\ air' = Tail(air)
  /\ UNCHANGED <<lastKind, callVars, ret, emitted>>

-----------------------------------------------------------------------------
(***************************************************************************)
(* Starting a call.                                                        *)
(***************************************************************************)
ValidCap(c) == c # 0 /\ c <= MaxCap

(* read_terminal_response and read_ok bring their own small buffer. *)
CapsOf(o) == IF o \in {"line", "typed"} THEN Caps ELSE {TerminalCap}

(* Mutant: the text of the previous line is kept. *)
EnterReadLineKeepingText(c) ==
  /\ cap' = c
  /\ over' = FALSE
  /\ lastKind' = "UNKNOWN"
  /\ UNCHANGED buf

(* The entry of ezo_uart_read_line: outputs and last kind are reset. *)
EnterReadLine(c) ==
  /\ cap' = c
  /\ buf' = <<>>
  /\ over' = FALSE
  /\ lastKind' = "UNKNOWN"

BeginRead(o, c) ==
  /\ op = "none"
  /\ ValidCap(c)
  /\ op' = o /\ step' = "first" /\ data' = <<>>
  /\ EnterReadLine(c)
  /\ UNCHANGED <<ret, linkVars>>

RefuseRead(o, c) ==
  /\ op = "none"
  /\ ~ValidCap(c)
  /\ ret' = [op |-> o, res |-> "INVALID_ARGUMENT"]
  /\ UNCHANGED <<lastKind, callVars, linkVars>>

(* A send that succeeds forgets the last kind; one whose transport write   *)
(* fails, for the command or for its terminator, leaves it.                *)
Send ==
  /\ op = "none"
  /\ \/ /\ ret' = [op |-> "send", res |-> "OK"]
        /\ lastKind' = "UNKNOWN"
     \/ /\ ret' = [op |-> "send", res |-> "TRANSPORT"]
        /\ UNCHANGED lastKind
  /\ UNCHANGED <<callVars, linkVars>>

Discard ==
  /\ op = "none"
  /\ \/ /\ rx' = <<>>
        /\ lastKind' = "UNKNOWN"
        /\ ret' = [op |-> "discard", res |-> "OK"]
     \/ /\ ret' = [op |-> "discard", res |-> "TRANSPORT"]
        /\ UNCHANGED <<lastKind, rx>>
  /\ UNCHANGED <<callVars, air, emitted>>

-----------------------------------------------------------------------------
(***************************************************************************)
(* One iteration of the loop in ezo_uart_read_line.                        *)
(***************************************************************************)
Reading == op # "none" /\ step # "between"

Return(r) ==
  /\ ret' = [op |-> op, res |-> r]
  /\ op' = "none" /\ step' = "first" /\ cap' = 0

(* A read_line that fails reports no text: *response_len stays 0. *)
Fail(r) ==
  /\ Return(r)
  /\ buf' = <<>> /\ over' = FALSE
  /\ UNCHANGED <<lastKind, data>>

TakeByte == Reading /\ rx # <<>> /\ rx' = Tail(rx) /\ UNCHANGED <<air, emitted>>

(* Mutant: no room is kept for the terminating NUL. *)
StoreByteWithoutNul ==
  /\ TakeByte
  /\ ~IsCR(Head(rx)) /\ ~over /\ Len(buf) + 1 <= cap
  /\ buf' = Append(buf, Head(rx))
  /\ UNCHANGED <<lastKind, op, step, cap, over, data, ret>>

StoreByte ==
  /\ TakeByte
  /\ ~IsCR(Head(rx)) /\ ~over /\ Len(buf) + 1 < cap
  /\ buf' = Append(buf, Head(rx))
  /\ UNCHANGED <<lastKind, op, step, cap, over, data, ret>>

(* Mutant: a line that is too long is refused on the spot. *)
DropByteWithoutDrain ==
  /\ TakeByte
  /\ ~IsCR(Head(rx))
  /\ Len(buf) + 1 >= cap
  /\ Fail("BUFFER_TOO_SMALL")

(* The byte does not fit, or an earlier one did not: it is dropped and the *)
(* line is drained to its carriage return.                                 *)
DropByte ==
  /\ TakeByte
  /\ ~IsCR(Head(rx))
  /\ over \/ Len(buf) + 1 >= cap
  /\ over' = TRUE
  /\ UNCHANGED <<lastKind, op, step, cap, buf, data, ret>>

EndOfNothing ==
  /\ TakeByte
  /\ IsCR(Head(rx)) /\ buf = <<>>
  /\ Fail("PROTOCOL")

EndOfLongLine ==
  /\ TakeByte
  /\ IsCR(Head(rx)) /\ buf # <<>> /\ over
  /\ Fail("BUFFER_TOO_SMALL")

(* Mutant: a typed read takes any line for its payload. *)
AcceptAnyPayload(o, st, k) ==
  CASE o = "line" \/ (o = "typed" /\ st = "first") -> TRUE
    [] o = "terminal" -> k \in TerminalKinds
    [] OTHER -> k = "OK"

(* What each caller of ezo_uart_read_line makes of the kind of its line. *)
Accept(o, st, k) ==
  CASE o = "line" -> TRUE
    [] o = "terminal" -> k \in TerminalKinds
    [] o = "typed" /\ st = "first" -> k = "DATA"
    [] OTHER -> k = "OK"

(* Mutant: the end of the line forgets that it overflowed. *)
EndOfLineOverflowed ==
  /\ TakeByte
  /\ IsCR(Head(rx)) /\ buf # <<>>
  /\ lastKind' = Classify(buf)
  /\ Return(IF Accept(op, step, lastKind') THEN "OK" ELSE "PROTOCOL")
  /\ UNCHANGED <<data, buf, over>>

EndOfLine ==
  /\ TakeByte
  /\ IsCR(Head(rx)) /\ buf # <<>> /\ ~over
  /\ lastKind' = Classify(buf)
  /\ IF ~Accept(op, step, lastKind')
     THEN Return("PROTOCOL") /\ UNCHANGED data
     ELSE IF op = "typed" /\ step = "first"
     THEN step' = "between" /\ data' = buf /\ UNCHANGED <<op, cap, ret>>
     ELSE Return("OK") /\ UNCHANGED data
  /\ UNCHANGED <<buf, over>>

(* A typed read has its payload and goes on to ezo_uart_read_ok. *)
BeginReadOk ==
  /\ step = "between"
  /\ step' = "second"
  /\ EnterReadLine(TerminalCap)
  /\ UNCHANGED <<op, data, ret, linkVars>>

(* Mutant: a read that gets nothing is tried again. *)
TimeOutRetried == Reading /\ rx = <<>> /\ UNCHANGED vars

(* The transport reads nothing: its timeout passed with no byte in sight. *)
TimeOut ==
  /\ Reading /\ rx = <<>>
  /\ Fail("PROTOCOL")
  /\ UNCHANGED linkVars

ReadFault ==
  /\ Reading
  /\ Fail("TRANSPORT")
  /\ UNCHANGED linkVars

-----------------------------------------------------------------------------
DriverStep ==
  \/ StoreByte \/ DropByte \/ EndOfNothing \/ EndOfLongLine \/ EndOfLine
  \/ BeginReadOk \/ TimeOut

Next ==
  \/ \E k \in Emittable : \E e \in EndingsOf(k) : Emit(k, e)
  \/ Arrive
  \/ \E o \in ReadOps : \E c \in CapsOf(o) : BeginRead(o, c) \/ RefuseRead(o, c)
  \/ Send \/ Discard
  \/ DriverStep \/ ReadFault

Spec == Init /\ [][Next]_vars

(* The driver runs on: the transport read it waits in returns, with a byte *)
(* or by its timeout.  No fault has to happen.                             *)
FairSpec == Spec /\ WF_vars(DriverStep)
=============================================================================
