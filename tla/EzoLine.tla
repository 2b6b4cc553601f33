------------------------------- MODULE EzoLine -------------------------------
(***************************************************************************)
(* The promise of the UART core, one line at a time: what a caller of      *)
(* ezo_uart_read_line may rely on, with the bytes left out.                *)
(*                                                                         *)
(* The circuit emits lines; the driver consumes them in order.  A read     *)
(* either delivers the head line, rejects it (empty or too long for the    *)
(* buffer) or breaks off, and a read that breaks off may have eaten the    *)
(* beginning of the head line: the head is then torn, and what the next    *)
(* read delivers is only its tail.                                         *)
(***************************************************************************)
EXTENDS Naturals, Sequences

CONSTANT Line        \* the lines a circuit can emit

VARIABLES
  lines,             \* lines emitted and not yet consumed, oldest first
  torn,              \* the first characters of the head line are lost
  kind,              \* device->last_response_kind
  text               \* what the caller's buffer holds while kind is known

ASSUME LineAssumption ==
  \A l \in Line : l.kind \in STRING /\ l.ending \in STRING

lineVars == <<lines, torn, kind, text>>

NoText == [whole |-> FALSE, line |-> <<>>]

(* A whole line is seen as what it is.  What is left of a torn one reads   *)
(* as data, or as the token that the line ends in, as only the text that   *)
(* is left is compared.                                                    *)
Seen(l, isTorn) == IF isTorn THEN {"DATA", l.ending} ELSE {l.kind}

LineTypeOK ==
  /\ lines \in Seq(Line)
  /\ torn \in BOOLEAN
  /\ text = NoText \/ (text.whole \in BOOLEAN /\ text.line \in Line)
  /\ lines = <<>> => ~torn

LineInit ==
  /\ lines = <<>>
  /\ torn = FALSE
  /\ kind = "UNKNOWN"
  /\ text = NoText

Forget == kind' = "UNKNOWN" /\ text' = NoText

(* The circuit puts a line on the wire. *)
Emit(l) ==
  /\ UNCHANGED <<torn, kind, text>>
  /\ lines' = Append(lines, l)

(* A read starts, or a command is sent: the last kind is forgotten. *)
Begin == Forget /\ UNCHANGED <<lines, torn>>

(* A read delivers the head line, or the tail that is left of it. *)
Deliver ==
  /\ lines # <<>>
  /\ lines' = Tail(lines)
  /\ torn' = FALSE
  /\ kind' \in Seen(Head(lines), torn)
  /\ text' = [whole |-> ~torn, line |-> Head(lines)]

(* A read consumes the head line and reports an error for it. *)
Reject ==
  /\ lines # <<>>
  /\ lines' = Tail(lines)
  /\ torn' = FALSE
  /\ Forget

(* A read breaks off: a timeout or a transport error. *)
Break ==
  /\ Forget
  /\ UNCHANGED lines
  /\ torn' \in {torn, lines # <<>>}

(* The input that has arrived is discarded, perhaps in mid-line. *)
Drop(n) ==
  /\ Forget
  /\ lines' = SubSeq(lines, n + 1, Len(lines))
  /\ torn' \in {(IF n = 0 THEN torn ELSE FALSE), lines' # <<>>}

LineNext ==
  \/ Begin \/ Break \/ Deliver \/ Reject
  \/ \E n \in 0 .. Len(lines) : Drop(n)
  \/ \E l \in Line : Emit(l)

LineSpec == LineInit /\ [][LineNext]_lineVars
=============================================================================
