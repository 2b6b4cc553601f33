--------------------------- MODULE EzoUartSession ---------------------------
(***************************************************************************)
(* A program that talks to one circuit over a UART: it bootstraps the      *)
(* response codes (examples/linux/common/example_uart.c) and then issues   *)
(* typed queries, each a payload line followed by *OK.  Any failed call    *)
(* ends the program; the next run starts with a bootstrap again and finds  *)
(* whatever the earlier run left in the circuit and on the line.           *)
(*                                                                         *)
(* Reads are the line-level steps of EzoLine, which the byte-level reader  *)
(* of EzoUart implements.  Replies may be late, writes may fail half-way,  *)
(* the program may be killed, the circuit may restart, and it may emit     *)
(* lines nobody asked for.                                                 *)
(***************************************************************************)
EXTENDS EzoLine, FiniteSets

CONSTANTS
  Stamps,      \* bound: commands are told apart modulo Stamps
  MaxLate,     \* bound: waits that end before the reply has arrived
  MaxFaults,   \* bound: failed writes, transport errors, kills, restarts
  MaxNoise     \* bound: unsolicited lines

ASSUME SessionAssumption ==
  /\ Stamps \in Nat \ {0}
  /\ MaxLate \in Nat /\ MaxFaults \in Nat /\ MaxNoise \in Nat

Unsolicited == Stamps

Bodies == {"reading", "codes on", "codes off", "token"}

(* The queries are for readings, which end in no token: a name, which can, *)
(* is not asked for.                                                       *)
SessionLine ==
  [of : 0 .. Stamps, kind : {"DATA", "OK", "ERROR", "READY"}, ending : {"DATA"},
   body : Bodies]

Commands == {"probe", "enable", "typed"}

VARIABLES
  rxLines,     \* pending lines that have arrived in full
  input,       \* what the circuit has received since the last terminator
  todo,        \* frames the circuit has still to answer, oldest first
  codes,       \* the circuit sends *OK
  cmd,         \* the command in progress
  stage,       \* how far it is
  sent,        \* the stamp of the latest command
  answer,      \* the payload of the latest typed query
  outcome,     \* how the latest typed query, or the bootstrap, ended
  alone,       \* history: when the latest response-code query was sent, no
               \* answer to an earlier one was still to come
  late, faults, noise

circuitVars == <<input, todo, codes>>
budgetVars == <<late, faults, noise>>
sessionVars == <<cmd, stage, sent, answer, outcome, alone>>
vars == <<lineVars, rxLines, circuitVars, sessionVars, budgetVars>>

Init ==
  /\ LineInit
  /\ rxLines = 0
  /\ input = <<>> /\ todo = <<>> /\ codes \in BOOLEAN
  /\ cmd = "none" /\ stage = "discard" /\ sent = 0
  /\ answer = NoText /\ outcome = "none" /\ alone = TRUE
  /\ late = 0 /\ faults = 0 /\ noise = 0

Fault == faults < MaxFaults /\ faults' = faults + 1 /\ UNCHANGED <<late, noise>>

NoFault == UNCHANGED budgetVars

-----------------------------------------------------------------------------
(***************************************************************************)
(* The circuit and the line.                                               *)
(***************************************************************************)
Reply(n, k, b) == [of |-> n, kind |-> k, ending |-> "DATA", body |-> b]

Token(n, k) == Reply(n, k, "token")

(* The circuit understands a frame that is one whole command; the remains  *)
(* of a failed write in front of it, or nothing at all, is an error.       *)
Understood(pieces) ==
  IF Len(pieces) = 1 /\ pieces[1].whole THEN pieces[1].cmd ELSE "garbage"

(* The first line of the answer, and the acknowledgement still owed.  The  *)
(* response-code query has no trailing *OK (docs/ezo/common/uart.md:52).   *)
Process ==
  /\ todo # <<>>
  /\ LET f == Head(todo) IN
     \/ /\ f.cmd = "garbage"
        /\ Emit(Token(f.of, "ERROR"))
        /\ todo' = Tail(todo) /\ UNCHANGED codes
     \/ /\ f.cmd = "probe"
        /\ Emit(Reply(f.of, "DATA", IF codes THEN "codes on" ELSE "codes off"))
        /\ todo' = Tail(todo) /\ UNCHANGED codes
     \/ /\ f.cmd = "typed"
        /\ Emit(Reply(f.of, "DATA", "reading"))
        /\ todo' = IF codes THEN <<[f EXCEPT !.cmd = "ack"]>> \o Tail(todo)
                   ELSE Tail(todo)
        /\ UNCHANGED codes
     \/ /\ f.cmd \in {"enable", "ack"}
        /\ Emit(Token(f.of, "OK"))
        /\ todo' = Tail(todo)
        /\ codes' = TRUE
  /\ NoFault
  /\ UNCHANGED <<rxLines, input, sessionVars>>

Arrive ==
  /\ rxLines < Len(lines)
  /\ rxLines' = rxLines + 1
  /\ UNCHANGED <<lineVars, circuitVars, sessionVars, budgetVars>>

(* A line of continuous output, or a token that announces a power state. *)
Chatter ==
  /\ noise < MaxNoise /\ noise' = noise + 1
  /\ \/ Emit(Reply(Unsolicited, "DATA", "reading"))
     \/ Emit(Token(Unsolicited, "READY"))
  /\ UNCHANGED <<rxLines, circuitVars, sessionVars, late, faults>>

(* The circuit restarts: it forgets its input and its work, not its codes. *)
PowerCycle ==
  /\ Fault
  /\ input' = <<>> /\ todo' = <<>>
  /\ Emit(Token(Unsolicited, "READY"))
  /\ UNCHANGED <<rxLines, codes, sessionVars>>

-----------------------------------------------------------------------------
(***************************************************************************)
(* The program.  Fails ends the run; the next one starts at the discard.   *)
(***************************************************************************)
Fails ==
  /\ cmd' = "none" /\ stage' = "discard" /\ outcome' = "failed"
  /\ UNCHANGED <<sent, answer, alone>>

Goto(c, s) == cmd' = c /\ stage' = s

(* The bootstrap begins by discarding what has arrived, mid-line or not. *)
DiscardInput ==
  /\ stage = "discard"
  /\ Drop(rxLines)
  /\ rxLines' = 0
  /\ Goto("probe", "write")
  /\ NoFault
  /\ UNCHANGED <<circuitVars, sent, answer, outcome, alone>>

StartTyped ==
  /\ stage = "ready"
  /\ Goto("typed", "write")
  /\ NoFault
  /\ UNCHANGED <<lineVars, rxLines, circuitVars, sent, answer, outcome, alone>>

Piece(whole) == [cmd |-> cmd, whole |-> whole]

(* First transport write of ezo_uart_send_command: the command text.       *)
WriteCommand ==
  /\ stage = "write"
  /\ sent' = (sent + 1) % Stamps
  /\ \/ /\ input' = Append(input, Piece(TRUE))
        /\ stage' = "terminate"
        /\ NoFault
        /\ UNCHANGED <<cmd, outcome>>
     \/ /\ Fault
        /\ input' \in {input, Append(input, Piece(FALSE)), Append(input, Piece(TRUE))}
        /\ Goto("none", "discard") /\ outcome' = "failed"
  /\ UNCHANGED <<lineVars, rxLines, todo, codes, answer, alone>>

ProbeOutstanding ==
  \/ \E j \in DOMAIN lines : lines[j].body \in {"codes on", "codes off"}
  \/ \E j \in DOMAIN todo : todo[j].cmd = "probe"

Terminated ==
  /\ input' = <<>>
  /\ todo' = Append(todo, [of |-> sent, cmd |-> Understood(input)])

(* Second transport write: the carriage return.  A write that reports an   *)
(* error may have put its byte on the wire all the same.                   *)
WriteTerminator ==
  /\ stage = "terminate"
  /\ \/ /\ Terminated
        /\ Begin
        /\ Goto(cmd, "wait")
        /\ alone' = IF cmd = "probe" THEN ~ProbeOutstanding ELSE alone
        /\ NoFault
        /\ UNCHANGED <<sent, answer, outcome>>
     \/ /\ Fault
        /\ Terminated \/ UNCHANGED <<input, todo>>
        /\ Fails
        /\ UNCHANGED lineVars
  /\ UNCHANGED <<rxLines, codes>>

Settled == todo = <<>> /\ rxLines = Len(lines)

(* The program sleeps for the timing hint: long enough, or not.            *)
WaitHint ==
  /\ stage = "wait"
  /\ \/ Settled /\ UNCHANGED late
     \/ ~Settled /\ late < MaxLate /\ late' = late + 1
  /\ Goto(cmd, "read")
  /\ UNCHANGED <<lineVars, rxLines, circuitVars, sent, answer, outcome, alone, faults, noise>>

(* Mutants: any data line is taken for the answer; codes that are off are  *)
(* left off.                                                               *)
ReadProbeUnchecked ==
  /\ cmd = "probe"
  /\ IF kind' = "DATA"
     THEN /\ IF text'.line.body = "codes off"
             THEN Goto("enable", "write") ELSE Goto("none", "ready")
          /\ UNCHANGED <<sent, answer, outcome, alone>>
     ELSE Fails

ReadProbeOnly ==
  /\ cmd = "probe"
  /\ IF kind' = "DATA" /\ text'.whole /\ text'.line.body \in {"codes on", "codes off"}
     THEN /\ Goto("none", "ready")
          /\ UNCHANGED <<sent, answer, outcome, alone>>
     ELSE Fails

(* Mutant: the answer is read like that of any other query, with its *OK.  *)
ReadProbeAcked ==
  /\ cmd = "probe"
  /\ IF stage = "read" /\ kind' = "DATA"
     THEN Goto("probe", "ack") /\ UNCHANGED <<sent, answer, outcome, alone>>
     ELSE IF stage = "ack" /\ kind' = "OK"
     THEN Goto("none", "ready") /\ UNCHANGED <<sent, answer, outcome, alone>>
     ELSE Fails

(* ezo_control_read_response_code_uart: one data line, "?*OK,<0|1>".       *)
ReadProbe ==
  /\ cmd = "probe"
  /\ IF kind' = "DATA" /\ text'.whole /\ text'.line.body \in {"codes on", "codes off"}
     THEN /\ IF text'.line.body = "codes on"
             THEN Goto("none", "ready") ELSE Goto("enable", "write")
          /\ UNCHANGED <<sent, answer, outcome, alone>>
     ELSE Fails

(* ezo_uart_read_ok after the command that enables the codes. *)
ReadEnable ==
  /\ cmd = "enable"
  /\ IF kind' = "OK"
     THEN Goto("none", "ready") /\ UNCHANGED <<sent, answer, outcome, alone>>
     ELSE Fails

(* First line of a typed read: the payload. *)
ReadPayload ==
  /\ cmd = "typed" /\ stage = "read"
  /\ IF kind' = "DATA"
     THEN /\ answer' = text'
          /\ Goto("typed", "ack")
          /\ UNCHANGED <<sent, outcome, alone>>
     ELSE Fails

(* Second line: its *OK; then the payload is parsed.  Only the text of a   *)
(* reading, or what is left of one, can parse as a reading.                *)
ReadAck ==
  /\ cmd = "typed" /\ stage = "ack"
  /\ IF kind' = "OK" /\ answer.line.body = "reading"
     THEN /\ Goto("none", "ready")
          /\ outcome' = "answered"
          /\ UNCHANGED <<sent, answer, alone>>
     ELSE Fails

ReadingLine == stage \in {"read", "ack"}

(* Mutant: the line that was read is still counted as waiting. *)
ReadsLineAgain ==
  /\ ReadingLine /\ rxLines > 0
  /\ Deliver
  /\ ReadProbe \/ ReadEnable \/ ReadPayload \/ ReadAck
  /\ NoFault
  /\ UNCHANGED <<rxLines, circuitVars>>

ReadsLine ==
  /\ ReadingLine /\ rxLines > 0
  /\ Deliver
  /\ rxLines' = rxLines - 1
  /\ ReadProbe \/ ReadEnable \/ ReadPayload \/ ReadAck
  /\ NoFault
  /\ UNCHANGED circuitVars

(* Nothing but the carriage return is left of a torn line, or a data line  *)
(* does not fit the buffer of read_ok.                                     *)
ReadRejects ==
  /\ ReadingLine /\ rxLines > 0
  /\ torn \/ (Head(lines).kind = "DATA" /\ (cmd = "enable" \/ stage = "ack"))
  /\ Reject
  /\ rxLines' = rxLines - 1
  /\ Fails
  /\ NoFault
  /\ UNCHANGED circuitVars

(* The read times out, perhaps with part of a line in its buffer. *)
ReadTimesOut ==
  /\ ReadingLine /\ rxLines = 0
  /\ Break
  /\ Fails
  /\ NoFault
  /\ UNCHANGED <<rxLines, circuitVars>>

(* A transport error ends a read, or the program is killed, anywhere. *)
Dies ==
  /\ Fault
  /\ IF ReadingLine THEN Break ELSE UNCHANGED lineVars
  /\ Fails
  /\ UNCHANGED <<rxLines, circuitVars>>

-----------------------------------------------------------------------------
ProgramStep ==
  \/ DiscardInput \/ StartTyped \/ WriteCommand \/ WriteTerminator
  \/ WaitHint \/ ReadsLine \/ ReadRejects \/ ReadTimesOut

Next == Process \/ Arrive \/ Chatter \/ PowerCycle \/ ProgramStep \/ Dies

Spec == Init /\ [][Next]_vars

(* The circuit answers, the line delivers and the program goes on; the     *)
(* faults, late replies and chatter are bounded and never have to happen.  *)
FairSpec ==
  /\ Spec
  /\ WF_vars(Process) /\ WF_vars(Arrive)
  /\ WF_vars(ProgramStep)
=============================================================================
