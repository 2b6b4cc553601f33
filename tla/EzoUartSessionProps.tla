------------------------- MODULE EzoUartSessionProps -------------------------
(***************************************************************************)
(* What a program gains from the bootstrap and the two-line typed reads.   *)
(***************************************************************************)
EXTENDS EzoUartSession

(* Frames and lines that answer to some command, by its stamp. *)
Outstanding ==
  {todo[j].of : j \in DOMAIN todo} \cup {lines[j].of : j \in DOMAIN lines}

(* Types, and the reason the stamps may be reused: fewer commands are      *)
(* outstanding than there are stamps.                                      *)
SessionTypeOK ==
  /\ LineTypeOK
  /\ rxLines \in 0 .. Len(lines)
  /\ codes \in BOOLEAN
  /\ cmd \in Commands \cup {"none"}
  /\ stage \in {"discard", "ready", "write", "terminate", "wait", "read", "ack"}
  /\ sent \in 0 .. Stamps - 1
  /\ outcome \in {"none", "answered", "failed"}
  /\ cmd = "none" <=> stage \in {"discard", "ready"}
  /\ Cardinality(Outstanding \ {Unsolicited}) < Stamps

(* A typed query never returns another query's reading: when it succeeds,  *)
(* the payload is the whole text of the reply to this very query, whatever *)
(* replies earlier runs left behind and however late they come, although   *)
(* nothing in a reply names the query it answers.  The one condition is    *)
(* that the bootstrap did not ask while an answer to an earlier            *)
(* response-code query was still to come: it cannot tell the two apart.    *)
OwnReply ==
  (stage = "ready" /\ outcome = "answered" /\ alone) =>
    answer.whole /\ answer.line.of = sent /\ answer.line.body = "reading"

(* The bootstrap is a fence: once it has succeeded no reading asked for by *)
(* an earlier run is still to come, in the circuit or on the line, under   *)
(* the same condition.                                                     *)
BootstrapFences ==
  (stage = "ready" /\ alone) =>
    /\ \A j \in DOMAIN lines :
         lines[j].body = "reading" => lines[j].of = Unsolicited
    /\ \A j \in DOMAIN todo : todo[j].cmd # "typed"
    /\ input = <<>>

(* After the bootstrap the circuit acknowledges commands, whether they     *)
(* were enabled already or had to be: typed reads may wait for their *OK.  *)
ReadyMeansCodes == (stage = "ready" \/ cmd = "typed") => codes

(* When waits are long enough and faults cease, the program recovers for   *)
(* good: every query is answered, with no stale line left to trip over,    *)
(* although the bootstrap only discards what has arrived and never waits   *)
(* before it does.                                                         *)
Recovers == <>[](outcome = "answered")
=============================================================================
