------------------------------ MODULE EzoTyped ------------------------------
(***************************************************************************)
(* Programs that use the typed operations of a product module and of the   *)
(* control plane on one circuit: send, wait for the timing hint, read.     *)
(* The send and read helpers keep no state.  The program carries what they *)
(* need from call to call: the output mask of EC, DO and HUM, the scale of *)
(* RTD (rules 5 and 6 of the product modules in docs/api-contract.md).     *)
(*                                                                         *)
(* A careful program, like the examples, stops at the first failure, has   *)
(* nothing stale on the line when it starts again (the bootstrap, see      *)
(* EzoUartSession), and asks for the configuration again after it changed  *)
(* it.  Any other carries on with what it has.                             *)
(***************************************************************************)
EXTENDS EzoCircuit

CONSTANTS
  Used,          \* the products in use
  Programs,      \* whether the programs are careful: a set of Booleans
  MaxLate,       \* bound: replies later than the documented time
  MaxCommands    \* bound: commands sent, by a careful program and by another

ASSUME TypedAssumption ==
  /\ Used \subseteq Products /\ Programs \subseteq BOOLEAN
  /\ MaxLate \in Nat /\ MaxCommands \in [Programs -> Nat]

VARIABLES
  careful,          \* whether this program is careful
  product, bus,     \* the circuit, and how it is connected
  outputs, scale,   \* its configuration
  coming, arrived,  \* lines of its replies, oldest first
  asked, command,   \* the operation in progress, and the command it sent
  mask, unit,       \* what the program believes the configuration to be
  got,              \* how the latest operation ended, until the next one
  phase, late, sent

circuitVars == <<careful, product, bus, outputs, scale>>
vars == <<circuitVars, coming, arrived, asked, command, mask, unit, got, phase, late, sent>>

Unknown == <<>>

NoLine == [kind |-> "none", text |-> <<>>, means |-> <<>>, to |-> <<>>]

Nothing == [op |-> "none", result |-> "none", value |-> <<>>, line |-> NoLine]

Masks(p) == [DOMAIN Outputs[p] -> {"on", "off"}]

Init ==
  /\ careful \in Programs
  /\ product \in Used /\ bus \in Buses
  /\ outputs \in Masks(product)
  /\ scale \in IF product = "RTD" THEN Scales ELSE {"none"}
  /\ coming = <<>> /\ arrived = <<>>
  /\ asked = "none" /\ command = <<>>
  /\ mask = Unknown /\ unit = "unknown"
  /\ got = Nothing
  /\ phase = "idle" /\ late = 0 /\ sent = 0

Operation(o) == Operations(product, bus)[o]

-----------------------------------------------------------------------------
(* The command takes effect in the circuit, and its reply is on the way.   *)
Configured(cmd) ==
  /\ outputs' = IF asked' = "output_set"
                THEN [i \in DOMAIN outputs |->
                        IF Outputs[product][i] # cmd[2] THEN outputs[i]
                        ELSE IF cmd[3] = "1" THEN "on" ELSE "off"]
                ELSE outputs
  /\ scale' = IF asked' = "scale_set" THEN cmd[2] ELSE scale

ReplyTo(cmd, answer) ==
  LET kinds == ReplyLines(product, bus, cmd) IN
  [i \in DOMAIN kinds |->
     [kind |-> kinds[i], to |-> cmd,
      text |-> IF kinds[i] = "DATA" THEN answer.text ELSE <<>>,
      means |-> IF kinds[i] = "DATA" THEN answer.means ELSE <<>>]]

Replies(cmd) ==
  IF "DATA" \in ToSet(ReplyLines(product, bus, cmd))
  THEN {ReplyTo(cmd, a) : a \in Answers(product, cmd, outputs, scale)}
  ELSE {ReplyTo(cmd, NoLine)}

(* What a read helper needs from its caller. *)
NeedsMask(o) == Outputs[product] # <<>> /\ o \in {"read", "read_with_temp_comp"}

NeedsUnit(o) == product = "RTD" /\ o \in {"read", "memory_next", "memory_all"}

(* A careful program forgets a configuration it changes. *)
Believes(o) ==
  /\ mask' = IF careful /\ o = "output_set" THEN Unknown ELSE mask
  /\ unit' = IF careful /\ o = "scale_set" THEN "unknown" ELSE unit

(* Over I2C the reply to a new command takes the place of an unread one.   *)
Send(o) ==
  /\ phase = "idle" /\ sent < MaxCommands[careful]
  /\ NeedsMask(o) => mask # Unknown
  /\ NeedsUnit(o) => unit # "unknown"
  /\ asked' = o
  /\ \E cmd \in Operation(o).cmds :
       /\ command' = cmd
       /\ Configured(cmd)
       /\ \E reply \in Replies(cmd) :
            coming' = IF bus = "i2c" THEN reply ELSE coming \o reply
  /\ arrived' = IF bus = "i2c" THEN <<>> ELSE arrived
  /\ Believes(o)
  /\ got' = Nothing
  /\ phase' = "wait" /\ sent' = sent + 1
  /\ UNCHANGED <<careful, product, bus, late>>

(* After the hint everything has arrived, unless the hint is shorter than  *)
(* the documented time or the circuit is late.  What arrives between two   *)
(* waits is there when the second one ends.                                *)
InTime ==
  ProcessingTime(product, bus, command)
    <= ResolveTimingHint(product, bus, Operation(asked).kind)

Arrives(n) ==
  /\ arrived' = arrived \o SubSeq(coming, 1, n)
  /\ coming' = SubSeq(coming, n + 1, Len(coming))

Wait ==
  /\ phase = "wait"
  /\ \/ InTime /\ Arrives(Len(coming)) /\ UNCHANGED late
     \/ /\ \E n \in 0 .. Len(coming) - 1 : Arrives(n)
        /\ IF InTime THEN late < MaxLate /\ late' = late + 1 ELSE UNCHANGED late
  /\ phase' = "read"
  /\ UNCHANGED <<circuitVars, asked, command, mask, unit, got, sent>>

-----------------------------------------------------------------------------
(* A read takes lines as long as each has the kind it expects next.        *)
Expected == Operation(asked).lines

Matches(n) ==
  n <= Len(arrived) /\ \A i \in 1 .. n : arrived[i].kind = Expected[i]

Matched == CHOOSE n \in 0 .. Len(Expected) : Matches(n) /\ (n = Len(Expected) \/ ~Matches(n + 1))

Complete == Matched = Len(Expected)

(* The line of the wrong kind is consumed as well. *)
Consumed == IF Complete \/ Matched = Len(arrived) THEN Matched ELSE Matched + 1

Payload ==
  IF "DATA" \in ToSet(Expected)
  THEN arrived[CHOOSE i \in DOMAIN Expected : Expected[i] = "DATA"] ELSE NoLine

(* Only a complete exchange is parsed.  Without a line the UART read times *)
(* out, and the I2C read finds a status that is not success.               *)
Outcome ==
  IF ~Complete
  THEN Refused(IF Matched = Len(arrived) /\ bus = "uart" THEN "TRANSPORT" ELSE "PROTOCOL")
  ELSE IF Payload = NoLine THEN Parsed(<<>>)
  ELSE Parse(product, asked, Payload.text, mask, unit)

Read ==
  /\ phase = "read"
  /\ LET out == Outcome IN
     /\ got' = [op |-> asked, result |-> out.result, value |-> out.value,
                line |-> IF Complete THEN Payload ELSE NoLine]
     /\ mask' = IF asked = "output_query" /\ out.result = "OK" THEN out.value ELSE mask
     /\ unit' = IF asked = "scale_query" /\ out.result = "OK" THEN out.value[1] ELSE unit
     /\ phase' = IF out.result = "OK" \/ ~careful THEN "idle" ELSE "failed"
  /\ arrived' = SubSeq(arrived, Consumed + 1, Len(arrived))
  /\ asked' = "none" /\ command' = <<>>
  /\ UNCHANGED <<circuitVars, coming, late, sent>>

(* The next run of a careful program: what earlier runs left has been      *)
(* discarded, and nothing is known.                                        *)
Restart ==
  /\ phase = "failed"
  /\ coming' = <<>> /\ arrived' = <<>>
  /\ mask' = Unknown /\ unit' = "unknown"
  /\ phase' = "idle"
  /\ UNCHANGED <<circuitVars, asked, command, got, late, sent>>

Finished == phase = "idle" /\ sent = MaxCommands[careful] /\ UNCHANGED vars

Next ==
  \/ \E o \in DOMAIN Operations(product, bus) : Send(o)
  \/ Wait \/ Read \/ Restart \/ Finished

Spec == Init /\ [][Next]_vars
=============================================================================
