------------------------------ MODULE EzoScript ------------------------------
(***************************************************************************)
(* The building blocks of the example programs.  Such a program is a fixed *)
(* sequence of calls, each made only if all before it succeeded: a script. *)
(* A step is one call on the session of one circuit, or a decision.        *)
(***************************************************************************)
EXTENDS Naturals, Sequences

(* "when" is a condition on what the program has read, "failing" says      *)
(* whether a program stops or goes on if the step fails.                   *)
Call(op, p, what, value) ==
  [op |-> op, on |-> p, what |-> what, value |-> value, when |-> "always", failing |-> "stops"]

Step(op, p, what) == <<Call(op, p, what, "none")>>

If(b, script) == IF b THEN script ELSE <<>>

Made(s, condition, failing) ==
  [op |-> s.op, on |-> s.on, what |-> s.what, value |-> s.value,
   when |-> condition, failing |-> failing]

When(condition, script) ==
  [i \in DOMAIN script |-> Made(script[i], condition, script[i].failing)]

GoingOn(script) == [i \in DOMAIN script |-> Made(script[i], script[i].when, "goes on")]

(* Open a session, send a query and read its answer, send a command, read  *)
(* its acknowledgement.  Every send is followed by a wait for the hint.    *)
Open(p) == Step("open", p, "session")

Ask(p, what) == Step("ask", p, what)

Asks(p, whats) == [i \in DOMAIN whats |-> Call("ask", p, whats[i], "none")]

Tell(p, what, value) == <<Call("tell", p, what, value)>>

Ack(p) == Step("ack", p, "OK")

Set(p, what, value) == Tell(p, what, value) \o Ack(p)

(* Stop without an error in the exchange, unless the condition holds. *)
Need(p, condition) == Step("need", p, condition)

(* ezo_example_uart_bootstrap_response_codes *)
Boot(p) ==
  Step("discard", p, "input") \o Ask(p, "codes")
  \o When("codes off", Tell(p, "codes", "on") \o Step("ack", p, "codes"))

(* The I2C examples make the same calls, but never those I2C has no use    *)
(* for: no input to discard, no response codes, no baud rate, and commands *)
(* are not acknowledged: their status is never read.                       *)
OnlyOverUart(s) == s.op \in {"discard", "ack"} \/ s.what \in {"codes", "baud"}

OverI2c(script) ==
  [i \in DOMAIN script |->
     IF OnlyOverUart(script[i]) THEN Made(script[i], "never", script[i].failing) ELSE script[i]]

(* preview_readings: the length is an option of the program. *)
Preview(p, samples) == [i \in 1 .. samples |-> Call("ask", p, "read", "none")]

(* The RTD temperature in degrees Celsius; an unknown scale is an error.   *)
MeasuredCelsius == Asks("RTD", <<"scale", "read">>) \o Step("celsius", "RTD", "read")
=============================================================================
