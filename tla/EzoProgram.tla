----------------------------- MODULE EzoProgram -----------------------------
(***************************************************************************)
(* One run of an example program, with the circuits it is connected to.    *)
(* The program is its script (EzoExamplesUart, EzoExamplesI2c): its next   *)
(* step is the next action.  A circuit keeps its settings, answers a query *)
(* from them, and may refuse a command, not receive it, or answer late.    *)
(*                                                                         *)
(* An exchange is one action here; how it can go wrong line by line and    *)
(* byte by byte is in EzoTyped, EzoUartSession, EzoUart and EzoI2c.        *)
(***************************************************************************)
EXTENDS EzoExamplesI2c, Integers, FiniteSets

CONSTANTS
  Programs,           \* the programs run, each with the circuit it is run on
  Circuits,           \* for each product, the settings its circuit may have
  Endings,            \* how circuits may end the answers of an export
  MemoryCapacity,     \* RTD_MEMORY_CAPACITY
  ResponseValues,     \* recalled values that fit the text of one response
  MaxOptions,         \* bound: options a program is run with
  MaxFaults           \* bound: exchanges that go wrong

(* A circuit starts awake, with the settings of its product; what is       *)
(* measured, recalled or converted is not a setting.                       *)
ASSUME ProgramAssumption ==
  /\ MemoryCapacity \in Nat \ {0} /\ ResponseValues \in Nat \ {0} /\ MaxOptions \in Nat /\ MaxFaults \in Nat
  /\ PreviewSamples \in Nat /\ SequentialCount \in 0 .. 2   \* entries that "more memory" allows for
  /\ Programs \subseteq Examples
  /\ \A p \in Products : \A c \in Circuits[p] :
       /\ c = [x \in DOMAIN c |-> c[x]] /\ \A d \in Circuits[p] : DOMAIN d = DOMAIN c
       /\ {"mode", "codes", "plock"} \subseteq DOMAIN c /\ c.mode = "awake"
       /\ DOMAIN c \cap {"read", "read_compensated", "memory_all", "memory_next", "celsius",
                        "find", "output_on", "output_off", "import"} = {}
       /\ "slope" \in DOMAIN c => p = "PH"
       /\ p = "RTD" => "scale" \in DOMAIN c /\ c.scale \in {"c", "k", "f"}
       /\ p = "EC" => {"output", "form"} \subseteq DOMAIN c
  /\ \A g \in Programs : g.name = "calibration_transfer" =>
       \A c \in Circuits[g.on] : "chunks" \in DOMAIN c /\ c.chunks \in Nat

VARIABLES
  program, bus, flags,   \* the program, its transport, its options
  todo,                  \* the steps left of its script
  config,                \* the settings of each circuit
  line,                  \* of each circuit, what it has sent and nobody read
  known,                 \* of each circuit, what the program read last
  export,                \* the calibration export: see NewExport
  exit,                  \* how the program ended
  failed,                \* a step failed after which the program went on
  missed,                \* history: commands that did not take effect
  faults

given == <<program, bus, flags>>
vars == <<given, todo, config, line, known, export, exit, failed, missed, faults>>

Uses(n, p) ==
  CASE n = "ph_temp_comp_from_rtd"      -> {"RTD", "PH"}
    [] n = "ec_temp_comp_from_rtd"      -> {"RTD", "EC"}
    [] n = "do_temp_comp_from_rtd"      -> {"RTD", "DO"}
    [] n = "do_salinity_comp_from_ec"   -> {"EC", "DO"}
    [] n = "do_full_compensation_chain" -> {"RTD", "EC", "DO"}
    [] OTHER -> {p}

(* Each of the circuits ps with some settings of its product. *)
SettingsOf(ps) ==
  {some \in [ps -> UNION {Circuits[p] : p \in ps}] : \A p \in ps : some[p] \in Circuits[p]}

Line(kind, what, value) == <<[kind |-> kind, what |-> what, value |-> value]>>

(* On a UART the acknowledgement of an earlier command may be lying there. *)
Leftovers(b) == IF b = "uart" THEN {<<>>, Line("OK", "none", "none")} ELSE {<<>>}

(* The export of a calibration: how the circuit ends its answers, the      *)
(* chunk it began with and the one it sends next, the chunks asked for,    *)
(* whether the latest answer had one, and those the program printed.  An   *)
(* export that was broken off earlier goes on where it stood.              *)
NewExport(ending, first) ==
  [ending |-> ending, first |-> first, next |-> first, asked |-> 0, saw |-> FALSE, printed |-> <<>>]

Init ==
  /\ program \in Programs
  /\ bus \in {"uart", "i2c"}
  /\ flags \in IF bus = "uart" THEN OptionsOf(program.name) ELSE OptionsOverI2c(program.name)
  /\ Cardinality(flags) <= MaxOptions
  /\ todo = IF bus = "uart" THEN Script(program.name, program.on, flags)
            ELSE ScriptOverI2c(program.name, program.on, flags)
  /\ config \in SettingsOf(Uses(program.name, program.on))
  /\ \E left \in Leftovers(bus) : line = [p \in DOMAIN config |-> left]
  /\ known = [p \in DOMAIN config |-> <<>>]
  /\ IF program.name = "calibration_transfer"
     THEN \E ending \in Endings, first \in 1 .. 2 : export = NewExport(ending, first)
     ELSE export = NewExport("none", 1)
  /\ exit = "running" /\ failed = FALSE /\ missed = {} /\ faults = 0

-----------------------------------------------------------------------------
(***************************************************************************)
(* The circuits.  Temperatures are in hundredths of a degree.              *)
(***************************************************************************)
Water == [temperature |-> 2500, salinity |-> 35]

InScale(celsius, scale) ==
  CASE scale = "c" -> celsius
    [] scale = "k" -> celsius + 27315
    [] scale = "f" -> (celsius * 9) \div 5 + 3200

(* What a circuit answers to a query: a setting, or a measurement. *)
Answer(p, what) ==
  IF what \in DOMAIN config[p] THEN config[p][what]
  ELSE CASE what \in {"read", "memory_next", "memory_all"} /\ p = "RTD" ->
              InScale(Water.temperature, config[p].scale)
         [] what \in {"read", "read_compensated"} /\ p = "EC" -> Water.salinity
         [] OTHER -> "a value"

(* Mutant: a circuit gains the settings it is sent. *)
EffectAnything(c, what, value) ==
  [x \in DOMAIN c \cup {what} |-> IF x = what THEN value ELSE c[x]]

(* The effect of a command: on the outputs, on what a calibration fits, on *)
(* whether the circuit can be reached, or on the setting it names.         *)
Effect(c, what, value) ==
  [x \in DOMAIN c |->
     CASE x = "output" /\ what = "output_on"                        -> c[x] \cup {value}
       [] x = "output" /\ what = "output_off"                       -> c[x] \ {value}
       [] x = "calibration" /\ what \in {"calibration", "import"}   -> value
       [] x = "slope" /\ what \in {"calibration", "import"}         -> "fitted"
       [] x = what /\ x # "calibration"                             -> value
       [] OTHER                                                     -> c[x]]

(* The lines a circuit owes after a query: data and acknowledgement, in    *)
(* this order except for the compensated pH reading.  The answer to the    *)
(* response-code query is not acknowledged, nor is any while codes are off.*)
Reply(p, what, codes) ==
  LET data == Line("DATA", what, Answer(p, what))
      ok == IF bus = "uart" /\ codes = "on" /\ what # "codes" THEN Line("OK", what, "none") ELSE <<>>
  IN IF p = "PH" /\ what = "read_compensated" THEN ok \o data ELSE data \o ok

(* A command is acknowledged while the response codes are on.  Whether the *)
(* command that turns them off still is, no document says.                 *)
Acknowledged(p, what, value) ==
  IF bus = "i2c" THEN {<<>>}
  ELSE IF what = "codes" /\ value = "off" THEN {<<>>, Line("OK", what, "none")}
  ELSE IF what = "import"
       THEN {Line("OK", what, "none"), Line("OK", what, "none") \o Line("RESET", what, "none")}
  ELSE IF what = "codes" \/ config[p].codes = "on" THEN {Line("OK", what, "none")}
  ELSE {<<>>}

-----------------------------------------------------------------------------
(***************************************************************************)
(* What the program makes of an answer.                                    *)
(***************************************************************************)
(* Mutant: the acknowledgement after the data is left on the line. *)
ExpectedDataOnly(p, what) == <<"DATA">>

Expected(p, what) ==
  IF bus = "i2c" \/ what = "codes" THEN <<"DATA">>
  ELSE IF p = "PH" /\ what = "read_compensated" THEN <<"OK", "DATA">>
  ELSE <<"DATA", "OK">>

(* What the program knows, and what it has learnt. *)
Learnt(facts, what, value) ==
  [x \in DOMAIN facts \cup {what} |-> IF x = what THEN value ELSE facts[x]]

(* A reading is filed under the outputs, or the scale, the program knows.  *)
Filed(p, what, value) ==
  CASE p = "RTD" /\ what \in {"read", "memory_next", "memory_all"} ->
         [value |-> value, scale |-> known[p].scale]
    [] p = "EC" /\ what \in {"read", "read_compensated"} ->
         [value |-> value, outputs |-> known[p].output]
    [] OTHER -> value

MaxFields == 4   \* EZO_SCHEMA_MAX_FIELDS

(* A listing of the outputs fits if its fields do.  An EC circuit lists    *)
(* them in its own form, ?O,EC,S, or in that of the vendor's manual,       *)
(* ?,O,EC,S, which has one field more.                                     *)
ListingFits(c) ==
  LET fields == Cardinality(c.output) + (IF "form" \in DOMAIN c /\ c.form = "vendor" THEN 1 ELSE 0)
  IN fields <= MaxFields

(* A reading parses if it has as many values as there are known outputs,   *)
(* and at least one; recalled memory, if there is some, and it fits the    *)
(* text of a response and the program's array.                             *)
Parses(p, what) ==
  CASE what \in {"read", "read_compensated"} /\ p \in {"EC", "DO", "HUM"} ->
         config[p].output # {} /\ Cardinality(config[p].output) = Cardinality(known[p].output)
    [] what = "output" -> ListingFits(config[p])
    [] what = "memory_all" ->
         /\ config[p].memory \in 1 .. MemoryCapacity /\ config[p].memory <= ResponseValues
         /\ config[p].logger = "0"
    [] what = "memory_next" -> config[p].memory > 0 /\ config[p].logger = "0"
    [] OTHER -> TRUE

(* Mutant: Kelvin taken for degrees Celsius. *)
ToCelsiusNoOffset(reading) ==
  IF reading.scale = "f" THEN ((reading.value - 3200) * 5) \div 9 ELSE reading.value

(* ezo_example_rtd_reading_to_celsius *)
ToCelsius(reading) ==
  CASE reading.scale = "c" -> reading.value
    [] reading.scale = "k" -> reading.value - 27315
    [] reading.scale = "f" -> ((reading.value - 3200) * 5) \div 9

Holds(condition, p) ==
  CASE condition = "always"            -> TRUE
    [] condition = "never"             -> FALSE
    [] condition = "codes off"         -> known[p].codes = "off"
    [] condition = "some memory"       -> known[p].logger = "0" /\ known[p].memory \in 1 .. MemoryCapacity
    [] condition = "more memory"       -> known[p].logger = "0" /\ known[p].memory \in 2 .. MemoryCapacity
    [] condition = "salinity measured" -> "S" \in known[p].read.outputs
    [] condition = "unlocked"          -> known[p].plock = "off"

(* The value a command carries. *)
Sent(s) ==
  CASE s.value = "celsius" -> known["RTD"].celsius
    [] s.value = "ppt"     -> <<known["EC"].read.value, "ppt">>
    [] s.value = "planned" /\ s.what = "temperature" -> 2200
    [] s.value = "planned" /\ s.what = "salinity"    -> <<10, "ppt">>
    [] s.value = "clear" /\ s.what = "memory"        -> 0
    [] OTHER -> s.value

-----------------------------------------------------------------------------
(***************************************************************************)
(* The steps.                                                              *)
(***************************************************************************)
Due(op) == todo # <<>> /\ Head(todo).op = op /\ Holds(Head(todo).when, Head(todo).on)

Proceeds == todo' = Tail(todo) /\ UNCHANGED <<exit, failed>>

Stops(how) == todo' = <<>> /\ exit' = how /\ UNCHANGED failed

Fails ==
  \/ Head(todo).failing = "stops" /\ Stops("error")
  \/ Head(todo).failing = "goes on" /\ todo' = Tail(todo) /\ failed' = TRUE /\ UNCHANGED exit

Fault == faults < MaxFaults /\ faults' = faults + 1

Skip ==
  /\ todo # <<>> /\ ~Holds(Head(todo).when, Head(todo).on)
  /\ Proceeds
  /\ UNCHANGED <<given, export, config, line, known, missed, faults>>

OpenSession ==
  /\ Due("open")
  /\ \/ Proceeds /\ UNCHANGED faults
     \/ Fault /\ Fails
  /\ UNCHANGED <<given, export, config, line, known, missed>>

Discard ==
  /\ Due("discard")
  /\ line' = [line EXCEPT ![Head(todo).on] = <<>>]
  /\ Proceeds
  /\ UNCHANGED <<given, export, config, known, missed, faults>>

(* A read takes lines while they are of the kind expected next. *)
Matches(l, kinds) ==
  Len(kinds) <= Len(l) /\ \A i \in DOMAIN kinds : l[i].kind = kinds[i]

(* The typed parsers know the answer to their own query by its head.       *)
Query ==
  /\ Due("ask")
  /\ LET s == Head(todo)
         p == s.on
         kinds == Expected(p, s.what)
         before == IF bus = "i2c" THEN <<>> ELSE line[p]
         there(reply) == before \o reply
         data(l) == l[CHOOSE i \in DOMAIN kinds : kinds[i] = "DATA"]
         taken(l) == Matches(l, kinds) /\ data(l).what = s.what /\ Parses(p, s.what)
         reads(l) ==
           \/ /\ taken(l)
              /\ known' = [known EXCEPT ![p] = Learnt(@, s.what, Filed(p, s.what, data(l).value))]
              /\ line' = [line EXCEPT ![p] = SubSeq(l, Len(kinds) + 1, Len(l))]
              /\ Proceeds
           \/ ~taken(l) /\ Fails /\ line' = [line EXCEPT ![p] = l] /\ UNCHANGED known
     IN \/ reads(there(Reply(p, s.what, config[p].codes))) /\ UNCHANGED faults
        \/ Fault /\ reads(there(Line("ERROR", s.what, "none")))
        \/ Fault /\ reads(before)
  /\ UNCHANGED <<given, export, config, missed>>

(* A command takes effect, or is refused, or the send fails although the   *)
(* circuit may have got it, or it is acknowledged too late.  A circuit     *)
(* that sleeps may be woken by it and nothing else.                        *)
Command ==
  /\ Due("tell")
  /\ LET s == Head(todo)
         p == s.on
         value == Sent(s)
         before == IF bus = "i2c" THEN <<>> ELSE line[p]
         applied == config' = [config EXCEPT ![p] = Effect(@, s.what, value)] /\ UNCHANGED missed
         ignored == UNCHANGED config /\ missed' = missed \cup {s.what}
         answers(l) == line' = [line EXCEPT ![p] = before \o l]
     IN \/ /\ applied /\ Proceeds /\ UNCHANGED faults
           /\ \E ack \in Acknowledged(p, s.what, value) : answers(ack)
        \/ Fault /\ ignored /\ Proceeds /\ answers(Line("ERROR", s.what, "none"))
        \/ Fault /\ applied /\ Proceeds /\ answers(<<>>)
        \/ Fault /\ (applied \/ ignored) /\ Fails /\ answers(<<>>)
        \/ /\ config[p].mode = "asleep"
           /\ config' = [config EXCEPT ![p].mode = "awake"] /\ missed' = missed \cup {s.what}
           /\ Proceeds /\ answers(Line("WAKE", s.what, "none")) /\ UNCHANGED faults
  /\ UNCHANGED <<given, export, known>>

(* Mutant: any line will do. *)
ReadOkAnyLine ==
  /\ Due("ack")
  /\ IF line[Head(todo).on] # <<>> THEN Proceeds ELSE Fails
  /\ line' = [line EXCEPT ![Head(todo).on] = IF @ = <<>> THEN @ ELSE Tail(@)]
  /\ UNCHANGED <<given, export, config, known, missed, faults>>

(* ezo_uart_read_ok: the next line is *OK, or the step fails.  The last    *)
(* one of the bootstrap tells the program that the codes are on.           *)
ReadOk ==
  /\ Due("ack")
  /\ LET s == Head(todo)
         p == s.on
     IN \/ /\ Matches(line[p], <<"OK">>) /\ Proceeds
           /\ known' = IF s.what = "codes" THEN [known EXCEPT ![p].codes = "on"] ELSE known
        \/ ~Matches(line[p], <<"OK">>) /\ Fails /\ UNCHANGED known
  /\ line' = [line EXCEPT ![Head(todo).on] = IF @ = <<>> THEN @ ELSE Tail(@)]
  /\ UNCHANGED <<given, export, config, missed, faults>>

ConvertToCelsius ==
  /\ Due("celsius")
  /\ known' = [known EXCEPT !["RTD"] = Learnt(@, "celsius", ToCelsius(@.read))]
  /\ Proceeds
  /\ UNCHANGED <<given, export, config, line, missed, faults>>

Decide ==
  /\ Due("need")
  /\ IF Holds(Head(todo).what, Head(todo).on) THEN Proceeds ELSE Stops("blocked")
  /\ UNCHANGED <<given, export, config, line, known, missed, faults>>

(* What a circuit sends after Export: the next chunk and how it ends the   *)
(* answer; *DONE when there is no chunk left.  Over I2C that is a text     *)
(* like any other: here the chunk 0.                                       *)
ExportAnswer(p) ==
  LET chunk == Line("DATA", "chunk", export.next)
      token(kind) == Line(kind, "chunk", 0)
      last == export.next = config[p].chunks
  IN IF export.next > config[p].chunks THEN token(IF bus = "i2c" THEN "DATA" ELSE "DONE")
     ELSE IF bus = "i2c" THEN chunk
     ELSE IF export.ending = "each" \/ (export.ending = "last" /\ last) THEN chunk \o token("DONE")
     ELSE IF export.ending = "after" /\ last THEN chunk \o token("OK") \o token("DONE")
     ELSE chunk \o token("OK")

(* As many chunks are asked for as the circuit announced. *)
SendExport ==
  /\ Due("export")
  /\ LET p == Head(todo).on
         before == IF bus = "i2c" THEN <<>> ELSE line[p]
         sends(answer) ==
           /\ line' = [line EXCEPT ![p] = before \o answer]
           /\ todo' = <<[Head(todo) EXCEPT !.op = "chunk"]>> \o todo
           /\ UNCHANGED <<exit, failed>>
         asks == [export EXCEPT !.asked = @ + 1, !.saw = FALSE]
     IN \/ export.asked = known[p].chunks /\ Proceeds /\ UNCHANGED <<line, export, faults>>
        \/ /\ export.asked < known[p].chunks
           /\ \/ /\ sends(ExportAnswer(p)) /\ UNCHANGED faults
                 /\ export' = [asks EXCEPT !.next = IF @ > config[p].chunks THEN @ ELSE @ + 1]
              \/ Fault /\ sends(Line("ERROR", "chunk", 0)) /\ export' = asks
              \/ Fault /\ sends(<<>>) /\ export' = asks
              \/ Fault /\ Fails /\ UNCHANGED <<line, export>>
  /\ UNCHANGED <<given, config, known, missed>>

(* Mutant: an answer without a chunk will do. *)
AnsweredByToken(l) == l.kind \in {"DONE", "OK"}

(* The token that ends an answer; there must have been a chunk before it.  *)
Answered(l) == l.kind \in {"DONE", "OK"} /\ export.saw

Prints(chunk) == export' = [export EXCEPT !.saw = TRUE, !.printed = Append(@, chunk)]

(* An answer is read up to its token; over I2C it is one text. *)
ReadChunkUart ==
  /\ Due("chunk") /\ bus = "uart"
  /\ LET p == Head(todo).on
         l == Head(line[p])
     IN \/ line[p] = <<>> /\ Fails /\ UNCHANGED <<line, export>>
        \/ /\ line[p] # <<>>
           /\ line' = [line EXCEPT ![p] = Tail(@)]
           /\ \/ l.kind = "DATA" /\ Prints(l.value) /\ UNCHANGED <<todo, exit, failed>>
              \/ l.kind # "DATA" /\ Answered(l) /\ Proceeds /\ UNCHANGED export
              \/ l.kind # "DATA" /\ ~Answered(l) /\ Fails /\ UNCHANGED export
  /\ UNCHANGED <<given, config, known, missed, faults>>

ReadChunkI2c ==
  /\ Due("chunk") /\ bus = "i2c"
  /\ LET p == Head(todo).on IN
     /\ IF line[p] # <<>> /\ line[p][1].kind = "DATA"
        THEN Prints(line[p][1].value) /\ Proceeds
        ELSE Fails /\ UNCHANGED export
     /\ line' = [line EXCEPT ![p] = <<>>]
  /\ UNCHANGED <<given, config, known, missed, faults>>

(* ezo_calibration_read_import_result_uart: any token is a result. *)
ImportResultUart ==
  /\ Due("result") /\ bus = "uart"
  /\ LET p == Head(todo).on IN
     /\ IF line[p] # <<>> /\ Head(line[p]).kind # "DATA" THEN Proceeds ELSE Fails
     /\ line' = [line EXCEPT ![p] = IF @ = <<>> THEN @ ELSE Tail(@)]
  /\ UNCHANGED <<given, export, config, known, missed, faults>>

(* ezo_calibration_read_import_result_i2c: so is any status, if the text   *)
(* is empty or says that a reboot is pending; another text, or a failed    *)
(* transfer, is an error.                                                  *)
ImportResultI2c ==
  /\ Due("result") /\ bus = "i2c"
  /\ \/ Proceeds /\ UNCHANGED faults
     \/ Fault /\ Fails
  /\ UNCHANGED <<given, export, config, line, known, missed>>

RaiseFirstError ==
  /\ Due("raise")
  /\ IF failed THEN Stops("error") ELSE Proceeds
  /\ UNCHANGED <<given, export, config, line, known, missed, faults>>

Finish ==
  /\ todo = <<>> /\ exit = "running"
  /\ exit' = "ok"
  /\ UNCHANGED <<given, todo, config, line, known, export, failed, missed, faults>>

Ended == exit # "running" /\ UNCHANGED vars

Next ==
  \/ Skip \/ OpenSession \/ Discard \/ Query \/ Command \/ ReadOk
  \/ SendExport \/ ReadChunkUart \/ ReadChunkI2c \/ ImportResultUart \/ ImportResultI2c
  \/ ConvertToCelsius \/ Decide \/ RaiseFirstError \/ Finish \/ Ended

Spec == Init /\ [][Next]_vars
=============================================================================
