---------------------------- MODULE EzoProducts ----------------------------
(***************************************************************************)
(* The product modules and the control plane as tables: for each operation *)
(* the commands its send helper may write, the command kind that selects   *)
(* the timing hint, the lines its read helper takes off the line, and the  *)
(* parser it hands the payload to.  Operations have the names of the       *)
(* source, without product and transport.  Commands are sequences of       *)
(* fields, like responses.                                                 *)
(***************************************************************************)
EXTENDS EzoText

CONSTANT MemoryCapacity    \* values_capacity of the RTD memory recall

ASSUME CapacityAssumption == MemoryCapacity \in Nat \ {0}

(* A query, whose answer is a payload, and a command that is acknowledged. *)
Query(cmd, kind) == [cmds |-> {cmd}, kind |-> kind, reply |-> "DATA"]

Command(cmds, kind) == [cmds |-> cmds, kind |-> kind, reply |-> "OK"]

Ask(cmd) == Query(cmd, "generic")

Tell(cmds) == Command(cmds, "generic")

ReadOp == Query(<<"r">>, "read")

ReadWithTempCompOp == Query(<<"rt", "n1">>, "read_with_temp_comp")

CalibrateWith(cmds) == Command(cmds, "calibration")

(* The operations of both tables. *)
Joined(f, g) == [o \in DOMAIN f \cup DOMAIN g |-> IF o \in DOMAIN f THEN f[o] ELSE g[o]]

(* Mutant: the payload alone is read. *)
OverUartPayloadOnly(ops) ==
  [o \in DOMAIN ops |->
     [cmds |-> ops[o].cmds, kind |-> ops[o].kind,
      lines |-> <<ops[o].reply>>]]

(* Over UART a payload line is followed by *OK; ezo_uart_read_ok alone     *)
(* completes a command.  Over I2C the answer is one text, or none, with    *)
(* a status.                                                               *)
OverUart(ops) ==
  [o \in DOMAIN ops |->
     [cmds |-> ops[o].cmds, kind |-> ops[o].kind,
      lines |-> IF ops[o].reply = "DATA" THEN <<"DATA", "OK">> ELSE <<"OK">>]]

OverI2c(ops) ==
  [o \in DOMAIN ops |->
     [cmds |-> ops[o].cmds, kind |-> ops[o].kind,
      lines |-> <<ops[o].reply>>]]

Switches(word, names) == {<<word, o, b>> : o \in names, b \in {"0", "1"}}

-----------------------------------------------------------------------------
(* pH *)
PhCommands ==
  [read                 |-> ReadOp,
   read_with_temp_comp  |-> ReadWithTempCompOp,
   temperature_query    |-> Ask(<<"T", "?">>),
   temperature_set      |-> Tell({<<"T", "n1">>}),
   calibration_query    |-> Ask(<<"Cal", "?">>),
   calibration          |-> CalibrateWith({<<"Cal", p, "n1">> : p \in {"mid", "low", "high"}}),
   clear_calibration    |-> Tell({<<"Cal", "clear">>}),
   slope_query          |-> Ask(<<"Slope", "?">>),
   extended_range_query |-> Ask(<<"pHext", "?">>),
   extended_range_set   |-> Tell({<<"pHext", b>> : b \in {"0", "1"}})]

PhI2c == OverI2c(PhCommands)

(* The compensated read is acknowledged before its payload. *)
PhUart ==
  [o \in DOMAIN PhCommands |->
     IF o # "read_with_temp_comp" THEN OverUart(PhCommands)[o]
     ELSE [cmds |-> PhCommands[o].cmds, kind |-> PhCommands[o].kind, lines |-> <<"OK", "DATA">>]]

PhParse(o, text) ==
  CASE o \in {"read", "read_with_temp_comp"} -> Scalar(text)
    [] o = "temperature_query"    -> OneNumber(text, "?T")
    [] o = "calibration_query"    -> Level(text, {"0", "1", "2", "3"})
    [] o = "slope_query"          -> Exactly(text, {"?Slope", "?SLOPE"},
                                             <<Decimals, Decimals, Decimals>>)
    [] o = "extended_range_query" -> Flag(text, {"?pHext", "?PHEXT"})

-----------------------------------------------------------------------------
(* ORP *)
OrpCommands ==
  [read                 |-> ReadOp,
   calibration_query    |-> Ask(<<"Cal", "?">>),
   calibration          |-> CalibrateWith({<<"Cal", "n1">>}),
   clear_calibration    |-> Tell({<<"Cal", "clear">>}),
   extended_scale_query |-> Ask(<<"ORPext", "?">>),
   extended_scale_set   |-> Tell({<<"ORPext", b>> : b \in {"0", "1"}})]

OrpI2c == OverI2c(OrpCommands)

OrpUart == OverUart(OrpCommands)

OrpParse(o, text) ==
  CASE o = "read"                 -> Scalar(text)
    [] o = "calibration_query"    -> Level(text, {"0", "1"})
    [] o = "extended_scale_query" -> Flag(text, {"?ORPext"})

-----------------------------------------------------------------------------
(* EC *)
EcOutputs == <<"EC", "TDS", "S", "SG">>

EcCommands ==
  [read                |-> ReadOp,
   read_with_temp_comp |-> ReadWithTempCompOp,
   output_query        |-> Ask(<<"O", "?">>),
   output_set          |-> Tell(Switches("O", ToSet(EcOutputs))),
   temperature_query   |-> Ask(<<"T", "?">>),
   temperature_set     |-> Tell({<<"T", "n1">>}),
   probe_k_query       |-> Ask(<<"K", "?">>),
   probe_k_set         |-> Tell({<<"K", "n1">>}),
   tds_factor_query    |-> Ask(<<"TDS", "?">>),
   tds_factor_set      |-> Tell({<<"TDS", "n1">>}),
   calibration_query   |-> Ask(<<"Cal", "?">>),
   calibration         |-> CalibrateWith({<<"Cal", "dry">>, <<"Cal", "n1">>,
                                          <<"Cal", "low", "n1">>, <<"Cal", "high", "n1">>}),
   clear_calibration   |-> Tell({<<"Cal", "clear">>})]

EcI2c == OverI2c(EcCommands)

EcUart == OverUart(EcCommands)

EcParse(o, text, mask) ==
  CASE o \in {"read", "read_with_temp_comp"} -> Multi(text, mask)
    [] o = "output_query"      -> OutputConfig(text, EcOutputs)
    [] o = "temperature_query" -> OneNumber(text, "?T")
    [] o = "probe_k_query"     -> OneNumber(text, "?K")
    [] o = "tds_factor_query"  -> OneNumber(text, "?TDS")
    [] o = "calibration_query" -> Level(text, Uints)

-----------------------------------------------------------------------------
(* DO *)
DoOutputs == <<"mg", "%">>

DoCommands ==
  [read                |-> ReadOp,
   read_with_temp_comp |-> ReadWithTempCompOp,
   output_query        |-> Ask(<<"O", "?">>),
   output_set          |-> Tell(Switches("O", ToSet(DoOutputs))),
   temperature_query   |-> Ask(<<"T", "?">>),
   temperature_set     |-> Tell({<<"T", "n1">>}),
   salinity_query      |-> Ask(<<"S", "?">>),
   salinity_set        |-> Tell({<<"S", "n1", u>> : u \in {"uS", "ppt"}}),
   pressure_query      |-> Ask(<<"P", "?">>),
   pressure_set        |-> Tell({<<"P", "n1">>}),
   calibration_query   |-> Ask(<<"Cal", "?">>),
   calibration         |-> CalibrateWith({<<"Cal">>, <<"Cal", "0">>}),
   clear_calibration   |-> Tell({<<"Cal", "clear">>})]

DoI2c == OverI2c(DoCommands)

DoUart == OverUart(DoCommands)

(* The name of an output is "mg" in either case, each may be followed by a *)
(* flag, and without one it is enabled.                                    *)
DoOutputConfig(text) ==
  LET q == ParseQuery(text, EZO_SCHEMA_MAX_FIELDS) IN
  IF q.result # "OK" THEN q
  ELSE LET f == OutputFields(text)
           Named(i) == IF f.value[i] = "MG" THEN "mg" ELSE f.value[i]
           Off(i) == i < Len(f.value) /\ f.value[i + 1] = "0" IN
       IF f.result # "OK" THEN f
       ELSE IF ~AllIn(f.value, {"mg", "MG", "%", "0", "1"}) THEN Refused("PARSE")
       ELSE Parsed([j \in DOMAIN DoOutputs |->
                      IF \E i \in DOMAIN f.value : Named(i) = DoOutputs[j] /\ ~Off(i)
                      THEN "on" ELSE "off"])

DoTemperature(text) ==
  LET p == ParsePrefixed(text, {"?T"}, 2) IN
  IF p.result # "OK" THEN p
  ELSE IF p.value # <<>> /\ p.value[1] \in Decimals THEN Parsed(<<p.value[1]>>)
  ELSE Refused("PARSE")

(* The unit is microsiemens unless the answer names it. *)
DoSalinity(text) ==
  LET p == ParsePrefixed(text, {"?S"}, 2) IN
  IF p.result # "OK" THEN p
  ELSE IF p.value = <<>> \/ p.value[1] \notin Decimals THEN Refused("PARSE")
  ELSE IF Len(p.value) = 1 THEN Parsed(<<p.value[1], "uS">>)
  ELSE IF p.value[2] \in {"ppt", "uS"} THEN Parsed(p.value)
  ELSE Refused("PARSE")

DoPressure(text) ==
  LET q == ParseQuery(text, 2)
      n == CASE text[1] = "?P" /\ Len(text) = 2 -> text[2]
             [] text[1] = "?" /\ Len(text) = 3 /\ text[2] \in {"P", "p"} -> text[3]
             [] OTHER -> "none" IN
  IF q.result # "OK" THEN q
  ELSE IF n \in Decimals THEN Parsed(<<n>>) ELSE Refused("PARSE")

DoParse(o, text, mask) ==
  CASE o \in {"read", "read_with_temp_comp"} -> Multi(text, mask)
    [] o = "output_query"      -> DoOutputConfig(text)
    [] o = "temperature_query" -> DoTemperature(text)
    [] o = "salinity_query"    -> DoSalinity(text)
    [] o = "pressure_query"    -> DoPressure(text)
    [] o = "calibration_query" -> Level(text, Uints)

-----------------------------------------------------------------------------
(* RTD *)
Scales == {"c", "k", "f"}

RtdCommands ==
  [read              |-> ReadOp,
   scale_query       |-> Ask(<<"S", "?">>),
   scale_set         |-> Tell({<<"S", s>> : s \in Scales}),
   calibration_query |-> Ask(<<"Cal", "?">>),
   calibration       |-> CalibrateWith({<<"Cal", "n1">>}),
   clear_calibration |-> Tell({<<"Cal", "clear">>}),
   logger_query      |-> Ask(<<"D", "?">>),
   logger_set        |-> Tell({<<"D", "1">>}),
   memory_query      |-> Ask(<<"M", "?">>),
   memory_next       |-> Ask(<<"M">>),
   memory_all        |-> Ask(<<"M", "all">>),
   memory_clear      |-> Tell({<<"M", "clear">>})]

RtdI2c == OverI2c(RtdCommands)

RtdUart == OverUart(RtdCommands)

(* A temperature, an index with a temperature, as many temperatures as the *)
(* caller has room for: each gets the scale the caller passes in.          *)
InScale(p, unit) == IF p.result = "OK" THEN Parsed(Append(p.value, unit)) ELSE p

RtdMemoryEntry(text) ==
  LET p == ParseCsv(text, 2) IN
  IF p.result # "OK" THEN p
  ELSE IF Len(text) = 2 /\ text[1] \in Uints /\ text[2] \in Decimals THEN p
  ELSE Refused("PARSE")

(* Values are taken one by one until there is no room for the next. *)
RtdMemoryAll(text) ==
  IF \A i \in DOMAIN text : i <= MemoryCapacity => text[i] \in Decimals
  THEN ParseCsv(text, MemoryCapacity) ELSE Refused("PARSE")

RtdParse(o, text, unit) ==
  CASE o = "read"              -> InScale(Scalar(text), unit)
    [] o = "scale_query"       -> Exactly(text, {"?S"}, <<Scales>>)
    [] o = "calibration_query" -> Level(text, {"0", "1"})
    [] o = "logger_query"      -> Exactly(text, {"?D"}, <<Uints>>)
    [] o = "memory_query"      -> Exactly(text, {"?M"}, <<Uints>>)
    [] o = "memory_next"       -> InScale(RtdMemoryEntry(text), unit)
    [] o = "memory_all"        -> InScale(RtdMemoryAll(text), unit)

-----------------------------------------------------------------------------
(* HUM *)
HumOutputs == <<"HUM", "T", "Dew">>

HumCommands ==
  [read                          |-> ReadOp,
   output_query                  |-> Ask(<<"O", "?">>),
   output_set                    |-> Tell(Switches("O", ToSet(HumOutputs))),
   temperature_calibration_query |-> Ask(<<"Tcal", "?">>),
   temperature_calibration       |-> CalibrateWith({<<"Tcal", "n1">>}),
   clear_temperature_calibration |-> Tell({<<"Tcal", "clear">>})]

HumI2c == OverI2c(HumCommands)

HumUart == OverUart(HumCommands)

HumParse(o, text, mask) ==
  CASE o = "read"         -> Multi(text, mask)
    [] o = "output_query" -> OutputConfig(text, HumOutputs)
    [] o = "temperature_calibration_query" -> Flag(text, {"?Tcal"})

-----------------------------------------------------------------------------
(* The control plane, for any product. *)
ControlCommands ==
  [info_query          |-> Ask(<<"i">>),
   name_query          |-> Ask(<<"Name", "?">>),
   name_set            |-> Tell({<<"Name", "TANK">>}),
   status_query        |-> Ask(<<"Status">>),
   led_query           |-> Ask(<<"L", "?">>),
   led_set             |-> Tell({<<"L", b>> : b \in {"0", "1"}}),
   find                |-> Tell({<<"Find">>}),
   protocol_lock_query |-> Ask(<<"Plock", "?">>),
   protocol_lock_set   |-> Tell({<<"Plock", b>> : b \in {"0", "1"}})]

ControlI2c == OverI2c(ControlCommands)

(* The answer to the response-code query has no acknowledgement. *)
ControlUart ==
  Joined(OverUart(ControlCommands),
         [baud_query          |-> [cmds |-> {<<"Baud", "?">>}, kind |-> "generic",
                                   lines |-> <<"DATA", "OK">>],
          response_code_query |-> [cmds |-> {<<"*OK", "?">>}, kind |-> "generic",
                                   lines |-> <<"DATA">>],
          response_code_set   |-> [cmds |-> {<<"*OK", "1">>}, kind |-> "generic",
                                   lines |-> <<"OK">>]])

(* Short codes are compared without dots, spaces and case. *)
ProductIdFromShortCode(code) ==
  CASE code = "pH"            -> "PH"
    [] code \in {"DO", "D.O."} -> "DO"
    [] code \in {"ORP", "EC", "RTD", "HUM"} -> code
    [] OTHER                  -> "UNKNOWN"

ParseDeviceInfo(text) ==
  IF Len(text) = 3 /\ text[1] \in {"?I", "?i", "I", "i"}
  THEN Parsed(<<ProductIdFromShortCode(text[2]), text[3]>>) ELSE Refused("PARSE")

ControlParse(o, text) ==
  CASE o = "info_query"          -> ParseDeviceInfo(text)
    [] o = "name_query"          -> Exactly(text, {"?Name", "?NAME"}, <<{"", "TANK"}>>)
    [] o = "status_query"        -> Exactly(text, {"?Status", "?STATUS"},
                                            <<{"P", "S", "B", "W", "U"}, Decimals>>)
    [] o = "led_query"           -> Flag(text, {"?L"})
    [] o = "protocol_lock_query" -> Flag(text, {"?Plock", "?PLOCK"})
    [] o = "baud_query"          -> Exactly(text, {"?Baud", "?BAUD"}, <<Uints>>)
    [] o = "response_code_query" -> Flag(text, {"?*OK"})

-----------------------------------------------------------------------------
(* All of it, by product and transport. *)
Products == {"PH", "ORP", "EC", "DO", "RTD", "HUM"}

Buses == {"uart", "i2c"}

ByBus(overUart, overI2c) ==
  [uart |-> Joined(overUart, ControlUart), i2c |-> Joined(overI2c, ControlI2c)]

OperationTable ==
  [PH  |-> ByBus(PhUart, PhI2c),   ORP |-> ByBus(OrpUart, OrpI2c),
   EC  |-> ByBus(EcUart, EcI2c),   DO  |-> ByBus(DoUart, DoI2c),
   RTD |-> ByBus(RtdUart, RtdI2c), HUM |-> ByBus(HumUart, HumI2c)]

Operations(product, bus) == OperationTable[product][bus]

Outputs ==
  [PH |-> <<>>, ORP |-> <<>>, EC |-> EcOutputs, DO |-> DoOutputs, RTD |-> <<>>, HUM |-> HumOutputs]

Parse(product, o, text, mask, unit) ==
  IF o \in DOMAIN ControlUart THEN ControlParse(o, text)
  ELSE CASE product = "PH"  -> PhParse(o, text)
         [] product = "ORP" -> OrpParse(o, text)
         [] product = "EC"  -> EcParse(o, text, mask)
         [] product = "DO"  -> DoParse(o, text, mask)
         [] product = "RTD" -> RtdParse(o, text, unit)
         [] product = "HUM" -> HumParse(o, text, mask)

-----------------------------------------------------------------------------
(* Timing hints in milliseconds: the registry's, or the generic one where  *)
(* the registry has none.                                                  *)
Profile(g, r, rt, c) ==
  [generic |-> g, read |-> r, read_with_temp_comp |-> rt, calibration |-> c]

TimingRegistry ==
  [PH  |-> [uart |-> Profile(300, 900, 900, 900),  i2c |-> Profile(300, 900, 900, 900)],
   ORP |-> [uart |-> Profile(300, 1000, 0, 900),   i2c |-> Profile(300, 1000, 0, 900)],
   EC  |-> [uart |-> Profile(300, 600, 900, 1200), i2c |-> Profile(300, 600, 900, 1200)],
   DO  |-> [uart |-> Profile(300, 600, 900, 1300), i2c |-> Profile(300, 600, 900, 1300)],
   RTD |-> [uart |-> Profile(300, 1000, 0, 600),   i2c |-> Profile(300, 600, 0, 600)],
   HUM |-> [uart |-> Profile(300, 1000, 0, 300),   i2c |-> Profile(300, 300, 0, 300)]]

CommandKindHint == Profile(300, 1000, 1000, 1200)

(* Mutant: every command waits as long as a generic one. *)
GenericTimingHint(product, bus, kind) == TimingRegistry[product][bus].generic

ResolveTimingHint(product, bus, kind) ==
  LET ms == TimingRegistry[product][bus][kind] IN
  IF ms = 0 THEN CommandKindHint[kind] ELSE ms
=============================================================================
