--------------------------- MODULE EzoTypedProofs ---------------------------
(***************************************************************************)
(* The typed operations, proved.  First the tables of the product modules  *)
(* and the parsers, with no state: for every product, transport, operation *)
(* and configuration, what the read helper of an operation expects is what *)
(* the circuit sends, what the circuit answers is what the parser takes,   *)
(* and no parser takes the answer to another query.  Then what they        *)
(* promise the programs that use them, for all products, transports and    *)
(* configurations, however many commands are sent and however many replies *)
(* are late.                                                               *)
(***************************************************************************)
EXTENDS EzoTypedProps, FiniteSetTheorems, SequenceTheorems, TLAPS

-----------------------------------------------------------------------------
(***************************************************************************)
(* The tables, row by row.                                                 *)
(***************************************************************************)
(* What each row of a table says of its commands: it asks when the circuit *)
(* takes it for a query, and has the kind that the circuit takes time for. *)
Row(op, words, cmd) ==
  /\ cmd[1] \in words
  /\ op.reply = IF Asks(cmd) THEN "DATA" ELSE "OK"
  /\ cmd[1] = "r" => op.kind = "read"
  /\ cmd[1] = "rt" => op.kind = "read_with_temp_comp"
  /\ cmd[1] = "Cal" /\ cmd[Len(cmd)] \notin {"?", "clear"} => op.kind = "calibration"
  /\ cmd[1] \notin {"r", "rt"} => op.kind \in {"generic", "calibration"}

LEMMA PhRows ==
  ASSUME NEW o \in DOMAIN PhCommands, NEW cmd \in PhCommands[o].cmds
  PROVE  Row(PhCommands[o], ProductWords["PH"], cmd)
<1> USE DEF PhCommands, Ask, Tell, Query, Command, Row, Asks
<1>w. ProductWords["PH"] = {"r", "rt", "T", "Cal", "Slope", "pHext"}
  BY DEF ProductWords
<1>1. CASE o = "read"
  BY <1>w, <1>1 DEF ReadOp
<1>2. CASE o = "read_with_temp_comp"
  BY <1>w, <1>2 DEF ReadWithTempCompOp
<1>3. CASE o = "temperature_query"
  BY <1>w, <1>3
<1>4. CASE o = "temperature_set"
  BY <1>w, <1>4
<1>5. CASE o = "calibration_query"
  BY <1>w, <1>5
<1>6. CASE o = "clear_calibration"
  BY <1>w, <1>6
<1>7. CASE o = "slope_query"
  BY <1>w, <1>7
<1>8. CASE o = "calibration"
  BY <1>w, <1>8 DEF CalibrateWith
<1>9. CASE o = "extended_range_query"
  BY <1>w, <1>9
<1>10. CASE o = "extended_range_set"
  BY <1>w, <1>10
<1> QED
  BY <1>1, <1>2, <1>3, <1>4, <1>5, <1>6, <1>7, <1>8, <1>9, <1>10

LEMMA OrpRows ==
  ASSUME NEW o \in DOMAIN OrpCommands, NEW cmd \in OrpCommands[o].cmds
  PROVE  Row(OrpCommands[o], ProductWords["ORP"], cmd)
<1> USE DEF OrpCommands, Ask, Tell, Query, Command, Row, Asks
<1>w. ProductWords["ORP"] = {"r", "Cal", "ORPext"}
  BY DEF ProductWords
<1>1. CASE o = "read"
  BY <1>w, <1>1 DEF ReadOp
<1>2. CASE o = "calibration_query"
  BY <1>w, <1>2
<1>3. CASE o = "clear_calibration"
  BY <1>w, <1>3
<1>4. CASE o = "calibration"
  BY <1>w, <1>4 DEF CalibrateWith
<1>5. CASE o = "extended_scale_query"
  BY <1>w, <1>5
<1>6. CASE o = "extended_scale_set"
  BY <1>w, <1>6
<1> QED
  BY <1>1, <1>2, <1>3, <1>4, <1>5, <1>6

LEMMA EcRows ==
  ASSUME NEW o \in DOMAIN EcCommands, NEW cmd \in EcCommands[o].cmds
  PROVE  Row(EcCommands[o], ProductWords["EC"], cmd)
<1> USE DEF EcCommands, Ask, Tell, Query, Command, Row, Asks
<1>w. ProductWords["EC"] = {"r", "rt", "O", "T", "K", "TDS", "Cal"}
  BY DEF ProductWords
<1>1. CASE o = "read"
  BY <1>w, <1>1 DEF ReadOp
<1>2. CASE o = "read_with_temp_comp"
  BY <1>w, <1>2 DEF ReadWithTempCompOp
<1>3. CASE o = "output_query"
  BY <1>w, <1>3
<1>4. CASE o = "output_set"
  BY <1>w, <1>4 DEF Switches, ToSet, EcOutputs
<1>5. CASE o = "temperature_query"
  BY <1>w, <1>5
<1>6. CASE o = "temperature_set"
  BY <1>w, <1>6
<1>7. CASE o = "probe_k_query"
  BY <1>w, <1>7
<1>8. CASE o = "probe_k_set"
  BY <1>w, <1>8
<1>9. CASE o = "tds_factor_query"
  BY <1>w, <1>9
<1>10. CASE o = "tds_factor_set"
  BY <1>w, <1>10
<1>11. CASE o = "calibration_query"
  BY <1>w, <1>11
<1>12. CASE o = "clear_calibration"
  BY <1>w, <1>12
<1>13. CASE o = "calibration"
  BY <1>w, <1>13 DEF CalibrateWith
<1> QED
  BY <1>1, <1>2, <1>3, <1>4, <1>5, <1>6, <1>7, <1>8, <1>9, <1>10, <1>11, <1>12, <1>13

LEMMA DoRows ==
  ASSUME NEW o \in DOMAIN DoCommands, NEW cmd \in DoCommands[o].cmds
  PROVE  Row(DoCommands[o], ProductWords["DO"], cmd)
<1> USE DEF DoCommands, Ask, Tell, Query, Command, Row, Asks
<1>w. ProductWords["DO"] = {"r", "rt", "O", "T", "S", "P", "Cal"}
  BY DEF ProductWords
<1>1. CASE o = "read"
  BY <1>w, <1>1 DEF ReadOp
<1>2. CASE o = "read_with_temp_comp"
  BY <1>w, <1>2 DEF ReadWithTempCompOp
<1>3. CASE o = "output_query"
  BY <1>w, <1>3
<1>4. CASE o = "output_set"
  BY <1>w, <1>4 DEF Switches, ToSet, DoOutputs
<1>5. CASE o = "temperature_query"
  BY <1>w, <1>5
<1>6. CASE o = "temperature_set"
  BY <1>w, <1>6
<1>7. CASE o = "salinity_query"
  BY <1>w, <1>7
<1>8. CASE o = "salinity_set"
  BY <1>w, <1>8
<1>9. CASE o = "pressure_query"
  BY <1>w, <1>9
<1>10. CASE o = "pressure_set"
  BY <1>w, <1>10
<1>11. CASE o = "calibration_query"
  BY <1>w, <1>11
<1>12. CASE o = "clear_calibration"
  BY <1>w, <1>12
<1>13. CASE o = "calibration"
  BY <1>w, <1>13 DEF CalibrateWith
<1> QED
  BY <1>1, <1>2, <1>3, <1>4, <1>5, <1>6, <1>7, <1>8, <1>9, <1>10, <1>11, <1>12, <1>13

LEMMA RtdRows ==
  ASSUME NEW o \in DOMAIN RtdCommands, NEW cmd \in RtdCommands[o].cmds
  PROVE  Row(RtdCommands[o], ProductWords["RTD"], cmd)
<1> USE DEF RtdCommands, Ask, Tell, Query, Command, Row, Asks
<1>w. ProductWords["RTD"] = {"r", "S", "Cal", "D", "M"}
  BY DEF ProductWords
<1>1. CASE o = "read"
  BY <1>w, <1>1 DEF ReadOp
<1>2. CASE o = "scale_query"
  BY <1>w, <1>2
<1>3. CASE o = "scale_set"
  BY <1>w, <1>3 DEF Scales
<1>4. CASE o = "calibration_query"
  BY <1>w, <1>4
<1>5. CASE o = "clear_calibration"
  BY <1>w, <1>5
<1>6. CASE o = "calibration"
  BY <1>w, <1>6 DEF CalibrateWith
<1>7. CASE o = "logger_query"
  BY <1>w, <1>7
<1>8. CASE o = "logger_set"
  BY <1>w, <1>8
<1>9. CASE o = "memory_query"
  BY <1>w, <1>9
<1>10. CASE o = "memory_next"
  BY <1>w, <1>10
<1>11. CASE o = "memory_all"
  BY <1>w, <1>11
<1>12. CASE o = "memory_clear"
  <2>1. cmd = <<"M", "clear">> /\ RtdCommands[o] = Command({<<"M", "clear">>}, "generic")
    BY <1>12
  <2>2. ~Asks(<<"M", "clear">>)
    OBVIOUS
  <2> QED
    BY <1>w, <2>1, <2>2 DEF Row, Command
<1> QED
  BY <1>1, <1>2, <1>3, <1>4, <1>5, <1>6, <1>7, <1>8, <1>9, <1>10, <1>11, <1>12

LEMMA HumRows ==
  ASSUME NEW o \in DOMAIN HumCommands, NEW cmd \in HumCommands[o].cmds
  PROVE  Row(HumCommands[o], ProductWords["HUM"], cmd)
<1> USE DEF HumCommands, Ask, Tell, Query, Command, Row, Asks
<1>w. ProductWords["HUM"] = {"r", "O", "Tcal"}
  BY DEF ProductWords
<1>1. CASE o = "read"
  BY <1>w, <1>1 DEF ReadOp
<1>2. CASE o = "output_query"
  BY <1>w, <1>2
<1>3. CASE o = "output_set"
  BY <1>w, <1>3 DEF Switches, ToSet, HumOutputs
<1>4. CASE o = "temperature_calibration_query"
  BY <1>w, <1>4
<1>5. CASE o = "clear_temperature_calibration"
  BY <1>w, <1>5
<1>6. CASE o = "temperature_calibration"
  BY <1>w, <1>6 DEF CalibrateWith
<1> QED
  BY <1>1, <1>2, <1>3, <1>4, <1>5, <1>6
LEMMA ControlRows ==
  ASSUME NEW o \in DOMAIN ControlCommands, NEW cmd \in ControlCommands[o].cmds
  PROVE  Row(ControlCommands[o], ControlWords, cmd) /\ cmd[1] # "*OK"
<1> USE DEF ControlCommands, ControlWords, Ask, Tell, Query, Command, Row, Asks
<1>1. CASE o = "info_query"
  BY <1>1
<1>2. CASE o = "name_query"
  BY <1>2
<1>3. CASE o = "name_set"
  BY <1>3
<1>4. CASE o = "status_query"
  BY <1>4
<1>5. CASE o = "led_query"
  BY <1>5
<1>6. CASE o = "led_set"
  BY <1>6
<1>7. CASE o = "find"
  BY <1>7
<1>8. CASE o = "protocol_lock_query"
  BY <1>8
<1>9. CASE o = "protocol_lock_set"
  BY <1>9
<1> QED
  BY <1>1, <1>2, <1>3, <1>4, <1>5, <1>6, <1>7, <1>8, <1>9 DEF ControlCommands

(* The timing hint of an operation is never shorter than the time that its *)
(* circuit takes (ezo_product_resolve_timing_hint).                        *)
LEMMA HintIsLongEnough ==
  ASSUME NEW p \in Products, NEW b \in Buses, NEW op, NEW cmd, Row(op, ProductWords[p], cmd)
  PROVE  ProcessingTime(p, b, cmd) <= ResolveTimingHint(p, b, op.kind)
<1> USE DEF Row, ProductWords, ProcessingTime, ResolveTimingHint, TimingRegistry, Profile,
            CommandKindHint, Buses
<1>1. CASE p = "PH"
  BY <1>1
<1>2. CASE p = "ORP"
  BY <1>2
<1>3. CASE p = "EC"
  BY <1>3
<1>4. CASE p = "DO"
  BY <1>4
<1>5. CASE p = "RTD"
  BY <1>5
<1>6. CASE p = "HUM"
  BY <1>6
<1> QED
  BY <1>1, <1>2, <1>3, <1>4, <1>5, <1>6 DEF Products

LEMMA ControlHintIsLongEnough ==
  ASSUME NEW p \in Products, NEW b \in Buses, NEW op, NEW cmd, Row(op, ControlWords, cmd)
  PROVE  ProcessingTime(p, b, cmd) <= ResolveTimingHint(p, b, op.kind)
<1> USE DEF Row, ControlWords, ProcessingTime, ResolveTimingHint, TimingRegistry, Profile,
            CommandKindHint, Buses, Products
<1>1. ProcessingTime(p, b, cmd) = 300
  OBVIOUS
<1>2. ResolveTimingHint(p, b, op.kind) >= 300
  OBVIOUS
<1> QED
  BY <1>1, <1>2

-----------------------------------------------------------------------------
(***************************************************************************)
(* The lines of a reply.                                                   *)
(***************************************************************************)
(* The rows of a table of product p on transport b: what is read is what   *)
(* the circuit sends, and it is sent before the hint has passed.           *)
Fits(p, b, table) ==
  \A o \in DOMAIN table : \A cmd \in table[o].cmds :
    /\ table[o].lines = ReplyLines(p, b, cmd)
    /\ ProcessingTime(p, b, cmd) <= ResolveTimingHint(p, b, table[o].kind)

LEMMA JoinedFits ==
  ASSUME NEW p, NEW b, NEW f, NEW g, Fits(p, b, f), Fits(p, b, g)
  PROVE  Fits(p, b, Joined(f, g))
<1> SUFFICES ASSUME NEW o \in DOMAIN Joined(f, g), NEW cmd \in Joined(f, g)[o].cmds
             PROVE  /\ Joined(f, g)[o].lines = ReplyLines(p, b, cmd)
                    /\ ProcessingTime(p, b, cmd) <= ResolveTimingHint(p, b, Joined(f, g)[o].kind)
  BY DEF Fits
<1>1. CASE o \in DOMAIN f
  BY <1>1 DEF Fits, Joined
<1>2. CASE o \notin DOMAIN f
  BY <1>2 DEF Fits, Joined
<1> QED
  BY <1>1, <1>2

LEMMA OverI2cFits ==
  ASSUME NEW p \in Products, NEW ops,
         \A o \in DOMAIN ops : \A cmd \in ops[o].cmds : Row(ops[o], ProductWords[p], cmd)
  PROVE  Fits(p, "i2c", OverI2c(ops))
<1> SUFFICES ASSUME NEW o \in DOMAIN ops, NEW cmd \in ops[o].cmds
             PROVE  /\ <<ops[o].reply>> = ReplyLines(p, "i2c", cmd)
                    /\ ProcessingTime(p, "i2c", cmd) <= ResolveTimingHint(p, "i2c", ops[o].kind)
  BY DEF Fits, OverI2c
<1>1. Row(ops[o], ProductWords[p], cmd)
  OBVIOUS
<1>2. ReplyLines(p, "i2c", cmd) = IF Asks(cmd) THEN <<"DATA">> ELSE <<"OK">>
  BY <1>1 DEF Row, ReplyLines
<1>3. <<ops[o].reply>> = ReplyLines(p, "i2c", cmd)
  BY <1>1, <1>2 DEF Row
<1> QED
  BY <1>1, <1>3, HintIsLongEnough DEF Buses

LEMMA OverUartFits ==
  ASSUME NEW p \in Products \ {"PH"}, NEW ops,
         \A o \in DOMAIN ops : \A cmd \in ops[o].cmds : Row(ops[o], ProductWords[p], cmd)
  PROVE  Fits(p, "uart", OverUart(ops))
<1> SUFFICES ASSUME NEW o \in DOMAIN ops, NEW cmd \in ops[o].cmds
             PROVE  /\ (IF ops[o].reply = "DATA" THEN <<"DATA", "OK">> ELSE <<"OK">>)
                         = ReplyLines(p, "uart", cmd)
                    /\ ProcessingTime(p, "uart", cmd) <= ResolveTimingHint(p, "uart", ops[o].kind)
  BY DEF Fits, OverUart
<1>1. Row(ops[o], ProductWords[p], cmd)
  OBVIOUS
<1>2. cmd[1] # "*OK"
  BY <1>1 DEF Row, ProductWords, Products
<1>3. (IF ops[o].reply = "DATA" THEN <<"DATA", "OK">> ELSE <<"OK">>) = ReplyLines(p, "uart", cmd)
  BY <1>1, <1>2 DEF Row, ReplyLines
<1> QED
  BY <1>1, <1>3, HintIsLongEnough DEF Buses

(* The compensated read of pH is the one with the acknowledgement first.   *)
LEMMA PhUartFits == Fits("PH", "uart", PhUart)
<1> SUFFICES ASSUME NEW o \in DOMAIN PhCommands, NEW cmd \in PhCommands[o].cmds
             PROVE  /\ PhUart[o].lines = ReplyLines("PH", "uart", cmd)
                    /\ ProcessingTime("PH", "uart", cmd)
                         <= ResolveTimingHint("PH", "uart", PhUart[o].kind)
  BY DEF Fits, PhUart, OverUart
<1>1. Row(PhCommands[o], ProductWords["PH"], cmd)
  BY PhRows
<1>2. cmd[1] # "*OK"
  BY <1>1 DEF Row, ProductWords
<1>3. cmd[1] = "rt" <=> o = "read_with_temp_comp"
  BY DEF PhCommands, Ask, Tell, Query, Command, ReadOp, ReadWithTempCompOp, CalibrateWith
<1>4. PhUart[o].lines = ReplyLines("PH", "uart", cmd)
  <2>1. CASE o = "read_with_temp_comp"
    BY <1>1, <1>3, <2>1 DEF PhUart, ReplyLines, Asks, ProductWords
  <2>2. CASE o # "read_with_temp_comp"
    BY <1>1, <1>2, <1>3, <2>2 DEF Row, PhUart, OverUart, ReplyLines
  <2> QED
    BY <2>1, <2>2
<1>5. PhUart[o].kind = PhCommands[o].kind
  BY DEF PhUart, OverUart
<1> QED
  BY <1>1, <1>4, <1>5, HintIsLongEnough DEF Buses, Products

LEMMA ControlI2cFits == ASSUME NEW p \in Products PROVE Fits(p, "i2c", ControlI2c)
<1> SUFFICES ASSUME NEW o \in DOMAIN ControlCommands, NEW cmd \in ControlCommands[o].cmds
             PROVE  /\ <<ControlCommands[o].reply>> = ReplyLines(p, "i2c", cmd)
                    /\ ProcessingTime(p, "i2c", cmd)
                         <= ResolveTimingHint(p, "i2c", ControlCommands[o].kind)
  BY DEF Fits, ControlI2c, OverI2c
<1>1. Row(ControlCommands[o], ControlWords, cmd)
  BY ControlRows
<1>2. ReplyLines(p, "i2c", cmd) = IF Asks(cmd) THEN <<"DATA">> ELSE <<"OK">>
  BY <1>1 DEF Row, ReplyLines
<1>3. <<ControlCommands[o].reply>> = ReplyLines(p, "i2c", cmd)
  BY <1>1, <1>2 DEF Row
<1> QED
  BY <1>1, <1>3, ControlHintIsLongEnough DEF Buses

LEMMA ControlUartFits == ASSUME NEW p \in Products PROVE Fits(p, "uart", ControlUart)
<1> DEFINE More == [baud_query          |-> [cmds |-> {<<"Baud", "?">>}, kind |-> "generic",
                                             lines |-> <<"DATA", "OK">>],
                    response_code_query |-> [cmds |-> {<<"*OK", "?">>}, kind |-> "generic",
                                             lines |-> <<"DATA">>],
                    response_code_set   |-> [cmds |-> {<<"*OK", "1">>}, kind |-> "generic",
                                             lines |-> <<"OK">>]]
<1>1. Fits(p, "uart", OverUart(ControlCommands))
  <2> SUFFICES ASSUME NEW o \in DOMAIN ControlCommands, NEW cmd \in ControlCommands[o].cmds
               PROVE  /\ (IF ControlCommands[o].reply = "DATA" THEN <<"DATA", "OK">> ELSE <<"OK">>)
                           = ReplyLines(p, "uart", cmd)
                      /\ ProcessingTime(p, "uart", cmd)
                           <= ResolveTimingHint(p, "uart", ControlCommands[o].kind)
    BY DEF Fits, OverUart
  <2>1. Row(ControlCommands[o], ControlWords, cmd) /\ cmd[1] # "*OK"
    BY ControlRows
  <2>2. (IF ControlCommands[o].reply = "DATA" THEN <<"DATA", "OK">> ELSE <<"OK">>)
          = ReplyLines(p, "uart", cmd)
    BY <2>1 DEF Row, ReplyLines, ControlWords
  <2> QED
    BY <2>1, <2>2, ControlHintIsLongEnough DEF Buses
<1>2. Fits(p, "uart", More)
  <2> SUFFICES ASSUME NEW o \in DOMAIN More, NEW cmd \in More[o].cmds
               PROVE  /\ More[o].lines = ReplyLines(p, "uart", cmd)
                      /\ ProcessingTime(p, "uart", cmd) <= ResolveTimingHint(p, "uart", More[o].kind)
    BY DEF Fits
  <2>1. More[o].kind = "generic" /\ cmd[1] \in {"Baud", "*OK"}
    OBVIOUS
  <2>2. ProcessingTime(p, "uart", cmd) <= ResolveTimingHint(p, "uart", "generic")
    BY <2>1 DEF ProcessingTime, ResolveTimingHint, TimingRegistry, Profile, CommandKindHint, Products
  <2>3. CASE o = "baud_query"
    <3>1. cmd = <<"Baud", "?">> /\ More[o].lines = <<"DATA", "OK">>
      BY <2>3
    <3>2. Asks(<<"Baud", "?">>)
      BY DEF Asks
    <3> QED
      BY <2>1, <2>2, <3>1, <3>2 DEF ReplyLines, ControlWords
  <2>4. CASE o = "response_code_query"
    <3>1. cmd = <<"*OK", "?">> /\ More[o].lines = <<"DATA">>
      BY <2>4
    <3>2. Asks(<<"*OK", "?">>)
      BY DEF Asks
    <3> QED
      BY <2>1, <2>2, <3>1, <3>2 DEF ReplyLines, ControlWords
  <2>5. CASE o = "response_code_set"
    BY <2>1, <2>2, <2>5 DEF ReplyLines, Asks, ControlWords
  <2> QED
    BY <2>3, <2>4, <2>5
<1>3. ControlUart = Joined(OverUart(ControlCommands), More)
  BY DEF ControlUart
<1> QED
  BY <1>1, <1>2, <1>3, JoinedFits

(* For every product and transport, every operation of the product module  *)
(* and of the control plane: its read helper takes the lines that the      *)
(* circuit sends, no more, no fewer and in their order, and its timing     *)
(* hint is long enough for them.                                           *)
THEOREM OperationsFit ==
  ASSUME NEW p \in Products, NEW b \in Buses
  PROVE  Fits(p, b, Operations(p, b))
<1> USE DEF Operations, OperationTable, ByBus, Buses
<1>i. Fits(p, "i2c", ControlI2c)
  BY ControlI2cFits
<1>u. Fits(p, "uart", ControlUart)
  BY ControlUartFits
<1>1. CASE p = "PH"
  BY <1>1, <1>i, <1>u, JoinedFits, PhRows, PhUartFits, OverI2cFits DEF PhI2c
<1>2. CASE p = "ORP"
  BY <1>2, <1>i, <1>u, JoinedFits, OrpRows, OverUartFits, OverI2cFits DEF OrpUart, OrpI2c
<1>3. CASE p = "EC"
  BY <1>3, <1>i, <1>u, JoinedFits, EcRows, OverUartFits, OverI2cFits DEF EcUart, EcI2c
<1>4. CASE p = "DO"
  BY <1>4, <1>i, <1>u, JoinedFits, DoRows, OverUartFits, OverI2cFits DEF DoUart, DoI2c
<1>5. CASE p = "RTD"
  BY <1>5, <1>i, <1>u, JoinedFits, RtdRows, OverUartFits, OverI2cFits DEF RtdUart, RtdI2c
<1>6. CASE p = "HUM"
  BY <1>6, <1>i, <1>u, JoinedFits, HumRows, OverUartFits, OverI2cFits DEF HumUart, HumI2c
<1> QED
  BY <1>1, <1>2, <1>3, <1>4, <1>5, <1>6 DEF Products

-----------------------------------------------------------------------------
(***************************************************************************)
(* Masks: the enabled outputs, and the words given for them.               *)
(***************************************************************************)
LEMMA EnabledUpToFinite ==
  ASSUME NEW bits, NEW i \in Nat
  PROVE  IsFiniteSet(EnabledUpTo(bits, i)) /\ Cardinality(EnabledUpTo(bits, i)) \in Nat
<1>1. IsFiniteSet(1 .. i)
  BY FS_Interval
<1> QED
  BY <1>1, FS_Subset, FS_CardinalityType DEF EnabledUpTo

(* One more output: one more enabled output, or none. *)
LEMMA EnabledStep ==
  ASSUME NEW bits, NEW i \in Nat
  PROVE  Cardinality(EnabledUpTo(bits, i + 1))
           = Cardinality(EnabledUpTo(bits, i)) + (IF bits[i + 1] = "on" THEN 1 ELSE 0)
<1>1. CASE bits[i + 1] = "on"
  <2>1. EnabledUpTo(bits, i + 1) = EnabledUpTo(bits, i) \cup {i + 1}
    BY <1>1 DEF EnabledUpTo
  <2>2. i + 1 \notin EnabledUpTo(bits, i)
    BY DEF EnabledUpTo
  <2> QED
    BY <1>1, <2>1, <2>2, EnabledUpToFinite, FS_AddElement
<1>2. CASE bits[i + 1] # "on"
  <2>1. EnabledUpTo(bits, i + 1) = EnabledUpTo(bits, i)
    BY <1>2 DEF EnabledUpTo
  <2> QED
    BY <1>2, <2>1, EnabledUpToFinite
<1> QED
  BY <1>1, <1>2

LEMMA EnabledNone == ASSUME NEW bits PROVE Cardinality(EnabledUpTo(bits, 0)) = 0
<1>1. EnabledUpTo(bits, 0) = {}
  BY DEF EnabledUpTo
<1> QED
  BY <1>1, FS_EmptySet

(* An enabled output has a place of its own among the enabled ones.        *)
LEMMA EnabledIncreases ==
  ASSUME NEW bits, NEW i \in Nat, NEW j \in Nat, i < j, bits[j] = "on"
  PROVE  Cardinality(EnabledUpTo(bits, i)) < Cardinality(EnabledUpTo(bits, j))
<1>1. j - 1 \in Nat /\ (j - 1) + 1 = j
  OBVIOUS
<1>2. EnabledUpTo(bits, i) \subseteq EnabledUpTo(bits, j - 1)
  BY DEF EnabledUpTo
<1>3. Cardinality(EnabledUpTo(bits, i)) <= Cardinality(EnabledUpTo(bits, j - 1))
  BY <1>1, <1>2, EnabledUpToFinite, FS_Subset
<1>4. Cardinality(EnabledUpTo(bits, j)) = Cardinality(EnabledUpTo(bits, j - 1)) + 1
  BY <1>1, EnabledStep
<1> QED
  BY <1>1, <1>3, <1>4, EnabledUpToFinite

LEMMA EnabledIs ==
  ASSUME NEW bits, DOMAIN bits \subseteq Nat, NEW i \in DOMAIN bits, bits[i] = "on"
  PROVE  Enabled(bits, Cardinality(EnabledUpTo(bits, i))) = i
<1> DEFINE n == Cardinality(EnabledUpTo(bits, i))
           k == Enabled(bits, n)
<1>1. k \in DOMAIN bits /\ bits[k] = "on" /\ Cardinality(EnabledUpTo(bits, k)) = n
  BY DEF Enabled
<1>2. ~(i < k)
  BY <1>1, EnabledIncreases, EnabledUpToFinite
<1>3. ~(k < i)
  BY <1>1, EnabledIncreases, EnabledUpToFinite
<1> QED
  BY <1>1, <1>2, <1>3

(* The masks of the products: up to four outputs. *)
IsMask(bits) ==
  \E n \in 0 .. EZO_SCHEMA_MAX_FIELDS : bits \in [1 .. n -> {"on", "off"}]

LEMMA MaskLength ==
  ASSUME NEW bits, IsMask(bits)
  PROVE  /\ Len(bits) \in 0 .. 4 /\ DOMAIN bits = 1 .. Len(bits)
         /\ bits \in Seq({"on", "off"})
<1>1. PICK n \in 0 .. 4 : bits \in [1 .. n -> {"on", "off"}]
  BY DEF IsMask, EZO_SCHEMA_MAX_FIELDS
<1>2. bits \in Seq({"on", "off"})
  BY <1>1
<1> QED
  BY <1>1, <1>2

LEMMA EnabledCounts ==
  ASSUME NEW bits, IsMask(bits)
  PROVE  /\ CountEnabled(bits) \in 0 .. Len(bits)
         /\ \A i \in DOMAIN bits : bits[i] = "on" =>
              Cardinality(EnabledUpTo(bits, i)) \in 1 .. CountEnabled(bits)
         /\ \A n \in 1 .. CountEnabled(bits) :
              \E i \in DOMAIN bits : bits[i] = "on" /\ Cardinality(EnabledUpTo(bits, i)) = n
<1> DEFINE C(i) == Cardinality(EnabledUpTo(bits, i))
<1>1. C(0) = 0
  BY EnabledNone
<1>2. /\ C(1) = C(0) + (IF bits[1] = "on" THEN 1 ELSE 0)
      /\ C(2) = C(1) + (IF bits[2] = "on" THEN 1 ELSE 0)
      /\ C(3) = C(2) + (IF bits[3] = "on" THEN 1 ELSE 0)
      /\ C(4) = C(3) + (IF bits[4] = "on" THEN 1 ELSE 0)
  <2>1. C(0 + 1) = C(0) + (IF bits[0 + 1] = "on" THEN 1 ELSE 0)
    BY EnabledStep
  <2>2. C(1 + 1) = C(1) + (IF bits[1 + 1] = "on" THEN 1 ELSE 0)
    BY EnabledStep
  <2>3. C(2 + 1) = C(2) + (IF bits[2 + 1] = "on" THEN 1 ELSE 0)
    BY EnabledStep
  <2>4. C(3 + 1) = C(3) + (IF bits[3 + 1] = "on" THEN 1 ELSE 0)
    BY EnabledStep
  <2> QED
    BY <2>1, <2>2, <2>3, <2>4
<1>3. Len(bits) \in 0 .. 4 /\ DOMAIN bits = 1 .. Len(bits) /\ CountEnabled(bits) = C(Len(bits))
  BY MaskLength DEF CountEnabled
<1> HIDE DEF C
<1>4. /\ CountEnabled(bits) \in 0 .. Len(bits)
      /\ \A i \in DOMAIN bits : bits[i] = "on" => C(i) \in 1 .. CountEnabled(bits)
      /\ \A n \in 1 .. CountEnabled(bits) : \E i \in DOMAIN bits : bits[i] = "on" /\ C(i) = n
  <2>1. CASE Len(bits) = 0
    BY <1>1, <1>3, <2>1
  <2>2. CASE Len(bits) = 1
    BY <1>1, <1>2, <1>3, <2>2
  <2>3. CASE Len(bits) = 2
    BY <1>1, <1>2, <1>3, <2>3
  <2>4. CASE Len(bits) = 3
    BY <1>1, <1>2, <1>3, <2>4
  <2>5. CASE Len(bits) = 4
    BY <1>1, <1>2, <1>3, <2>5
  <2> QED
    BY <1>3, <2>1, <2>2, <2>3, <2>4, <2>5
<1> QED
  BY <1>4 DEF C

(* The words of the enabled outputs: each is one, and each has its place.  *)
Lists(w, words, bits) ==
  /\ Len(w) = CountEnabled(bits) /\ CountEnabled(bits) \in 0 .. 4
  /\ DOMAIN w = 1 .. CountEnabled(bits)
  /\ \A i \in DOMAIN bits : bits[i] = "on" =>
       /\ Cardinality(EnabledUpTo(bits, i)) \in 1 .. CountEnabled(bits)
       /\ w[Cardinality(EnabledUpTo(bits, i))] = words[i]
  /\ \A n \in 1 .. CountEnabled(bits) : \E i \in DOMAIN bits : bits[i] = "on" /\ w[n] = words[i]

LEMMA OfEnabledLists ==
  ASSUME NEW bits, IsMask(bits), NEW words
  PROVE  Lists(OfEnabled(words, bits), words, bits)
<1>1. DOMAIN bits \subseteq Nat /\ CountEnabled(bits) \in 0 .. 4
  <2>1. Len(bits) \in 0 .. 4 /\ DOMAIN bits = 1 .. Len(bits)
    BY MaskLength
  <2>2. CountEnabled(bits) \in 0 .. Len(bits)
    BY EnabledCounts
  <2> QED
    BY <2>1, <2>2
<1>2. \A n \in 1 .. CountEnabled(bits) :
        \E i \in DOMAIN bits : bits[i] = "on" /\ OfEnabled(words, bits)[n] = words[i]
  <2> TAKE n \in 1 .. CountEnabled(bits)
  <2>1. PICK i \in DOMAIN bits : bits[i] = "on" /\ Cardinality(EnabledUpTo(bits, i)) = n
    BY EnabledCounts
  <2>2. Enabled(bits, n) = i
    BY <1>1, <2>1, EnabledIs
  <2> QED
    BY <2>1, <2>2 DEF OfEnabled
<1>3. Len(OfEnabled(words, bits)) = CountEnabled(bits)
      /\ DOMAIN OfEnabled(words, bits) = 1 .. CountEnabled(bits)
  BY <1>1 DEF OfEnabled
<1>4. \A i \in DOMAIN bits : bits[i] = "on" =>
        /\ Cardinality(EnabledUpTo(bits, i)) \in 1 .. CountEnabled(bits)
        /\ OfEnabled(words, bits)[Cardinality(EnabledUpTo(bits, i))] = words[i]
  BY <1>1, EnabledCounts, EnabledIs DEF OfEnabled
<1> QED
  BY <1>1, <1>2, <1>3, <1>4 DEF Lists

LEMMA OfEnabledWords ==
  ASSUME NEW bits, IsMask(bits), NEW W, NEW words, \A i \in DOMAIN bits : words[i] \in W
  PROVE  OfEnabled(words, bits) \in Seq(W)
<1> DEFINE w == OfEnabled(words, bits)
<1>1. /\ CountEnabled(bits) \in 0 .. 4
      /\ \A n \in 1 .. CountEnabled(bits) : \E i \in DOMAIN bits : w[n] = words[i]
  BY OfEnabledLists DEF Lists
<1>2. w \in [1 .. CountEnabled(bits) -> W]
  BY <1>1 DEF OfEnabled
<1> HIDE DEF w
<1>3. w \in Seq(W)
  BY <1>1, <1>2
<1> QED
  BY <1>3 DEF w

-----------------------------------------------------------------------------
(***************************************************************************)
(* The parsers.                                                            *)
(***************************************************************************)
Errors == {"PARSE", "TOO_SMALL", "INVALID"}

LEMMA WithHeadIs ==
  ASSUME NEW h, NEW W, NEW w \in Seq(W)
  PROVE  /\ WithHead(h, w) \in Seq(W \cup {h})
         /\ WithHead(h, w) # <<>> /\ WithHead(h, w)[1] = h
         /\ Len(WithHead(h, w)) = Len(w) + 1 /\ Tail(WithHead(h, w)) = w
<1> DEFINE S == W \cup {h}
<1>1. <<h>> \in Seq(S) /\ w \in Seq(S)
  OBVIOUS
<1>2. /\ <<h>> \o w \in Seq(S) /\ Len(<<h>> \o w) = Len(w) + 1
      /\ \A i \in 1 .. Len(w) + 1 : (<<h>> \o w)[i] = IF i <= 1 THEN <<h>>[i] ELSE w[i - 1]
  BY <1>1, ConcatProperties
<1> HIDE DEF S
<1>3. Len(w) \in Nat /\ (<<h>> \o w)[1] = h /\ <<h>> \o w # <<>>
  BY <1>1, <1>2
<1>4. Tail(<<h>> \o w) \in Seq(S) /\ Len(Tail(<<h>> \o w)) = Len(w)
  BY <1>2, <1>3
<1>5. \A i \in 1 .. Len(w) : Tail(<<h>> \o w)[i] = w[i]
  BY <1>1, <1>2, <1>3
<1>6. Tail(<<h>> \o w) = w
  BY <1>1, <1>4, <1>5
<1> QED
  BY <1>2, <1>3, <1>6 DEF S, WithHead

(* A response of the right form is taken. *)
LEMMA ExactlyTakes ==
  ASSUME NEW h \in QueryHeads, NEW heads, h \in heads, NEW W, NEW w \in Seq(W),
         NEW accepted, Len(accepted) = Len(w),
         \A i \in DOMAIN accepted : w[i] \in accepted[i]
  PROVE  Exactly(WithHead(h, w), heads, accepted) = Parsed(w)
<1> DEFINE t == WithHead(h, w)
<1>0. t # <<>> /\ t[1] = h /\ Len(t) = Len(w) + 1 /\ Tail(t) = w /\ Len(w) \in Nat
  BY WithHeadIs, LenProperties
<1> HIDE DEF t
<1>1. t # <<>> /\ t[1] = h /\ Len(t) - 1 = Len(accepted) /\ Tail(t) = w
  BY <1>0
<1>2. ParseQuery(t, Len(accepted)) = Parsed(t)
  BY <1>1 DEF ParseQuery
<1>3. ParsePrefixed(t, heads, Len(accepted)) = Parsed(w)
  BY <1>1, <1>2 DEF ParsePrefixed, Parsed
<1>4. Exactly(t, heads, accepted) = Parsed(w)
  BY <1>3 DEF Exactly, Parsed
<1> QED
  BY <1>4 DEF t

(* No other is. *)
LEMMA ExactlyChecks ==
  ASSUME NEW text, NEW heads, NEW accepted
  PROVE  /\ Exactly(text, heads, accepted).result \in {"OK"} \cup Errors
         /\ Exactly(text, heads, accepted).result = "OK" =>
              /\ text # <<>> /\ text[1] \in heads
              /\ Exactly(text, heads, accepted).value = Tail(text)
              /\ \A i \in DOMAIN accepted : Tail(text)[i] \in accepted[i]
<1> DEFINE q == ParseQuery(text, Len(accepted))
           p == ParsePrefixed(text, heads, Len(accepted))
           e == Exactly(text, heads, accepted)
<1>1. /\ q.result \in {"OK", "PARSE", "TOO_SMALL"}
      /\ q.result = "OK" => text # <<>> /\ text[1] \in QueryHeads
  BY DEF ParseQuery, Parsed, Refused
<1>2. /\ p.result \in {"OK", "PARSE", "TOO_SMALL"}
      /\ p.result = "OK" => text # <<>> /\ text[1] \in heads /\ p.value = Tail(text)
  BY <1>1 DEF ParsePrefixed, Parsed, Refused
<1>3. /\ e.result \in {"OK", "PARSE", "TOO_SMALL"}
      /\ e.result = "OK" => p.result = "OK" /\ e.value = p.value
                            /\ \A i \in DOMAIN accepted : p.value[i] \in accepted[i]
  BY <1>2 DEF Exactly, Parsed, Refused
<1> QED
  BY <1>2, <1>3 DEF Errors

-----------------------------------------------------------------------------
(***************************************************************************)
(* No parser takes the answer to another query.                            *)
(***************************************************************************)
Headless == {"read", "read_with_temp_comp", "memory_next", "memory_all"}

(* What is asked by a query, and what is answered by a text of product p:  *)
(* the name of the query, but one name for all payloads without a head.    *)
Topic(o) == IF o \in Headless THEN "bare" ELSE o

TopicOfHead(p, h) ==
  CASE h = "?O"                     -> "output_query"
    [] h = "?T"                     -> "temperature_query"
    [] h \in {"?Cal", "?CAL"}       -> "calibration_query"
    [] h \in {"?Slope", "?SLOPE"}   -> "slope_query"
    [] h \in {"?pHext", "?PHEXT"}   -> "extended_range_query"
    [] h = "?ORPext"                -> "extended_scale_query"
    [] h = "?K"                     -> "probe_k_query"
    [] h = "?TDS"                   -> "tds_factor_query"
    [] h = "?S"                     -> IF p = "DO" THEN "salinity_query" ELSE "scale_query"
    [] h = "?P"                     -> "pressure_query"
    [] h = "?D"                     -> "logger_query"
    [] h = "?M"                     -> "memory_query"
    [] h = "?Tcal"                  -> "temperature_calibration_query"
    [] h \in {"?I", "?i", "I", "i"} -> "info_query"
    [] h \in {"?Name", "?NAME"}     -> "name_query"
    [] h \in {"?Status", "?STATUS"} -> "status_query"
    [] h = "?L"                     -> "led_query"
    [] h \in {"?Plock", "?PLOCK"}   -> "protocol_lock_query"
    [] h \in {"?Baud", "?BAUD"}     -> "baud_query"
    [] h = "?*OK"                   -> "response_code_query"
    [] OTHER                        -> "bare"

TopicOfText(p, text) ==
  IF text = <<>> THEN "bare"
  ELSE IF text[1] # "?" THEN TopicOfHead(p, text[1])
  ELSE IF text[2] = "O" THEN "output_query" ELSE "pressure_query"

(* A sequence, whatever its words. *)
IsText(text) == text \in Seq({text[i] : i \in 1 .. Len(text)})

LEMMA TextFacts ==
  ASSUME NEW text, IsText(text)
  PROVE  Len(text) \in Nat /\ DOMAIN text = 1 .. Len(text)
BY DEF IsText

LEMMA TextOf ==
  ASSUME NEW W, NEW text \in Seq(W)
  PROVE  IsText(text)
<1> DEFINE S == {text[i] : i \in 1 .. Len(text)}
<1>1. Len(text) \in Nat /\ text \in [1 .. Len(text) -> W]
  BY LenProperties
<1>2. \A i \in 1 .. Len(text) : text[i] \in S
  OBVIOUS
<1> HIDE DEF S
<1>3. text \in [1 .. Len(text) -> S]
  BY <1>1, <1>2
<1>4. text \in Seq(S)
  BY <1>1, <1>3
<1> QED
  BY <1>4 DEF IsText, S

(* A payload without a head starts with a number. *)
LEMMA BareNumber ==
  ASSUME NEW p, NEW text, text # <<>>, text[1] \in Decimals
  PROVE  TopicOfText(p, text) = "bare"
BY DEF Decimals, Uints, TopicOfText, TopicOfHead

LEMMA ScalarChecks ==
  ASSUME NEW text
  PROVE  /\ Scalar(text).result \in {"OK"} \cup Errors
         /\ Scalar(text).result = "OK" => \A p : TopicOfText(p, text) = "bare"
<1>1. /\ Scalar(text).result \in {"OK", "PARSE"}
      /\ Scalar(text).result = "OK" => Len(text) = 1 /\ text[1] \in Decimals
  BY DEF Scalar, Parsed, Refused
<1>2. Len(text) = 1 => text # <<>>
  OBVIOUS
<1> QED
  BY <1>1, <1>2, BareNumber DEF Errors

LEMMA MultiChecks ==
  ASSUME NEW text, IsText(text), NEW bits
  PROVE  /\ Multi(text, bits).result \in {"OK"} \cup Errors
         /\ Multi(text, bits).result = "OK" => \A p : TopicOfText(p, text) = "bare"
<1>1. /\ Multi(text, bits).result \in {"OK", "PARSE", "TOO_SMALL", "INVALID"}
      /\ Multi(text, bits).result = "OK" => text # <<>> /\ AllIn(text, Decimals)
                                            /\ Len(text) = CountEnabled(bits) /\ CountEnabled(bits) # 0
  BY DEF Multi, ParseCsv, Parsed, Refused
<1>2. text # <<>> => 1 \in DOMAIN text
  BY TextFacts
<1> QED
  BY <1>1, <1>2, BareNumber DEF Errors, AllIn

(* What a parser takes answers its own query. *)
Takes(p, o, text, outcome) ==
  /\ outcome.result \in {"OK"} \cup Errors
  /\ outcome.result = "OK" => TopicOfText(p, text) = Topic(o)

LEMMA ExactlyOwn ==
  ASSUME NEW p, NEW o, NEW text, NEW heads, NEW accepted, "?" \notin heads,
         \A h \in heads : TopicOfHead(p, h) = Topic(o)
  PROVE  Takes(p, o, text, Exactly(text, heads, accepted))
BY ExactlyChecks DEF Takes, TopicOfText

LEMMA PhParseOwn ==
  ASSUME NEW o \in {"read", "read_with_temp_comp", "temperature_query", "calibration_query",
                    "slope_query", "extended_range_query"},
         NEW text
  PROVE  Takes("PH", o, text, PhParse(o, text))
<1> USE DEF PhParse, Topic, Headless
<1>1. CASE o \in {"read", "read_with_temp_comp"}
  BY <1>1, ScalarChecks DEF Takes
<1>2. CASE o = "temperature_query"
  BY <1>2, ExactlyOwn DEF OneNumber, TopicOfHead
<1>3. CASE o = "calibration_query"
  BY <1>3, ExactlyOwn DEF Level, CalHeads, TopicOfHead
<1>4. CASE o = "slope_query"
  BY <1>4, ExactlyOwn DEF TopicOfHead
<1>5. CASE o = "extended_range_query"
  BY <1>5, ExactlyOwn DEF Flag, TopicOfHead
<1> QED
  BY <1>1, <1>2, <1>3, <1>4, <1>5

LEMMA OrpParseOwn ==
  ASSUME NEW o \in {"read", "calibration_query", "extended_scale_query"}, NEW text
  PROVE  Takes("ORP", o, text, OrpParse(o, text))
<1> USE DEF OrpParse, Topic, Headless
<1>1. CASE o = "read"
  BY <1>1, ScalarChecks DEF Takes
<1>2. CASE o = "calibration_query"
  BY <1>2, ExactlyOwn DEF Level, CalHeads, TopicOfHead
<1>3. CASE o = "extended_scale_query"
  BY <1>3, ExactlyOwn DEF Flag, TopicOfHead
<1> QED
  BY <1>1, <1>2, <1>3

LEMMA OutputFieldsChecks ==
  ASSUME NEW text, text # <<>>
  PROVE  /\ OutputFields(text).result \in {"OK", "PARSE"}
         /\ OutputFields(text).result = "OK" => \A p : TopicOfText(p, text) = "output_query"
BY DEF OutputFields, Parsed, Refused, TopicOfText, TopicOfHead

LEMMA OutputConfigOwn ==
  ASSUME NEW p, NEW text, NEW wanted
  PROVE  Takes(p, "output_query", text, OutputConfig(text, wanted))
<1>1. /\ ParseQuery(text, EZO_SCHEMA_MAX_FIELDS).result \in {"OK", "PARSE", "TOO_SMALL"}
      /\ ParseQuery(text, EZO_SCHEMA_MAX_FIELDS).result = "OK" => text # <<>>
  BY DEF ParseQuery, Parsed, Refused
<1>2. /\ OutputConfig(text, wanted).result \in {"OK", "PARSE", "TOO_SMALL"}
      /\ OutputConfig(text, wanted).result = "OK" => text # <<>> /\ OutputFields(text).result = "OK"
  BY <1>1, OutputFieldsChecks DEF OutputConfig, Parsed, Refused
<1> QED
  BY <1>2, OutputFieldsChecks DEF Takes, Topic, Headless, Errors

LEMMA EcParseOwn ==
  ASSUME NEW o \in {"read", "read_with_temp_comp", "output_query", "temperature_query",
                    "probe_k_query", "tds_factor_query", "calibration_query"},
         NEW text, IsText(text), NEW bits
  PROVE  Takes("EC", o, text, EcParse(o, text, bits))
<1> USE DEF EcParse, Topic, Headless
<1>1. CASE o \in {"read", "read_with_temp_comp"}
  BY <1>1, MultiChecks DEF Takes
<1>2. CASE o = "output_query"
  BY <1>2, OutputConfigOwn
<1>3. CASE o = "temperature_query"
  BY <1>3, ExactlyOwn DEF OneNumber, TopicOfHead
<1>4. CASE o = "probe_k_query"
  BY <1>4, ExactlyOwn DEF OneNumber, TopicOfHead
<1>5. CASE o = "tds_factor_query"
  BY <1>5, ExactlyOwn DEF OneNumber, TopicOfHead
<1>6. CASE o = "calibration_query"
  BY <1>6, ExactlyOwn DEF Level, CalHeads, TopicOfHead
<1> QED
  BY <1>1, <1>2, <1>3, <1>4, <1>5, <1>6

LEMMA DoOutputConfigOwn ==
  ASSUME NEW text
  PROVE  Takes("DO", "output_query", text, DoOutputConfig(text))
<1>1. /\ ParseQuery(text, EZO_SCHEMA_MAX_FIELDS).result \in {"OK", "PARSE", "TOO_SMALL"}
      /\ ParseQuery(text, EZO_SCHEMA_MAX_FIELDS).result = "OK" => text # <<>>
  BY DEF ParseQuery, Parsed, Refused
<1>2. /\ DoOutputConfig(text).result \in {"OK", "PARSE", "TOO_SMALL"}
      /\ DoOutputConfig(text).result = "OK" => text # <<>> /\ OutputFields(text).result = "OK"
  BY <1>1, OutputFieldsChecks DEF DoOutputConfig, Parsed, Refused
<1> QED
  BY <1>2, OutputFieldsChecks DEF Takes, Topic, Headless, Errors

(* The parsers of DO that do not insist on one form. *)
LEMMA PrefixedChecks ==
  ASSUME NEW text, NEW heads, NEW cap
  PROVE  /\ ParsePrefixed(text, heads, cap).result \in {"OK", "PARSE", "TOO_SMALL"}
         /\ ParsePrefixed(text, heads, cap).result = "OK" => text # <<>> /\ text[1] \in heads
BY DEF ParsePrefixed, ParseQuery, Parsed, Refused

LEMMA DoParseOwn ==
  ASSUME NEW o \in {"read", "read_with_temp_comp", "output_query", "temperature_query",
                    "salinity_query", "pressure_query", "calibration_query"},
         NEW text, IsText(text), NEW bits
  PROVE  Takes("DO", o, text, DoParse(o, text, bits))
<1> USE DEF DoParse, Topic, Headless
<1>1. CASE o \in {"read", "read_with_temp_comp"}
  BY <1>1, MultiChecks DEF Takes
<1>2. CASE o = "output_query"
  BY <1>2, DoOutputConfigOwn
<1>3. CASE o = "temperature_query"
  <2>1. /\ DoTemperature(text).result \in {"OK", "PARSE", "TOO_SMALL"}
        /\ DoTemperature(text).result = "OK" => text # <<>> /\ text[1] = "?T"
    BY PrefixedChecks DEF DoTemperature, Parsed, Refused
  <2> QED
    BY <1>3, <2>1 DEF Takes, TopicOfText, TopicOfHead, Errors
<1>4. CASE o = "salinity_query"
  <2>1. /\ DoSalinity(text).result \in {"OK", "PARSE", "TOO_SMALL"}
        /\ DoSalinity(text).result = "OK" => text # <<>> /\ text[1] = "?S"
    BY PrefixedChecks DEF DoSalinity, Parsed, Refused
  <2> QED
    BY <1>4, <2>1 DEF Takes, TopicOfText, TopicOfHead, Errors
<1>5. CASE o = "pressure_query"
  <2>1. /\ DoPressure(text).result \in {"OK", "PARSE", "TOO_SMALL"}
        /\ DoPressure(text).result = "OK" =>
             text # <<>> /\ (text[1] = "?P" \/ (text[1] = "?" /\ text[2] \in {"P", "p"}))
    BY DEF DoPressure, ParseQuery, Parsed, Refused, Decimals, Uints
  <2> QED
    BY <1>5, <2>1 DEF Takes, TopicOfText, TopicOfHead, Errors
<1>6. CASE o = "calibration_query"
  BY <1>6, ExactlyOwn DEF Level, CalHeads, TopicOfHead
<1> QED
  BY <1>1, <1>2, <1>3, <1>4, <1>5, <1>6

LEMMA RtdParseOwn ==
  ASSUME NEW o \in {"read", "scale_query", "calibration_query", "logger_query", "memory_query",
                    "memory_next", "memory_all"},
         NEW text, IsText(text), NEW degree
  PROVE  Takes("RTD", o, text, RtdParse(o, text, degree))
<1> USE DEF RtdParse, Topic, Headless
<1>i. ASSUME NEW outcome
      PROVE  InScale(outcome, degree).result = outcome.result
  BY DEF InScale, Parsed
<1>1. CASE o = "read"
  BY <1>1, <1>i, ScalarChecks DEF Takes
<1>2. CASE o = "scale_query"
  BY <1>2, ExactlyOwn DEF TopicOfHead
<1>3. CASE o = "calibration_query"
  BY <1>3, ExactlyOwn DEF Level, CalHeads, TopicOfHead
<1>4. CASE o = "logger_query"
  BY <1>4, ExactlyOwn DEF TopicOfHead
<1>5. CASE o = "memory_query"
  BY <1>5, ExactlyOwn DEF TopicOfHead
<1>6. CASE o = "memory_next"
  <2>1. /\ RtdMemoryEntry(text).result \in {"OK", "PARSE", "TOO_SMALL"}
        /\ RtdMemoryEntry(text).result = "OK" => text # <<>> /\ text[1] \in Uints
    BY DEF RtdMemoryEntry, ParseCsv, Parsed, Refused
  <2> QED
    BY <1>6, <1>i, <2>1, BareNumber DEF Takes, Errors, Decimals
<1>7. CASE o = "memory_all"
  <2>1. /\ RtdMemoryAll(text).result \in {"OK", "PARSE", "TOO_SMALL"}
        /\ RtdMemoryAll(text).result = "OK" =>
             /\ text # <<>>
             /\ \A i \in DOMAIN text : i <= MemoryCapacity => text[i] \in Decimals
    BY DEF RtdMemoryAll, ParseCsv, Parsed, Refused
  <2>2. text # <<>> => 1 \in DOMAIN text /\ 1 <= MemoryCapacity
    BY CapacityAssumption, TextFacts
  <2> QED
    BY <1>7, <1>i, <2>1, <2>2, BareNumber DEF Takes, Errors
<1> QED
  BY <1>1, <1>2, <1>3, <1>4, <1>5, <1>6, <1>7

LEMMA HumParseOwn ==
  ASSUME NEW o \in {"read", "output_query", "temperature_calibration_query"},
         NEW text, IsText(text), NEW bits
  PROVE  Takes("HUM", o, text, HumParse(o, text, bits))
<1> USE DEF HumParse, Topic, Headless
<1>1. CASE o = "read"
  BY <1>1, MultiChecks DEF Takes
<1>2. CASE o = "output_query"
  BY <1>2, OutputConfigOwn
<1>3. CASE o = "temperature_calibration_query"
  BY <1>3, ExactlyOwn DEF Flag, TopicOfHead
<1> QED
  BY <1>1, <1>2, <1>3

LEMMA ControlParseOwn ==
  ASSUME NEW p, NEW text,
         NEW o \in {"info_query", "name_query", "status_query", "led_query", "protocol_lock_query",
                    "baud_query", "response_code_query"}
  PROVE  Takes(p, o, text, ControlParse(o, text))
<1> USE DEF ControlParse, Topic, Headless
<1>1. CASE o = "info_query"
  <2>1. /\ ParseDeviceInfo(text).result \in {"OK", "PARSE"}
        /\ ParseDeviceInfo(text).result = "OK" => Len(text) = 3 /\ text[1] \in {"?I", "?i", "I", "i"}
    BY DEF ParseDeviceInfo, Parsed, Refused
  <2>2. Len(text) = 3 => text # <<>>
    OBVIOUS
  <2> QED
    BY <1>1, <2>1, <2>2 DEF Takes, TopicOfText, TopicOfHead, Errors
<1>2. CASE o = "name_query"
  BY <1>2, ExactlyOwn DEF TopicOfHead
<1>3. CASE o = "status_query"
  BY <1>3, ExactlyOwn DEF TopicOfHead
<1>4. CASE o = "led_query"
  BY <1>4, ExactlyOwn DEF Flag, TopicOfHead
<1>5. CASE o = "protocol_lock_query"
  BY <1>5, ExactlyOwn DEF Flag, TopicOfHead
<1>6. CASE o = "baud_query"
  BY <1>6, ExactlyOwn DEF TopicOfHead
<1>7. CASE o = "response_code_query"
  BY <1>7, ExactlyOwn DEF Flag, TopicOfHead
<1> QED
  BY <1>1, <1>2, <1>3, <1>4, <1>5, <1>6, <1>7

-----------------------------------------------------------------------------
(***************************************************************************)
(* Each parser takes the answer to its own query, for what it means.       *)
(***************************************************************************)
(* An operation may be refused its own answer: a reading when no output is *)
(* enabled, more memory than there is room for, four outputs in the        *)
(* vendor's form.                                                          *)
Excused(o, a, bits) ==
  \/ o \in {"read", "read_with_temp_comp"} /\ bits # <<>> /\ "on" \notin ToSet(bits)
  \/ o = "memory_all" /\ Len(a.text) > MemoryCapacity
  \/ o = "output_query" /\ Len(a.text) - 1 > EZO_SCHEMA_MAX_FIELDS

Understood(p, o, a, bits, outcome) ==
  /\ IsText(a.text)
  /\ TopicOfText(p, a.text) = Topic(o)
  /\ outcome = Parsed(a.means) \/ (outcome.result \in Errors /\ Excused(o, a, bits))

LEMMA LabelledIs ==
  ASSUME NEW heads, NEW wordss, NEW a \in Labelled(heads, wordss)
  PROVE  \E h \in heads, w \in wordss : a.text = WithHead(h, w) /\ a.means = w
<1>1. PICK h \in heads, w \in wordss : a = Answer(WithHead(h, w), w)
  BY DEF Labelled
<1> QED
  BY <1>1 DEF Answer

(* Word by word, among the ones that are accepted. *)
Acceptable(wordss, accepted) ==
  \A w \in wordss : /\ IsText(w) /\ Len(w) = Len(accepted)
                    /\ \A i \in 1 .. Len(w) : w[i] \in accepted[i]

LEMMA LabelledUnderstood ==
  ASSUME NEW p, NEW o, NEW bits, NEW heads, NEW wordss, NEW a \in Labelled(heads, wordss),
         NEW allowed, NEW accepted, DOMAIN accepted = 1 .. Len(accepted),
         heads \subseteq allowed, heads \subseteq QueryHeads \ {"?"},
         \A h \in heads : TopicOfHead(p, h) = Topic(o),
         Acceptable(wordss, accepted)
  PROVE  Understood(p, o, a, bits, Exactly(a.text, allowed, accepted))
<1>1. PICK h \in heads, w \in wordss : a.text = WithHead(h, w) /\ a.means = w
  BY LabelledIs
<1>a. IsText(w) /\ Len(w) = Len(accepted) /\ \A i \in 1 .. Len(w) : w[i] \in accepted[i]
  BY DEF Acceptable
<1> DEFINE W == {w[i] : i \in 1 .. Len(w)}
<1>2. w \in Seq(W)
  BY <1>a DEF IsText
<1> HIDE DEF W
<1>3. /\ a.text = WithHead(h, w) /\ a.means = w
      /\ a.text # <<>> /\ a.text[1] = h /\ IsText(a.text)
  <2>1. WithHead(h, w) \in Seq(W \cup {h}) /\ WithHead(h, w) # <<>> /\ WithHead(h, w)[1] = h
    BY <1>2, WithHeadIs
  <2>2. IsText(WithHead(h, w))
    BY <2>1, TextOf
  <2> QED
    BY <1>1, <2>1, <2>2
<1>4. Exactly(a.text, allowed, accepted) = Parsed(w)
  <2>1. h \in QueryHeads /\ h \in allowed /\ Len(accepted) = Len(w)
    BY <1>a
  <2>2. \A i \in DOMAIN accepted : w[i] \in accepted[i]
    BY <1>a
  <2>3. Exactly(WithHead(h, w), allowed, accepted) = Parsed(w)
    BY <1>2, <2>1, <2>2, ExactlyTakes
  <2> QED
    BY <1>3, <2>3
<1> QED
  BY <1>1, <1>3, <1>4 DEF Understood, TopicOfText

LEMMA ShortTexts ==
  ASSUME NEW x, NEW y, NEW z
  PROVE  IsText(<<x>>) /\ IsText(<<x, y>>) /\ IsText(<<x, y, z>>)
<1>1. <<x>> \in Seq({x})
  OBVIOUS
<1>2. <<x, y>> \in Seq({x, y})
  OBVIOUS
<1>3. <<x, y, z>> \in Seq({x, y, z})
  OBVIOUS
<1> QED
  BY <1>1, <1>2, <1>3, TextOf

(* Answers with one word. *)
LEMMA WordUnderstood ==
  ASSUME NEW p, NEW o, NEW bits, NEW heads, NEW wordss, NEW a \in Labelled(heads, wordss),
         NEW allowed, NEW A,
         heads \subseteq allowed, heads \subseteq QueryHeads \ {"?"},
         \A h \in heads : TopicOfHead(p, h) = Topic(o),
         \A w \in wordss : \E x \in A : w = <<x>>
  PROVE  Understood(p, o, a, bits, Exactly(a.text, allowed, <<A>>))
<1>1. ASSUME NEW w \in wordss
      PROVE  IsText(w) /\ Len(w) = 1 /\ w[1] \in A
  <2>1. PICK x \in A : w = <<x>>
    OBVIOUS
  <2>2. IsText(<<x>>)
    BY ShortTexts
  <2> QED
    BY <2>1, <2>2
<1> DEFINE accepted == <<A>>
<1>2. DOMAIN accepted = 1 .. Len(accepted) /\ Len(accepted) = 1 /\ accepted[1] = A
  OBVIOUS
<1> HIDE DEF accepted
<1>3. Acceptable(wordss, accepted)
  BY <1>1, <1>2 DEF Acceptable
<1>4. Understood(p, o, a, bits, Exactly(a.text, allowed, accepted))
  BY <1>2, <1>3, LabelledUnderstood
<1> QED
  BY <1>4 DEF accepted

(* The readings of the products with several outputs. *)
LEMMA ReadingUnderstood ==
  ASSUME NEW p \in {"EC", "DO", "HUM"}, NEW o \in {"read", "read_with_temp_comp"},
         NEW bits, IsMask(bits), bits # <<>>, NEW inScale
  PROVE  LET a == Reading(p, bits, inScale) IN Understood(p, o, a, bits, Multi(a.text, bits))
<1> DEFINE a == Reading(p, bits, inScale)
           w == OfEnabled(ValueOf, bits)
<1>1. DOMAIN bits \subseteq 1 .. 4 /\ Len(bits) \in Nat /\ DOMAIN bits = 1 .. Len(bits)
  BY MaskLength
<1>2. \A i \in DOMAIN bits : ValueOf[i] \in Decimals
  BY <1>1 DEF ValueOf, EZO_SCHEMA_MAX_FIELDS, Decimals
<1>3. /\ w \in Seq(Decimals) /\ Len(w) = CountEnabled(bits) /\ CountEnabled(bits) \in 0 .. 4
      /\ DOMAIN w = 1 .. CountEnabled(bits)
      /\ \A i \in DOMAIN bits : bits[i] = "on" =>
           /\ Cardinality(EnabledUpTo(bits, i)) \in 1 .. CountEnabled(bits)
           /\ w[Cardinality(EnabledUpTo(bits, i))] = ValueOf[i]
  BY <1>2, OfEnabledWords, OfEnabledLists DEF Lists
<1>t. Topic(o) = "bare"
  BY DEF Topic, Headless
<1>4. CASE "on" \in ToSet(bits)
  <2>1. PICK i \in DOMAIN bits : bits[i] = "on"
    BY <1>4 DEF ToSet
  <2>2. CountEnabled(bits) # 0 /\ w # <<>>
    BY <1>3, <2>1
  <2>3. /\ a.text = w
        /\ a.means = [j \in DOMAIN bits |-> IF bits[j] = "on" THEN ValueOf[j] ELSE "absent"]
    BY <1>4 DEF Reading, Answer
  <2>4. AllIn(w, Decimals) /\ w[1] \in Decimals
    BY <1>3, <2>2 DEF AllIn
  <2>5. Multi(w, bits)
          = Parsed([j \in DOMAIN bits |->
                      IF bits[j] = "on" THEN w[Cardinality(EnabledUpTo(bits, j))] ELSE "absent"])
    <3>1. ParseCsv(w, EZO_SCHEMA_MAX_FIELDS).result = "OK"
      BY <1>3, <2>2 DEF ParseCsv, Parsed, EZO_SCHEMA_MAX_FIELDS
    <3> HIDE DEF w
    <3> QED
      BY <1>3, <2>2, <2>4, <3>1 DEF Multi
  <2>6. [j \in DOMAIN bits |->
           IF bits[j] = "on" THEN w[Cardinality(EnabledUpTo(bits, j))] ELSE "absent"] = a.means
    <3> HIDE DEF w
    <3> QED
      BY <1>3, <2>3
  <2>7. IsText(w)
    BY <1>3, TextOf
  <2>8. TopicOfText(p, w) = "bare"
    BY <2>2, <2>4, BareNumber
  <2> HIDE DEF a, w
  <2>9. Understood(p, o, a, bits, Multi(a.text, bits))
    BY <1>t, <2>3, <2>5, <2>6, <2>7, <2>8 DEF Understood
  <2> QED
    BY <2>9 DEF a
<1>5. CASE "on" \notin ToSet(bits)
  <2>1. \A i \in DOMAIN bits : bits[i] # "on"
    BY <1>5 DEF ToSet
  <2>2. CountEnabled(bits) = 0
    BY <1>3, <2>1, EnabledCounts
  <2>3. a.text = <<"no output">>
    BY <1>5 DEF Reading, Answer
  <2>4. IsText(a.text) /\ TopicOfText(p, a.text) = "bare"
    <3>1. IsText(<<"no output">>)
      BY ShortTexts
    <3>2. TopicOfText(p, <<"no output">>) = "bare"
      BY DEF TopicOfText, TopicOfHead
    <3> QED
      BY <2>3, <3>1, <3>2
  <2>5. Multi(a.text, bits).result = "INVALID"
    BY <2>2 DEF Multi, Refused
  <2> HIDE DEF a
  <2>6. Understood(p, o, a, bits, Multi(a.text, bits))
    BY <1>5, <1>t, <2>4, <2>5 DEF Understood, Excused, Errors
  <2> QED
    BY <2>6 DEF a
<1> QED
  BY <1>4, <1>5

(* The two forms of the answer to O,?. *)
LEMMA OutputForms ==
  ASSUME NEW p, NEW W, NEW w \in Seq(W), NEW text, text \in {<<"?", "O">> \o w, <<"?O">> \o w}
  PROVE  /\ OutputFields(text) = Parsed(w)
         /\ IsText(text) /\ TopicOfText(p, text) = "output_query"
         /\ text # <<>> /\ text[1] \in QueryHeads
         /\ Len(text) \in Nat /\ (text[1] = "?O" => Len(text) = Len(w) + 1)
<1>1. CASE text = <<"?O">> \o w
  <2>1. text = WithHead("?O", w)
    BY <1>1 DEF WithHead
  <2>2. /\ text \in Seq(W \cup {"?O"}) /\ text # <<>> /\ text[1] = "?O"
        /\ Len(text) = Len(w) + 1 /\ Tail(text) = w /\ Len(w) \in Nat
    BY <2>1, WithHeadIs, LenProperties
  <2>3. IsText(text)
    BY <2>2, TextOf
  <2>4. OutputFields(text) = Parsed(w)
    BY <2>2 DEF OutputFields
  <2>5. TopicOfText(p, text) = "output_query" /\ text[1] \in QueryHeads
    BY <2>2 DEF TopicOfText, TopicOfHead, QueryHeads
  <2> QED
    BY <2>2, <2>3, <2>4, <2>5
<1>2. CASE text = <<"?", "O">> \o w
  <2> DEFINE S == W \cup {"?", "O"}
  <2>1. <<"?", "O">> \in Seq(S) /\ w \in Seq(S) /\ Len(w) \in Nat
    BY LenProperties
  <2>2. /\ text \in Seq(S) /\ Len(text) = Len(w) + 2
        /\ \A i \in 1 .. Len(w) + 2 : text[i] = IF i <= 2 THEN <<"?", "O">>[i] ELSE w[i - 2]
    <3>1. Len(<<"?", "O">>) = 2
      OBVIOUS
    <3> QED
      BY <1>2, <2>1, <3>1, ConcatProperties
  <2> HIDE DEF S
  <2>3. text[1] = "?" /\ text[2] = "O" /\ text # <<>>
    BY <2>1, <2>2
  <2>4. SubSeq(text, 3, Len(text)) = w
    <3>1. /\ SubSeq(text, 3, Len(text)) \in Seq(S)
          /\ Len(SubSeq(text, 3, Len(text))) = Len(w)
      BY <2>1, <2>2
    <3>2. \A i \in 1 .. Len(w) : SubSeq(text, 3, Len(text))[i] = w[i]
      BY <2>1, <2>2
    <3> QED
      BY <2>1, <3>1, <3>2
  <2>5. IsText(text)
    BY <2>2, TextOf
  <2>6. OutputFields(text) = Parsed(w)
    <3>1. text[1] # "?O" /\ Len(text) > 1
      BY <2>1, <2>2, <2>3
    <3> QED
      BY <2>3, <2>4, <3>1 DEF OutputFields
  <2>7. TopicOfText(p, text) = "output_query" /\ text[1] \in QueryHeads
    BY <2>3 DEF TopicOfText, QueryHeads
  <2> QED
    BY <2>1, <2>2, <2>3, <2>5, <2>6, <2>7
<1> QED
  BY <1>1, <1>2

Distinct(names) == \A i, j \in DOMAIN names : names[i] = names[j] => i = j

LEMMA OutputAnswerIs ==
  ASSUME NEW p, NEW bits, NEW a \in OutputAnswers(p, bits)
  PROVE  /\ a.means = bits
         /\ a.text \in {<<"?", "O">> \o OfEnabled(Outputs[p], bits), <<"?O">> \o OfEnabled(Outputs[p], bits)}
BY DEF OutputAnswers, Answer

(* The enabled outputs are the ones that are named. *)
LEMMA NamedAreEnabled ==
  ASSUME NEW names, Distinct(names), NEW bits, IsMask(bits), DOMAIN bits = DOMAIN names
  PROVE  \A i \in DOMAIN names :
           names[i] \in ToSet(OfEnabled(names, bits)) <=> bits[i] = "on"
<1> DEFINE w == OfEnabled(names, bits)
<1>1. /\ DOMAIN w = 1 .. CountEnabled(bits)
      /\ \A i \in DOMAIN bits : bits[i] = "on" =>
           /\ Cardinality(EnabledUpTo(bits, i)) \in 1 .. CountEnabled(bits)
           /\ w[Cardinality(EnabledUpTo(bits, i))] = names[i]
      /\ \A n \in 1 .. CountEnabled(bits) :
           \E i \in DOMAIN bits : bits[i] = "on" /\ w[n] = names[i]
  <2>1. Lists(w, names, bits)
    BY OfEnabledLists
  <2> QED
    BY <2>1 DEF Lists
<1> HIDE DEF w
<1>2. ToSet(w) = {w[n] : n \in DOMAIN w}
  BY DEF ToSet
<1> SUFFICES ASSUME NEW i \in DOMAIN names
             PROVE  names[i] \in ToSet(w) <=> bits[i] = "on"
  BY DEF w
<1>3. bits[i] = "on" => names[i] \in ToSet(w)
  BY <1>1, <1>2
<1>4. names[i] \in ToSet(w) => bits[i] = "on"
  BY <1>1, <1>2 DEF Distinct
<1> QED
  BY <1>3, <1>4

LEMMA OutputConfigUnderstood ==
  ASSUME NEW p \in {"EC", "HUM"}, NEW bits \in [DOMAIN Outputs[p] -> {"on", "off"}],
         IsMask(bits), Distinct(Outputs[p]), NEW a \in OutputAnswers(p, bits)
  PROVE  Understood(p, "output_query", a, bits, OutputConfig(a.text, Outputs[p]))
<1> DEFINE names == Outputs[p]
           w == OfEnabled(names, bits)
           W == {names[i] : i \in DOMAIN bits}
           out == OutputConfig(a.text, names)
<1>0. DOMAIN bits = DOMAIN names /\ W = ToSet(names) /\ \A i \in DOMAIN bits : names[i] \in W
  BY DEF ToSet
<1> HIDE DEF W
<1>1. w \in Seq(W) /\ DOMAIN bits = DOMAIN names /\ W = ToSet(names)
      /\ Len(w) \in 0 .. 4 /\ DOMAIN w = 1 .. Len(w)
  <2>1. Lists(w, names, bits)
    BY OfEnabledLists
  <2>2. w \in Seq(W)
    BY <1>0, OfEnabledWords
  <2> HIDE DEF w
  <2> QED
    BY <1>0, <2>1, <2>2 DEF Lists
<1>2. \A i \in DOMAIN names : names[i] \in ToSet(w) <=> bits[i] = "on"
  BY NamedAreEnabled
<1>3. a.means = bits /\ a.text \in {<<"?", "O">> \o w, <<"?O">> \o w}
  BY OutputAnswerIs
<1> HIDE DEF w
<1>4. /\ OutputFields(a.text) = Parsed(w)
      /\ IsText(a.text) /\ TopicOfText(p, a.text) = "output_query"
      /\ a.text # <<>> /\ a.text[1] \in QueryHeads
      /\ Len(a.text) \in Nat
  BY <1>1, <1>3, OutputForms
<1>5. CASE Len(a.text) - 1 > EZO_SCHEMA_MAX_FIELDS
  <2>1. out.result = "TOO_SMALL"
    BY <1>4, <1>5 DEF OutputConfig, ParseQuery, Refused
  <2> QED
    BY <1>4, <1>5, <2>1 DEF Understood, Excused, Errors, Topic, Headless
<1>6. CASE ~(Len(a.text) - 1 > EZO_SCHEMA_MAX_FIELDS)
  <2>1. ParseQuery(a.text, EZO_SCHEMA_MAX_FIELDS).result = "OK"
    BY <1>4, <1>6 DEF ParseQuery, Parsed
  <2>2. AllIn(w, ToSet(names))
    BY <1>1 DEF AllIn
  <2>3. out = Parsed([i \in DOMAIN names |-> IF names[i] \in ToSet(w) THEN "on" ELSE "off"])
    <3> HIDE DEF names
    <3> QED
      BY <1>4, <2>1, <2>2 DEF OutputConfig, Parsed
  <2>4. [i \in DOMAIN names |-> IF names[i] \in ToSet(w) THEN "on" ELSE "off"] = bits
    <3> HIDE DEF names
    <3>1. bits \in [DOMAIN names -> {"on", "off"}]
      BY DEF names
    <3> QED
      BY <1>2, <3>1
  <2>5. out = Parsed(a.means)
    BY <1>3, <2>3, <2>4
  <2> QED
    BY <1>4, <2>5 DEF Understood, Topic, Headless
<1> QED
  BY <1>5, <1>6

LEMMA DoOutputConfigUnderstood ==
  ASSUME NEW bits \in [1 .. 2 -> {"on", "off"}], IsMask(bits), NEW a \in OutputAnswers("DO", bits)
  PROVE  Understood("DO", "output_query", a, bits, DoOutputConfig(a.text))
<1> DEFINE w == OfEnabled(DoOutputs, bits)
           out == DoOutputConfig(a.text)
<1>1. DOMAIN DoOutputs = 1 .. 2 /\ DoOutputs[1] = "mg" /\ DoOutputs[2] = "%" /\ Outputs["DO"] = DoOutputs
  BY DEF DoOutputs, Outputs
<1> DEFINE W == {"mg", "%"}
<1>0. \A i \in DOMAIN bits : DoOutputs[i] \in W
  BY <1>1
<1> HIDE DEF W
<1>w. w \in Seq(W) /\ Len(w) \in 0 .. 4 /\ DOMAIN w = 1 .. Len(w)
  BY <1>0, OfEnabledWords, OfEnabledLists DEF Lists
<1>2. w \in Seq({"mg", "%"}) /\ Len(w) \in 0 .. 4 /\ DOMAIN w = 1 .. Len(w)
  BY <1>w DEF W
<1>3. \A i \in DOMAIN DoOutputs : DoOutputs[i] \in ToSet(w) <=> bits[i] = "on"
  BY <1>1, NamedAreEnabled DEF Distinct
<1>4. a.means = bits /\ a.text \in {<<"?", "O">> \o w, <<"?O">> \o w}
  <2>1. a.means = bits /\ a.text \in {<<"?", "O">> \o OfEnabled(Outputs["DO"], bits),
                                      <<"?O">> \o OfEnabled(Outputs["DO"], bits)}
    BY OutputAnswerIs
  <2> QED
    BY <1>1, <2>1
<1> HIDE DEF w
<1>5. /\ OutputFields(a.text) = Parsed(w)
      /\ IsText(a.text) /\ TopicOfText("DO", a.text) = "output_query"
      /\ a.text # <<>> /\ a.text[1] \in QueryHeads
      /\ Len(a.text) \in Nat
  BY <1>2, <1>4, OutputForms
<1>6. CASE Len(a.text) - 1 > EZO_SCHEMA_MAX_FIELDS
  <2>1. out.result = "TOO_SMALL"
    BY <1>5, <1>6 DEF DoOutputConfig, ParseQuery, Refused
  <2> QED
    BY <1>5, <1>6, <2>1 DEF Understood, Excused, Errors, Topic, Headless
<1>7. CASE ~(Len(a.text) - 1 > EZO_SCHEMA_MAX_FIELDS)
  <2>1. ParseQuery(a.text, EZO_SCHEMA_MAX_FIELDS).result = "OK"
    BY <1>5, <1>7 DEF ParseQuery, Parsed
  <2>2. \A i \in DOMAIN w : w[i] \in {"mg", "%"}
    BY <1>2
  <2>3. AllIn(w, {"mg", "MG", "%", "0", "1"})
    BY <2>2 DEF AllIn
  <2>4. out = Parsed([j \in DOMAIN DoOutputs |->
                        IF \E i \in DOMAIN w : /\ (IF w[i] = "MG" THEN "mg" ELSE w[i]) = DoOutputs[j]
                                               /\ ~(i < Len(w) /\ w[i + 1] = "0")
                        THEN "on" ELSE "off"])
    BY <1>5, <2>1, <2>3 DEF DoOutputConfig, Parsed
  <2>5. \A j \in DOMAIN DoOutputs :
          (\E i \in DOMAIN w : /\ (IF w[i] = "MG" THEN "mg" ELSE w[i]) = DoOutputs[j]
                               /\ ~(i < Len(w) /\ w[i + 1] = "0"))
            <=> bits[j] = "on"
    <3> TAKE j \in DOMAIN DoOutputs
    <3>1. \A i \in DOMAIN w : w[i] # "MG" /\ ~(i < Len(w) /\ w[i + 1] = "0")
      BY <1>2, <2>2
    <3>2. DoOutputs[j] \in ToSet(w) <=> \E i \in DOMAIN w : w[i] = DoOutputs[j]
      BY DEF ToSet
    <3> QED
      BY <1>3, <3>1, <3>2
  <2>6. [j \in DOMAIN DoOutputs |->
           IF \E i \in DOMAIN w : /\ (IF w[i] = "MG" THEN "mg" ELSE w[i]) = DoOutputs[j]
                                  /\ ~(i < Len(w) /\ w[i + 1] = "0")
           THEN "on" ELSE "off"] = bits
    BY <1>1, <2>5
  <2>7. out = Parsed(a.means)
    BY <1>4, <2>4, <2>6
  <2> QED
    BY <1>5, <2>7 DEF Understood, Topic, Headless
<1> QED
  BY <1>6, <1>7

-----------------------------------------------------------------------------
(***************************************************************************)
(* The queries of the tables, and the command each one sends.              *)
(***************************************************************************)
PhAsked ==
  [read                 |-> <<"r">>,
   read_with_temp_comp  |-> <<"rt", "n1">>,
   temperature_query    |-> <<"T", "?">>,
   calibration_query    |-> <<"Cal", "?">>,
   slope_query          |-> <<"Slope", "?">>,
   extended_range_query |-> <<"pHext", "?">>]

OrpAsked ==
  [read                 |-> <<"r">>,
   calibration_query    |-> <<"Cal", "?">>,
   extended_scale_query |-> <<"ORPext", "?">>]

EcAsked ==
  [read                |-> <<"r">>,
   read_with_temp_comp |-> <<"rt", "n1">>,
   output_query        |-> <<"O", "?">>,
   temperature_query   |-> <<"T", "?">>,
   probe_k_query       |-> <<"K", "?">>,
   tds_factor_query    |-> <<"TDS", "?">>,
   calibration_query   |-> <<"Cal", "?">>]

DoAsked ==
  [read                |-> <<"r">>,
   read_with_temp_comp |-> <<"rt", "n1">>,
   output_query        |-> <<"O", "?">>,
   temperature_query   |-> <<"T", "?">>,
   salinity_query      |-> <<"S", "?">>,
   pressure_query      |-> <<"P", "?">>,
   calibration_query   |-> <<"Cal", "?">>]

RtdAsked ==
  [read              |-> <<"r">>,
   scale_query       |-> <<"S", "?">>,
   calibration_query |-> <<"Cal", "?">>,
   logger_query      |-> <<"D", "?">>,
   memory_query      |-> <<"M", "?">>,
   memory_next       |-> <<"M">>,
   memory_all        |-> <<"M", "all">>]

HumAsked ==
  [read                          |-> <<"r">>,
   output_query                  |-> <<"O", "?">>,
   temperature_calibration_query |-> <<"Tcal", "?">>]

ControlAsked ==
  [info_query          |-> <<"i">>,
   name_query          |-> <<"Name", "?">>,
   status_query        |-> <<"Status">>,
   led_query           |-> <<"L", "?">>,
   protocol_lock_query |-> <<"Plock", "?">>,
   baud_query          |-> <<"Baud", "?">>,
   response_code_query |-> <<"*OK", "?">>]

LEMMA PhQueries ==
  ASSUME NEW o \in DOMAIN PhCommands, PhCommands[o].reply = "DATA", NEW cmd \in PhCommands[o].cmds
  PROVE  o \in DOMAIN PhAsked /\ cmd = PhAsked[o]
<1> USE DEF PhCommands, PhAsked, Ask, Tell, Query, Command
<1>1. CASE o = "read"
  BY <1>1 DEF ReadOp
<1>2. CASE o = "read_with_temp_comp"
  BY <1>2 DEF ReadWithTempCompOp
<1>3. CASE o = "temperature_query"
  BY <1>3
<1>4. CASE o = "temperature_set"
  BY <1>4
<1>5. CASE o = "calibration_query"
  BY <1>5
<1>6. CASE o = "clear_calibration"
  BY <1>6
<1>7. CASE o = "slope_query"
  BY <1>7
<1>8. CASE o = "calibration"
  BY <1>8 DEF CalibrateWith
<1>9. CASE o = "extended_range_query"
  BY <1>9
<1>10. CASE o = "extended_range_set"
  BY <1>10
<1> QED
  BY <1>1, <1>2, <1>3, <1>4, <1>5, <1>6, <1>7, <1>8, <1>9, <1>10

LEMMA OrpQueries ==
  ASSUME NEW o \in DOMAIN OrpCommands, OrpCommands[o].reply = "DATA", NEW cmd \in OrpCommands[o].cmds
  PROVE  o \in DOMAIN OrpAsked /\ cmd = OrpAsked[o]
<1> USE DEF OrpCommands, OrpAsked, Ask, Tell, Query, Command
<1>1. CASE o = "read"
  BY <1>1 DEF ReadOp
<1>2. CASE o = "calibration_query"
  BY <1>2
<1>3. CASE o = "clear_calibration"
  BY <1>3
<1>4. CASE o = "calibration"
  BY <1>4 DEF CalibrateWith
<1>5. CASE o = "extended_scale_query"
  BY <1>5
<1>6. CASE o = "extended_scale_set"
  BY <1>6
<1> QED
  BY <1>1, <1>2, <1>3, <1>4, <1>5, <1>6

LEMMA EcQueries ==
  ASSUME NEW o \in DOMAIN EcCommands, EcCommands[o].reply = "DATA", NEW cmd \in EcCommands[o].cmds
  PROVE  o \in DOMAIN EcAsked /\ cmd = EcAsked[o]
<1> USE DEF EcCommands, EcAsked, Ask, Tell, Query, Command
<1>1. CASE o = "read"
  BY <1>1 DEF ReadOp
<1>2. CASE o = "read_with_temp_comp"
  BY <1>2 DEF ReadWithTempCompOp
<1>3. CASE o = "output_query"
  BY <1>3
<1>4. CASE o = "output_set"
  BY <1>4
<1>5. CASE o = "temperature_query"
  BY <1>5
<1>6. CASE o = "temperature_set"
  BY <1>6
<1>7. CASE o = "probe_k_query"
  BY <1>7
<1>8. CASE o = "probe_k_set"
  BY <1>8
<1>9. CASE o = "tds_factor_query"
  BY <1>9
<1>10. CASE o = "tds_factor_set"
  BY <1>10
<1>11. CASE o = "calibration_query"
  BY <1>11
<1>12. CASE o = "clear_calibration"
  BY <1>12
<1>13. CASE o = "calibration"
  BY <1>13 DEF CalibrateWith
<1> QED
  BY <1>1, <1>2, <1>3, <1>4, <1>5, <1>6, <1>7, <1>8, <1>9, <1>10, <1>11, <1>12, <1>13

LEMMA DoQueries ==
  ASSUME NEW o \in DOMAIN DoCommands, DoCommands[o].reply = "DATA", NEW cmd \in DoCommands[o].cmds
  PROVE  o \in DOMAIN DoAsked /\ cmd = DoAsked[o]
<1> USE DEF DoCommands, DoAsked, Ask, Tell, Query, Command
<1>1. CASE o = "read"
  BY <1>1 DEF ReadOp
<1>2. CASE o = "read_with_temp_comp"
  BY <1>2 DEF ReadWithTempCompOp
<1>3. CASE o = "output_query"
  BY <1>3
<1>4. CASE o = "output_set"
  BY <1>4
<1>5. CASE o = "temperature_query"
  BY <1>5
<1>6. CASE o = "temperature_set"
  BY <1>6
<1>7. CASE o = "salinity_query"
  BY <1>7
<1>8. CASE o = "salinity_set"
  BY <1>8
<1>9. CASE o = "pressure_query"
  BY <1>9
<1>10. CASE o = "pressure_set"
  BY <1>10
<1>11. CASE o = "calibration_query"
  BY <1>11
<1>12. CASE o = "clear_calibration"
  BY <1>12
<1>13. CASE o = "calibration"
  BY <1>13 DEF CalibrateWith
<1> QED
  BY <1>1, <1>2, <1>3, <1>4, <1>5, <1>6, <1>7, <1>8, <1>9, <1>10, <1>11, <1>12, <1>13

LEMMA RtdQueries ==
  ASSUME NEW o \in DOMAIN RtdCommands, RtdCommands[o].reply = "DATA", NEW cmd \in RtdCommands[o].cmds
  PROVE  o \in DOMAIN RtdAsked /\ cmd = RtdAsked[o]
<1> USE DEF RtdCommands, RtdAsked, Ask, Tell, Query, Command
<1>1. CASE o = "read"
  BY <1>1 DEF ReadOp
<1>2. CASE o = "scale_query"
  BY <1>2
<1>3. CASE o = "scale_set"
  BY <1>3
<1>4. CASE o = "calibration_query"
  BY <1>4
<1>5. CASE o = "clear_calibration"
  BY <1>5
<1>6. CASE o = "calibration"
  BY <1>6 DEF CalibrateWith
<1>7. CASE o = "logger_query"
  BY <1>7
<1>8. CASE o = "logger_set"
  BY <1>8
<1>9. CASE o = "memory_query"
  BY <1>9
<1>10. CASE o = "memory_next"
  BY <1>10
<1>11. CASE o = "memory_all"
  BY <1>11
<1>12. CASE o = "memory_clear"
  BY <1>12
<1> QED
  BY <1>1, <1>2, <1>3, <1>4, <1>5, <1>6, <1>7, <1>8, <1>9, <1>10, <1>11, <1>12

LEMMA HumQueries ==
  ASSUME NEW o \in DOMAIN HumCommands, HumCommands[o].reply = "DATA", NEW cmd \in HumCommands[o].cmds
  PROVE  o \in DOMAIN HumAsked /\ cmd = HumAsked[o]
<1> USE DEF HumCommands, HumAsked, Ask, Tell, Query, Command
<1>1. CASE o = "read"
  BY <1>1 DEF ReadOp
<1>2. CASE o = "output_query"
  BY <1>2
<1>3. CASE o = "output_set"
  BY <1>3
<1>4. CASE o = "temperature_calibration_query"
  BY <1>4
<1>5. CASE o = "clear_temperature_calibration"
  BY <1>5
<1>6. CASE o = "temperature_calibration"
  BY <1>6 DEF CalibrateWith
<1> QED
  BY <1>1, <1>2, <1>3, <1>4, <1>5, <1>6

LEMMA ControlQueries ==
  ASSUME NEW o \in DOMAIN ControlCommands, ControlCommands[o].reply = "DATA",
         NEW cmd \in ControlCommands[o].cmds
  PROVE  o \in DOMAIN ControlAsked /\ cmd = ControlAsked[o]
<1> USE DEF ControlCommands, ControlAsked, Ask, Tell, Query, Command
<1>1. CASE o = "info_query"
  BY <1>1
<1>2. CASE o = "name_query"
  BY <1>2
<1>3. CASE o = "name_set"
  BY <1>3
<1>4. CASE o = "status_query"
  BY <1>4
<1>5. CASE o = "led_query"
  BY <1>5
<1>6. CASE o = "led_set"
  BY <1>6
<1>7. CASE o = "find"
  BY <1>7
<1>8. CASE o = "protocol_lock_query"
  BY <1>8
<1>9. CASE o = "protocol_lock_set"
  BY <1>9
<1> QED
  BY <1>1, <1>2, <1>3, <1>4, <1>5, <1>6, <1>7, <1>8, <1>9

(***************************************************************************)
(* The answers of one product only.                                        *)
(***************************************************************************)
LEMMA AppendIs ==
  ASSUME NEW x, NEW y, NEW s
  PROVE  Append(<<x>>, s) = <<x, s>> /\ Append(<<x, y>>, s) = <<x, y, s>>
<1> DEFINE S == {x, y, s}
<1>1. <<x>> \in Seq(S) /\ <<x, s>> \in Seq(S) /\ <<x, y>> \in Seq(S) /\ <<x, y, s>> \in Seq(S) /\ s \in S
  OBVIOUS
<1>2. /\ Len(<<x>>) = 1 /\ Len(<<x, s>>) = 2 /\ Len(<<x, y>>) = 2 /\ Len(<<x, y, s>>) = 3
      /\ <<x>>[1] = x /\ <<x, y>>[1] = x /\ <<x, y>>[2] = y
  OBVIOUS
<1> HIDE DEF S
<1>3. /\ Append(<<x>>, s) \in Seq(S) /\ Len(Append(<<x>>, s)) = 2
      /\ Append(<<x>>, s)[1] = x /\ Append(<<x>>, s)[2] = s
  BY <1>1, <1>2, AppendProperties
<1>4. /\ Append(<<x, y>>, s) \in Seq(S) /\ Len(Append(<<x, y>>, s)) = 3
      /\ Append(<<x, y>>, s)[1] = x /\ Append(<<x, y>>, s)[2] = y /\ Append(<<x, y>>, s)[3] = s
  BY <1>1, <1>2, AppendProperties
<1>5. Append(<<x>>, s) = <<x, s>>
  <2>1. \A i \in 1 .. 2 : Append(<<x>>, s)[i] = <<x, s>>[i]
    BY <1>3
  <2> QED
    BY <1>1, <1>2, <1>3, <2>1, SeqEqual
<1>6. Append(<<x, y>>, s) = <<x, y, s>>
  <2>1. \A i \in 1 .. 3 : Append(<<x, y>>, s)[i] = <<x, y, s>>[i]
    BY <1>4
  <2> QED
    BY <1>1, <1>2, <1>4, <2>1, SeqEqual
<1> QED
  BY <1>5, <1>6

LEMMA OneNumberIs ==
  ASSUME NEW p, NEW a, a.text = <<"n1">>
  PROVE  IsText(a.text) /\ TopicOfText(p, a.text) = "bare" /\ Scalar(a.text) = Parsed(<<"n1">>)
<1>1. IsText(<<"n1">>)
  BY ShortTexts
<1>2. a.text # <<>> /\ a.text[1] \in Decimals /\ Len(a.text) = 1
  BY DEF Decimals
<1>3. TopicOfText(p, a.text) = "bare"
  BY <1>2, BareNumber
<1> QED
  BY <1>1, <1>2, <1>3 DEF Scalar

LEMMA NumberUnderstood ==
  ASSUME NEW p, NEW o, Topic(o) = "bare", NEW bits, NEW a, a.text = <<"n1">>, a.means = <<"n1">>
  PROVE  Understood(p, o, a, bits, Scalar(a.text))
BY OneNumberIs DEF Understood

LEMMA ScaledUnderstood ==
  ASSUME NEW p, NEW o, Topic(o) = "bare", NEW bits, NEW s, NEW a,
         a.text = <<"n1">>, a.means = <<"n1", s>>
  PROVE  Understood(p, o, a, bits, InScale(Scalar(a.text), s))
<1>1. IsText(a.text) /\ TopicOfText(p, a.text) = "bare" /\ Scalar(a.text) = Parsed(<<"n1">>)
  BY OneNumberIs
<1>2. InScale(Parsed(<<"n1">>), s) = Parsed(Append(<<"n1">>, s))
  BY DEF InScale, Parsed
<1>3. Append(<<"n1">>, s) = <<"n1", s>>
  BY AppendIs
<1> QED
  BY <1>1, <1>2, <1>3 DEF Understood

LEMMA SlopeUnderstood ==
  ASSUME NEW m, NEW a \in Labelled({"?Slope", "?SLOPE"}, {<<"n1", "n2", "n3">>})
  PROVE  Understood("PH", "slope_query", a, m,
                    Exactly(a.text, {"?Slope", "?SLOPE"}, <<Decimals, Decimals, Decimals>>))
<1> DEFINE accepted == <<Decimals, Decimals, Decimals>>
           w == <<"n1", "n2", "n3">>
           heads == {"?Slope", "?SLOPE"}
<1>1. IsText(w) /\ Len(w) = 3
  BY ShortTexts
<1>2. \A i \in 1 .. Len(w) : w[i] \in accepted[i]
  BY DEF Decimals
<1>3. DOMAIN accepted = 1 .. Len(accepted) /\ Len(accepted) = 3
  OBVIOUS
<1>4. heads \subseteq QueryHeads \ {"?"} /\ \A h \in heads : TopicOfHead("PH", h) = Topic("slope_query")
  BY DEF QueryHeads, TopicOfHead, Topic, Headless
<1>5. a \in Labelled(heads, {w})
  OBVIOUS
<1> HIDE DEF accepted, w, heads
<1>w. Acceptable({w}, accepted)
  BY <1>1, <1>2, <1>3 DEF Acceptable
<1>6. Understood("PH", "slope_query", a, m, Exactly(a.text, heads, accepted))
  BY <1>w, <1>3, <1>4, <1>5, LabelledUnderstood
<1> QED
  BY <1>6 DEF accepted, heads

(* A response with an accepted head and few enough fields yields them.     *)
Prefixed(text, h, w, cap) ==
  /\ ParseQuery(text, cap) = Parsed(text)
  /\ ParsePrefixed(text, {h}, cap) = Parsed(w)
  /\ IsText(text) /\ text # <<>> /\ text[1] = h /\ Len(text) = Len(w) + 1 /\ Tail(text) = w

LEMMA PrefixedTakes ==
  ASSUME NEW h \in QueryHeads, NEW w, IsText(w), NEW cap \in Nat, Len(w) <= cap
  PROVE  Prefixed(WithHead(h, w), h, w, cap)
<1> DEFINE W == {w[i] : i \in 1 .. Len(w)}
           text == WithHead(h, w)
<1>0. w \in Seq(W)
  BY DEF IsText
<1> HIDE DEF W
<1>1. /\ text \in Seq(W \cup {h}) /\ text # <<>> /\ text[1] = h
      /\ Len(text) = Len(w) + 1 /\ Tail(text) = w /\ Len(w) \in Nat
  BY <1>0, WithHeadIs, LenProperties
<1> HIDE DEF text
<1>2. ParseQuery(text, cap) = Parsed(text)
  BY <1>1 DEF ParseQuery
<1>3. ParsePrefixed(text, {h}, cap) = Parsed(w)
  BY <1>1, <1>2 DEF ParsePrefixed, Parsed
<1>4. IsText(text)
  BY <1>1, TextOf
<1>5. Prefixed(text, h, w, cap)
  BY <1>1, <1>2, <1>3, <1>4 DEF Prefixed
<1> QED
  BY <1>5 DEF text

LEMMA DoTemperatureUnderstood ==
  ASSUME NEW m, NEW a \in Labelled({"?T"}, {<<"n1">>})
  PROVE  Understood("DO", "temperature_query", a, m, DoTemperature(a.text))
<1> DEFINE w == <<"n1">>
<1>1. a.text = WithHead("?T", w) /\ a.means = w
  BY LabelledIs
<1>t. IsText(w)
  BY ShortTexts
<1>2. w # <<>> /\ w[1] \in Decimals /\ Len(w) = 1 /\ <<w[1]>> = w
  BY DEF Decimals
<1> HIDE DEF w
<1>h. "?T" \in QueryHeads
  BY DEF QueryHeads
<1>p. Prefixed(a.text, "?T", w, 2)
  <2>1. Len(w) <= 2
    BY <1>2
  <2>2. Prefixed(WithHead("?T", w), "?T", w, 2)
    BY <1>h, <1>t, <2>1, PrefixedTakes
  <2> QED
    BY <1>1, <2>2
<1>3. /\ ParsePrefixed(a.text, {"?T"}, 2) = Parsed(w)
      /\ IsText(a.text) /\ a.text # <<>> /\ a.text[1] = "?T"
  BY <1>p DEF Prefixed
<1>4. DoTemperature(a.text) = Parsed(w)
  BY <1>2, <1>3 DEF DoTemperature, Parsed
<1> QED
  BY <1>1, <1>3, <1>4 DEF Understood, TopicOfText, TopicOfHead, Topic, Headless

LEMMA SalinityUnderstood ==
  ASSUME NEW m, NEW a \in Labelled({"?S"}, {<<"n1", "uS">>, <<"n1", "ppt">>})
  PROVE  Understood("DO", "salinity_query", a, m, DoSalinity(a.text))
<1>1. PICK w \in {<<"n1", "uS">>, <<"n1", "ppt">>} : a.text = WithHead("?S", w) /\ a.means = w
  BY LabelledIs
<1>t. IsText(w)
  <2>1. IsText(<<"n1", "uS">>) /\ IsText(<<"n1", "ppt">>)
    BY ShortTexts
  <2> QED
    BY <2>1
<1>2. Len(w) = 2 /\ w # <<>> /\ w[1] \in Decimals
      /\ w[2] \in {"uS", "ppt"}
  BY DEF Decimals
<1>h. "?S" \in QueryHeads
  BY DEF QueryHeads
<1>p. Prefixed(a.text, "?S", w, 2)
  <2>1. Len(w) <= 2
    BY <1>2
  <2>2. Prefixed(WithHead("?S", w), "?S", w, 2)
    BY <1>h, <1>t, <2>1, PrefixedTakes
  <2> QED
    BY <1>1, <2>2
<1>3. /\ ParsePrefixed(a.text, {"?S"}, 2) = Parsed(w)
      /\ IsText(a.text) /\ a.text # <<>> /\ a.text[1] = "?S"
  BY <1>p DEF Prefixed
<1>4. DoSalinity(a.text) = Parsed(w)
  BY <1>2, <1>3 DEF DoSalinity, Parsed
<1> QED
  BY <1>1, <1>3, <1>4 DEF Understood, TopicOfText, TopicOfHead, Topic, Headless

LEMMA PressureUnderstood ==
  ASSUME NEW m, NEW a \in Labelled({"?P"}, {<<"n4">>}) \cup {Answer(<<"?", "P", "n4">>, <<"n4">>)}
  PROVE  Understood("DO", "pressure_query", a, m, DoPressure(a.text))
<1>n. "n4" \in Decimals
  BY DEF Decimals
<1>1. CASE a \in Labelled({"?P"}, {<<"n4">>})
  <2> DEFINE w == <<"n4">>
  <2>1. a.text = WithHead("?P", w) /\ a.means = w
    BY <1>1, LabelledIs
  <2>i. IsText(w)
    BY ShortTexts
  <2>2. Len(w) = 1 /\ w[1] = "n4"
    OBVIOUS
  <2>h. "?P" \in QueryHeads
    BY DEF QueryHeads
  <2>t. a.text[2] = "n4"
    BY <2>1 DEF WithHead
  <2> HIDE DEF w
  <2>p. Prefixed(a.text, "?P", w, 2)
    BY <2>h, <2>i, <2>1, <2>2, PrefixedTakes
  <2>3. /\ ParseQuery(a.text, 2) = Parsed(a.text)
        /\ IsText(a.text) /\ a.text # <<>> /\ a.text[1] = "?P" /\ Len(a.text) = 2
    BY <2>p, <2>2 DEF Prefixed
  <2>4. DoPressure(a.text) = Parsed(<<"n4">>)
    BY <1>n, <2>t, <2>3 DEF DoPressure, Parsed
  <2>5. DoPressure(a.text) = Parsed(a.means)
    BY <2>1, <2>4 DEF w
  <2> QED
    BY <2>3, <2>5 DEF Understood, TopicOfText, TopicOfHead, Topic, Headless
<1>2. CASE a = Answer(<<"?", "P", "n4">>, <<"n4">>)
  <2>1. a.text = <<"?", "P", "n4">> /\ a.means = <<"n4">>
    BY <1>2 DEF Answer
  <2>2. IsText(<<"?", "P", "n4">>)
    BY ShortTexts
  <2>3. ParseQuery(<<"?", "P", "n4">>, 2).result = "OK"
    BY DEF ParseQuery, Parsed, QueryHeads
  <2>4. DoPressure(<<"?", "P", "n4">>) = Parsed(<<"n4">>)
    BY <1>n, <2>3 DEF DoPressure
  <2>5. TopicOfText("DO", <<"?", "P", "n4">>) = "pressure_query"
    BY DEF TopicOfText
  <2> QED
    BY <2>1, <2>2, <2>4, <2>5 DEF Understood, Topic, Headless
<1> QED
  BY <1>1, <1>2

LEMMA MemoryNextUnderstood ==
  ASSUME NEW m, NEW s, NEW a \in {Answer(<<"1", "n1">>, <<"1", "n1", s>>)}
  PROVE  Understood("RTD", "memory_next", a, m, InScale(RtdMemoryEntry(a.text), s))
<1>1. a.text = <<"1", "n1">> /\ a.means = <<"1", "n1", s>>
  BY DEF Answer
<1>2. RtdMemoryEntry(<<"1", "n1">>) = Parsed(<<"1", "n1">>)
  BY DEF RtdMemoryEntry, ParseCsv, Parsed, Decimals, Uints
<1>3. InScale(Parsed(<<"1", "n1">>), s) = Parsed(Append(<<"1", "n1">>, s))
  BY DEF InScale, Parsed
<1>4. Append(<<"1", "n1">>, s) = <<"1", "n1", s>>
  BY AppendIs
<1>5. IsText(<<"1", "n1">>)
  BY ShortTexts
<1>6. TopicOfText("RTD", <<"1", "n1">>) = "bare"
  BY BareNumber DEF Decimals, Uints
<1> QED
  BY <1>1, <1>2, <1>3, <1>4, <1>5, <1>6 DEF Understood, Topic, Headless

LEMMA FunctionIsSeq ==
  ASSUME NEW S, NEW n \in Nat, NEW f \in [1 .. n -> S]
  PROVE  f \in Seq(S) /\ Len(f) = n
OBVIOUS

LEMMA MemoryAllUnderstood ==
  ASSUME NEW m, NEW s,
         NEW a \in {Answer(SubSeq(ValueOf, 1, n), SubSeq(ValueOf, 1, n) \o <<s>>) : n \in 1 .. 3}
  PROVE  Understood("RTD", "memory_all", a, m, InScale(RtdMemoryAll(a.text), s))
<1>1. PICK n \in 1 .. 3 : a = Answer(SubSeq(ValueOf, 1, n), SubSeq(ValueOf, 1, n) \o <<s>>)
  OBVIOUS
<1> DEFINE w == SubSeq(ValueOf, 1, n)
<1>2. a.text = w /\ a.means = w \o <<s>>
  BY <1>1 DEF Answer
<1>3. ValueOf \in Seq(Decimals) /\ Len(ValueOf) = 4
  <2>1. ValueOf \in [1 .. 4 -> Decimals]
    BY DEF ValueOf, EZO_SCHEMA_MAX_FIELDS, Decimals
  <2> HIDE DEF w
  <2> QED
    BY <2>1, FunctionIsSeq
<1>4. w \in Seq(Decimals) /\ Len(w) = n /\ Len(w) \in Nat
  <2>1. n \in Int /\ 1 <= n /\ n \in Nat /\ n - 1 + 1 = n
    OBVIOUS
  <2>2. \A i \in 1 .. n : ValueOf[i] \in Decimals
    <3> TAKE i \in 1 .. n
    <3>1. i \in 1 .. Len(ValueOf)
      BY <1>3
    <3> QED
      BY <1>3, <3>1, ElementOfSeq
  <2> QED
    BY <2>1, <2>2, SubSeqProperties
<1> HIDE DEF w
<1>5. w # <<>> /\ \A i \in DOMAIN w : w[i] \in Decimals
  BY <1>4
<1>6. IsText(w) /\ TopicOfText("RTD", w) = "bare"
  <2>1. w[1] \in Decimals
    BY <1>4, <1>5
  <2> QED
    BY <1>4, <1>5, <2>1, TextOf, BareNumber
<1>7. w \o <<s>> = Append(w, s)
  BY <1>4
<1>8. CASE Len(w) > MemoryCapacity
  <2>1. RtdMemoryAll(w) = Refused("TOO_SMALL")
    BY <1>5, <1>8 DEF RtdMemoryAll, ParseCsv
  <2>2. InScale(RtdMemoryAll(w), s).result = "TOO_SMALL"
    BY <2>1 DEF InScale, Refused
  <2> QED
    BY <1>2, <1>6, <1>8, <2>2 DEF Understood, Excused, Errors, Topic, Headless
<1>9. CASE ~(Len(w) > MemoryCapacity)
  <2>1. RtdMemoryAll(w) = Parsed(w)
    BY <1>5, <1>9 DEF RtdMemoryAll, ParseCsv
  <2>2. InScale(RtdMemoryAll(w), s) = Parsed(Append(w, s))
    BY <2>1 DEF InScale, Parsed
  <2> QED
    BY <1>2, <1>6, <1>7, <2>2 DEF Understood, Topic, Headless
<1> QED
  BY <1>8, <1>9

(***************************************************************************)
(* The forms that several products share.                                  *)
(***************************************************************************)
LEMMA HeadUnderstood ==
  ASSUME NEW p, NEW o, NEW m, NEW h \in QueryHeads \ {"?"}, TopicOfHead(p, h) = Topic(o),
         NEW A, NEW x \in A, NEW a \in Labelled({h}, {<<x>>})
  PROVE  Understood(p, o, a, m, Exactly(a.text, {h}, <<A>>))
<1> DEFINE heads == {h}
           wordss == {<<x>>}
<1>1. \A w \in wordss : \E y \in A : w = <<y>>
  OBVIOUS
<1>2. /\ heads \subseteq QueryHeads \ {"?"} /\ a \in Labelled(heads, wordss)
      /\ \A g \in heads : TopicOfHead(p, g) = Topic(o)
  OBVIOUS
<1> HIDE DEF heads, wordss
<1>3. Understood(p, o, a, m, Exactly(a.text, heads, <<A>>))
  BY <1>1, <1>2, WordUnderstood
<1> QED
  BY <1>3 DEF heads

LEMMA LevelUnderstood ==
  ASSUME NEW p, NEW m, NEW L, NEW accepted, L \subseteq accepted,
         NEW a \in Labelled(CalHeads, {<<l>> : l \in L})
  PROVE  Understood(p, "calibration_query", a, m, Level(a.text, accepted))
<1>1. \A w \in {<<l>> : l \in L} : \E y \in accepted : w = <<y>>
  OBVIOUS
<1>2. CalHeads \subseteq QueryHeads \ {"?"}
  BY DEF CalHeads, QueryHeads
<1>3. \A h \in CalHeads : TopicOfHead(p, h) = Topic("calibration_query")
  BY DEF CalHeads, TopicOfHead, Topic, Headless
<1>4. Understood(p, "calibration_query", a, m, Exactly(a.text, CalHeads, <<accepted>>))
  BY <1>1, <1>2, <1>3, WordUnderstood
<1> QED
  BY <1>4 DEF Level

LEMMA FlagUnderstood ==
  ASSUME NEW p, NEW o, NEW m, NEW heads, NEW allowed, heads \subseteq allowed,
         heads \subseteq QueryHeads \ {"?"}, \A h \in heads : TopicOfHead(p, h) = Topic(o),
         NEW wordss, wordss \subseteq Bits, NEW a \in Labelled(heads, wordss)
  PROVE  Understood(p, o, a, m, Flag(a.text, allowed))
<1>1. \A w \in wordss : \E y \in {"0", "1"} : w = <<y>>
  BY DEF Bits
<1>2. Understood(p, o, a, m, Exactly(a.text, allowed, <<{"0", "1"}>>))
  BY <1>1, WordUnderstood
<1> QED
  BY <1>2 DEF Flag

(***************************************************************************)
(* Each parser takes the answer to its own query.                          *)
(***************************************************************************)
LEMMA PhUnderstood ==
  ASSUME NEW o \in DOMAIN PhAsked, NEW m, NEW s, NEW a \in Answers("PH", PhAsked[o], m, s)
  PROVE  Understood("PH", o, a, m, PhParse(o, a.text))
<1> USE DEF PhParse
<1>1. CASE o = "read"
  <2>0. Answers("PH", <<"r">>, m, s) = {Reading("PH", m, s)}
    BY DEF Answers, ProductAnswers, ControlWords
  <2>1. a \in {Reading("PH", m, s)}
    BY <1>1, <2>0 DEF PhAsked
  <2>2. a.text = <<"n1">> /\ a.means = <<"n1">>
    BY <2>1 DEF Reading, Answer
  <2> QED
    BY <1>1, <2>2, NumberUnderstood DEF Topic, Headless
<1>2. CASE o = "read_with_temp_comp"
  <2>0. Answers("PH", <<"rt", "n1">>, m, s) = {Reading("PH", m, s)}
    BY DEF Answers, ProductAnswers, ControlWords
  <2>1. a \in {Reading("PH", m, s)}
    BY <1>2, <2>0 DEF PhAsked
  <2>2. a.text = <<"n1">> /\ a.means = <<"n1">>
    BY <2>1 DEF Reading, Answer
  <2> QED
    BY <1>2, <2>2, NumberUnderstood DEF Topic, Headless
<1>3. CASE o = "temperature_query"
  <2>0. Answers("PH", <<"T", "?">>, m, s) = Labelled({"?T"}, {<<"n1">>})
    BY DEF Answers, ProductAnswers, ControlWords
  <2>1. a \in Labelled({"?T"}, {<<"n1">>})
    BY <1>3, <2>0 DEF PhAsked
  <2>2. "?T" \in QueryHeads \ {"?"} /\ TopicOfHead("PH", "?T") = Topic("temperature_query") /\ "n1" \in Decimals
    BY DEF QueryHeads, TopicOfHead, Topic, Headless, Decimals
  <2> QED
    BY <1>3, <2>1, <2>2, HeadUnderstood DEF OneNumber
<1>4. CASE o = "calibration_query"
  <2>0. Answers("PH", <<"Cal", "?">>, m, s) = Labelled(CalHeads, {<<l>> : l \in Levels["PH"]})
    BY DEF Answers, ProductAnswers, ControlWords
  <2>1. a \in Labelled(CalHeads, {<<l>> : l \in Levels["PH"]})
    BY <1>4, <2>0 DEF PhAsked
  <2>2. Levels["PH"] \subseteq {"0", "1", "2", "3"}
    BY DEF Levels
  <2> QED
    BY <1>4, <2>1, <2>2, LevelUnderstood
<1>5. CASE o = "slope_query"
  <2>0. Answers("PH", <<"Slope", "?">>, m, s) = Labelled({"?Slope", "?SLOPE"}, {<<"n1", "n2", "n3">>})
    BY DEF Answers, ProductAnswers, ControlWords
  <2>1. a \in Labelled({"?Slope", "?SLOPE"}, {<<"n1", "n2", "n3">>})
    BY <1>5, <2>0 DEF PhAsked
  <2> QED
    BY <1>5, <2>1, SlopeUnderstood
<1>6. CASE o = "extended_range_query"
  <2>0. Answers("PH", <<"pHext", "?">>, m, s) = Labelled({"?pHext"}, Bits)
    BY DEF Answers, ProductAnswers, ControlWords
  <2>1. a \in Labelled({"?pHext"}, Bits)
    BY <1>6, <2>0 DEF PhAsked
  <2>2. /\ {"?pHext"} \subseteq QueryHeads \ {"?"}
        /\ \A h \in {"?pHext"} : TopicOfHead("PH", h) = Topic("extended_range_query")
    BY DEF QueryHeads, TopicOfHead, Topic, Headless
  <2>3. Understood("PH", "extended_range_query", a, m, Flag(a.text, {"?pHext", "?PHEXT"}))
    BY <2>1, <2>2, FlagUnderstood
  <2> QED
    BY <1>6, <2>3
<1> QED
  BY <1>1, <1>2, <1>3, <1>4, <1>5, <1>6 DEF PhAsked

LEMMA OrpUnderstood ==
  ASSUME NEW o \in DOMAIN OrpAsked, NEW m, NEW s, NEW a \in Answers("ORP", OrpAsked[o], m, s)
  PROVE  Understood("ORP", o, a, m, OrpParse(o, a.text))
<1> USE DEF OrpParse
<1>1. CASE o = "read"
  <2>0. Answers("ORP", <<"r">>, m, s) = {Reading("ORP", m, s)}
    BY DEF Answers, ProductAnswers, ControlWords
  <2>1. a \in {Reading("ORP", m, s)}
    BY <1>1, <2>0 DEF OrpAsked
  <2>2. a.text = <<"n1">> /\ a.means = <<"n1">>
    BY <2>1 DEF Reading, Answer
  <2> QED
    BY <1>1, <2>2, NumberUnderstood DEF Topic, Headless
<1>2. CASE o = "calibration_query"
  <2>0. Answers("ORP", <<"Cal", "?">>, m, s) = Labelled(CalHeads, {<<l>> : l \in Levels["ORP"]})
    BY DEF Answers, ProductAnswers, ControlWords
  <2>1. a \in Labelled(CalHeads, {<<l>> : l \in Levels["ORP"]})
    BY <1>2, <2>0 DEF OrpAsked
  <2>2. Levels["ORP"] \subseteq {"0", "1"}
    BY DEF Levels
  <2> QED
    BY <1>2, <2>1, <2>2, LevelUnderstood
<1>3. CASE o = "extended_scale_query"
  <2>0. Answers("ORP", <<"ORPext", "?">>, m, s) = Labelled({"?ORPext"}, Bits)
    BY DEF Answers, ProductAnswers, ControlWords
  <2>1. a \in Labelled({"?ORPext"}, Bits)
    BY <1>3, <2>0 DEF OrpAsked
  <2>2. /\ {"?ORPext"} \subseteq QueryHeads \ {"?"}
        /\ \A h \in {"?ORPext"} : TopicOfHead("ORP", h) = Topic("extended_scale_query")
    BY DEF QueryHeads, TopicOfHead, Topic, Headless
  <2>3. Understood("ORP", "extended_scale_query", a, m, Flag(a.text, {"?ORPext"}))
    BY <2>1, <2>2, FlagUnderstood
  <2> QED
    BY <1>3, <2>3
<1> QED
  BY <1>1, <1>2, <1>3 DEF OrpAsked

LEMMA EcUnderstood ==
  ASSUME NEW o \in DOMAIN EcAsked, NEW m, NEW s, NEW a \in Answers("EC", EcAsked[o], m, s),
         m \in [DOMAIN EcOutputs -> {"on", "off"}],
         NEW bits, o \in {"read", "read_with_temp_comp"} => bits = m
  PROVE  Understood("EC", o, a, m, EcParse(o, a.text, bits))
<1> USE DEF EcParse
<1>m. IsMask(m) /\ m # <<>>
  BY DEF EcOutputs, IsMask, EZO_SCHEMA_MAX_FIELDS
<1>1. CASE o = "read"
  <2>0. Answers("EC", <<"r">>, m, s) = {Reading("EC", m, s)}
    BY DEF Answers, ProductAnswers, ControlWords
  <2>1. a \in {Reading("EC", m, s)}
    BY <1>1, <2>0 DEF EcAsked
  <2> QED
    BY <1>1, <1>m, <2>1, ReadingUnderstood
<1>2. CASE o = "read_with_temp_comp"
  <2>0. Answers("EC", <<"rt", "n1">>, m, s) = {Reading("EC", m, s)}
    BY DEF Answers, ProductAnswers, ControlWords
  <2>1. a \in {Reading("EC", m, s)}
    BY <1>2, <2>0 DEF EcAsked
  <2> QED
    BY <1>2, <1>m, <2>1, ReadingUnderstood
<1>3. CASE o = "output_query"
  <2>0. Answers("EC", <<"O", "?">>, m, s) = OutputAnswers("EC", m)
    BY DEF Answers, ProductAnswers, ControlWords
  <2>1. a \in OutputAnswers("EC", m)
    BY <1>3, <2>0 DEF EcAsked
  <2>2. Outputs["EC"] = EcOutputs
    BY DEF Outputs
  <2>3. Distinct(EcOutputs)
    BY DEF Distinct, EcOutputs
  <2>4. Understood("EC", "output_query", a, m, OutputConfig(a.text, Outputs["EC"]))
    BY <1>m, <2>1, <2>2, <2>3, OutputConfigUnderstood
  <2> QED
    BY <1>3, <2>2, <2>4
<1>4. CASE o = "temperature_query"
  <2>0. Answers("EC", <<"T", "?">>, m, s) = Labelled({"?T"}, {<<"n1">>})
    BY DEF Answers, ProductAnswers, ControlWords
  <2>1. a \in Labelled({"?T"}, {<<"n1">>})
    BY <1>4, <2>0 DEF EcAsked
  <2>2. "?T" \in QueryHeads \ {"?"} /\ TopicOfHead("EC", "?T") = Topic("temperature_query") /\ "n1" \in Decimals
    BY DEF QueryHeads, TopicOfHead, Topic, Headless, Decimals
  <2> QED
    BY <1>4, <2>1, <2>2, HeadUnderstood DEF OneNumber
<1>5. CASE o = "probe_k_query"
  <2>0. Answers("EC", <<"K", "?">>, m, s) = Labelled({"?K"}, {<<"n2">>})
    BY DEF Answers, ProductAnswers, ControlWords
  <2>1. a \in Labelled({"?K"}, {<<"n2">>})
    BY <1>5, <2>0 DEF EcAsked
  <2>2. "?K" \in QueryHeads \ {"?"} /\ TopicOfHead("EC", "?K") = Topic("probe_k_query") /\ "n2" \in Decimals
    BY DEF QueryHeads, TopicOfHead, Topic, Headless, Decimals
  <2> QED
    BY <1>5, <2>1, <2>2, HeadUnderstood DEF OneNumber
<1>6. CASE o = "tds_factor_query"
  <2>0. Answers("EC", <<"TDS", "?">>, m, s) = Labelled({"?TDS"}, {<<"n3">>})
    BY DEF Answers, ProductAnswers, ControlWords
  <2>1. a \in Labelled({"?TDS"}, {<<"n3">>})
    BY <1>6, <2>0 DEF EcAsked
  <2>2. "?TDS" \in QueryHeads \ {"?"} /\ TopicOfHead("EC", "?TDS") = Topic("tds_factor_query") /\ "n3" \in Decimals
    BY DEF QueryHeads, TopicOfHead, Topic, Headless, Decimals
  <2> QED
    BY <1>6, <2>1, <2>2, HeadUnderstood DEF OneNumber
<1>7. CASE o = "calibration_query"
  <2>0. Answers("EC", <<"Cal", "?">>, m, s) = Labelled(CalHeads, {<<l>> : l \in Levels["EC"]})
    BY DEF Answers, ProductAnswers, ControlWords
  <2>1. a \in Labelled(CalHeads, {<<l>> : l \in Levels["EC"]})
    BY <1>7, <2>0 DEF EcAsked
  <2>2. Levels["EC"] \subseteq Uints
    BY DEF Levels, Uints
  <2> QED
    BY <1>7, <2>1, <2>2, LevelUnderstood
<1> QED
  BY <1>1, <1>2, <1>3, <1>4, <1>5, <1>6, <1>7 DEF EcAsked

LEMMA DoUnderstood ==
  ASSUME NEW o \in DOMAIN DoAsked, NEW m, NEW s, NEW a \in Answers("DO", DoAsked[o], m, s),
         m \in [DOMAIN DoOutputs -> {"on", "off"}],
         NEW bits, o \in {"read", "read_with_temp_comp"} => bits = m
  PROVE  Understood("DO", o, a, m, DoParse(o, a.text, bits))
<1> USE DEF DoParse
<1>m. IsMask(m) /\ m # <<>>
  BY DEF DoOutputs, IsMask, EZO_SCHEMA_MAX_FIELDS
<1>1. CASE o = "read"
  <2>0. Answers("DO", <<"r">>, m, s) = {Reading("DO", m, s)}
    BY DEF Answers, ProductAnswers, ControlWords
  <2>1. a \in {Reading("DO", m, s)}
    BY <1>1, <2>0 DEF DoAsked
  <2> QED
    BY <1>1, <1>m, <2>1, ReadingUnderstood
<1>2. CASE o = "read_with_temp_comp"
  <2>0. Answers("DO", <<"rt", "n1">>, m, s) = {Reading("DO", m, s)}
    BY DEF Answers, ProductAnswers, ControlWords
  <2>1. a \in {Reading("DO", m, s)}
    BY <1>2, <2>0 DEF DoAsked
  <2> QED
    BY <1>2, <1>m, <2>1, ReadingUnderstood
<1>3. CASE o = "output_query"
  <2>0. Answers("DO", <<"O", "?">>, m, s) = OutputAnswers("DO", m)
    BY DEF Answers, ProductAnswers, ControlWords
  <2>1. a \in OutputAnswers("DO", m)
    BY <1>3, <2>0 DEF DoAsked
  <2>2. m \in [1 .. 2 -> {"on", "off"}]
    BY DEF DoOutputs
  <2> QED
    BY <1>3, <1>m, <2>1, <2>2, DoOutputConfigUnderstood
<1>4. CASE o = "temperature_query"
  <2>0. Answers("DO", <<"T", "?">>, m, s) = Labelled({"?T"}, {<<"n1">>})
    BY DEF Answers, ProductAnswers, ControlWords
  <2>1. a \in Labelled({"?T"}, {<<"n1">>})
    BY <1>4, <2>0 DEF DoAsked
  <2> QED
    BY <1>4, <2>1, DoTemperatureUnderstood
<1>5. CASE o = "salinity_query"
  <2>0. Answers("DO", <<"S", "?">>, m, s) = Labelled({"?S"}, {<<"n1", "uS">>, <<"n1", "ppt">>})
    BY DEF Answers, ProductAnswers, ControlWords
  <2>1. a \in Labelled({"?S"}, {<<"n1", "uS">>, <<"n1", "ppt">>})
    BY <1>5, <2>0 DEF DoAsked
  <2> QED
    BY <1>5, <2>1, SalinityUnderstood
<1>6. CASE o = "pressure_query"
  <2>0. Answers("DO", <<"P", "?">>, m, s) = Labelled({"?P"}, {<<"n4">>}) \cup {Answer(<<"?", "P", "n4">>, <<"n4">>)}
    BY DEF Answers, ProductAnswers, ControlWords
  <2>1. a \in Labelled({"?P"}, {<<"n4">>}) \cup {Answer(<<"?", "P", "n4">>, <<"n4">>)}
    BY <1>6, <2>0 DEF DoAsked
  <2> QED
    BY <1>6, <2>1, PressureUnderstood
<1>7. CASE o = "calibration_query"
  <2>0. Answers("DO", <<"Cal", "?">>, m, s) = Labelled(CalHeads, {<<l>> : l \in Levels["DO"]})
    BY DEF Answers, ProductAnswers, ControlWords
  <2>1. a \in Labelled(CalHeads, {<<l>> : l \in Levels["DO"]})
    BY <1>7, <2>0 DEF DoAsked
  <2>2. Levels["DO"] \subseteq Uints
    BY DEF Levels, Uints
  <2> QED
    BY <1>7, <2>1, <2>2, LevelUnderstood
<1> QED
  BY <1>1, <1>2, <1>3, <1>4, <1>5, <1>6, <1>7 DEF DoAsked

LEMMA RtdUnderstood ==
  ASSUME NEW o \in DOMAIN RtdAsked, NEW m, NEW s, NEW a \in Answers("RTD", RtdAsked[o], m, s),
         s \in Scales, NEW degree, o \in {"read", "memory_next", "memory_all"} => degree = s
  PROVE  Understood("RTD", o, a, m, RtdParse(o, a.text, degree))
<1> USE DEF RtdParse
<1>1. CASE o = "read"
  <2>0. Answers("RTD", <<"r">>, m, s) = {Reading("RTD", m, s)}
    BY DEF Answers, ProductAnswers, ControlWords
  <2>1. a \in {Reading("RTD", m, s)}
    BY <1>1, <2>0 DEF RtdAsked
  <2>2. a.text = <<"n1">> /\ a.means = <<"n1", s>>
    BY <2>1 DEF Reading, Answer
  <2> QED
    BY <1>1, <2>2, ScaledUnderstood DEF Topic, Headless
<1>2. CASE o = "scale_query"
  <2>0. Answers("RTD", <<"S", "?">>, m, s) = Labelled({"?S"}, {<<s>>})
    BY DEF Answers, ProductAnswers, ControlWords
  <2>1. a \in Labelled({"?S"}, {<<s>>})
    BY <1>2, <2>0 DEF RtdAsked
  <2>2. "?S" \in QueryHeads \ {"?"} /\ TopicOfHead("RTD", "?S") = Topic("scale_query") /\ s \in Scales
    BY DEF QueryHeads, TopicOfHead, Topic, Headless
  <2> QED
    BY <1>2, <2>1, <2>2, HeadUnderstood
<1>3. CASE o = "calibration_query"
  <2>0. Answers("RTD", <<"Cal", "?">>, m, s) = Labelled(CalHeads, {<<l>> : l \in Levels["RTD"]})
    BY DEF Answers, ProductAnswers, ControlWords
  <2>1. a \in Labelled(CalHeads, {<<l>> : l \in Levels["RTD"]})
    BY <1>3, <2>0 DEF RtdAsked
  <2>2. Levels["RTD"] \subseteq {"0", "1"}
    BY DEF Levels
  <2> QED
    BY <1>3, <2>1, <2>2, LevelUnderstood
<1>4. CASE o = "logger_query"
  <2>0. Answers("RTD", <<"D", "?">>, m, s) = Labelled({"?D"}, {<<"1">>})
    BY DEF Answers, ProductAnswers, ControlWords
  <2>1. a \in Labelled({"?D"}, {<<"1">>})
    BY <1>4, <2>0 DEF RtdAsked
  <2>2. "?D" \in QueryHeads \ {"?"} /\ TopicOfHead("RTD", "?D") = Topic("logger_query") /\ "1" \in Uints
    BY DEF QueryHeads, TopicOfHead, Topic, Headless, Uints
  <2> QED
    BY <1>4, <2>1, <2>2, HeadUnderstood
<1>5. CASE o = "memory_query"
  <2>0. Answers("RTD", <<"M", "?">>, m, s) = Labelled({"?M"}, {<<"2">>})
    BY DEF Answers, ProductAnswers, ControlWords
  <2>1. a \in Labelled({"?M"}, {<<"2">>})
    BY <1>5, <2>0 DEF RtdAsked
  <2>2. "?M" \in QueryHeads \ {"?"} /\ TopicOfHead("RTD", "?M") = Topic("memory_query") /\ "2" \in Uints
    BY DEF QueryHeads, TopicOfHead, Topic, Headless, Uints
  <2> QED
    BY <1>5, <2>1, <2>2, HeadUnderstood
<1>6. CASE o = "memory_next"
  <2>0. Answers("RTD", <<"M">>, m, s) = {Answer(<<"1", "n1">>, <<"1", "n1", s>>)}
    BY DEF Answers, ProductAnswers, ControlWords
  <2>1. a \in {Answer(<<"1", "n1">>, <<"1", "n1", s>>)}
    BY <1>6, <2>0 DEF RtdAsked
  <2> QED
    BY <1>6, <2>1, MemoryNextUnderstood
<1>7. CASE o = "memory_all"
  <2>0. Answers("RTD", <<"M", "all">>, m, s) = {Answer(SubSeq(ValueOf, 1, n), SubSeq(ValueOf, 1, n) \o <<s>>) : n \in 1 .. 3}
    BY DEF Answers, ProductAnswers, ControlWords
  <2>1. a \in {Answer(SubSeq(ValueOf, 1, n), SubSeq(ValueOf, 1, n) \o <<s>>) : n \in 1 .. 3}
    BY <1>7, <2>0 DEF RtdAsked
  <2> QED
    BY <1>7, <2>1, MemoryAllUnderstood
<1> QED
  BY <1>1, <1>2, <1>3, <1>4, <1>5, <1>6, <1>7 DEF RtdAsked

LEMMA HumUnderstood ==
  ASSUME NEW o \in DOMAIN HumAsked, NEW m, NEW s, NEW a \in Answers("HUM", HumAsked[o], m, s),
         m \in [DOMAIN HumOutputs -> {"on", "off"}],
         NEW bits, o \in {"read", "read_with_temp_comp"} => bits = m
  PROVE  Understood("HUM", o, a, m, HumParse(o, a.text, bits))
<1> USE DEF HumParse
<1>m. IsMask(m) /\ m # <<>>
  BY DEF HumOutputs, IsMask, EZO_SCHEMA_MAX_FIELDS
<1>1. CASE o = "read"
  <2>0. Answers("HUM", <<"r">>, m, s) = {Reading("HUM", m, s)}
    BY DEF Answers, ProductAnswers, ControlWords
  <2>1. a \in {Reading("HUM", m, s)}
    BY <1>1, <2>0 DEF HumAsked
  <2> QED
    BY <1>1, <1>m, <2>1, ReadingUnderstood
<1>2. CASE o = "output_query"
  <2>0. Answers("HUM", <<"O", "?">>, m, s) = OutputAnswers("HUM", m)
    BY DEF Answers, ProductAnswers, ControlWords
  <2>1. a \in OutputAnswers("HUM", m)
    BY <1>2, <2>0 DEF HumAsked
  <2>2. Outputs["HUM"] = HumOutputs
    BY DEF Outputs
  <2>3. Distinct(HumOutputs)
    BY DEF Distinct, HumOutputs
  <2>4. Understood("HUM", "output_query", a, m, OutputConfig(a.text, Outputs["HUM"]))
    BY <1>m, <2>1, <2>2, <2>3, OutputConfigUnderstood
  <2> QED
    BY <1>2, <2>2, <2>4
<1>3. CASE o = "temperature_calibration_query"
  <2>0. Answers("HUM", <<"Tcal", "?">>, m, s) = Labelled({"?Tcal"}, Bits)
    BY DEF Answers, ProductAnswers, ControlWords
  <2>1. a \in Labelled({"?Tcal"}, Bits)
    BY <1>3, <2>0 DEF HumAsked
  <2>2. /\ {"?Tcal"} \subseteq QueryHeads \ {"?"}
        /\ \A h \in {"?Tcal"} : TopicOfHead("HUM", h) = Topic("temperature_calibration_query")
    BY DEF QueryHeads, TopicOfHead, Topic, Headless
  <2>3. Understood("HUM", "temperature_calibration_query", a, m, Flag(a.text, {"?Tcal"}))
    BY <2>1, <2>2, FlagUnderstood
  <2> QED
    BY <1>3, <2>3
<1> QED
  BY <1>1, <1>2, <1>3 DEF HumAsked

LEMMA InfoUnderstood ==
  ASSUME NEW p \in Products, NEW m,
         NEW a \in {Answer(<<h, CodeOnDevice[p], "n1">>, <<p, "n1">>) : h \in {"?I", "?i"}}
  PROVE  Understood(p, "info_query", a, m, ParseDeviceInfo(a.text))
<1>1. PICK h \in {"?I", "?i"} : a = Answer(<<h, CodeOnDevice[p], "n1">>, <<p, "n1">>)
  OBVIOUS
<1>2. ProductIdFromShortCode(CodeOnDevice[p]) = p
  BY DEF Products, CodeOnDevice, ProductIdFromShortCode
<1> DEFINE code == CodeOnDevice[p]
           w == <<h, code, "n1">>
<1>3. IsText(w) /\ w # <<>> /\ w[1] = h /\ w[2] = code /\ w[3] = "n1" /\ Len(w) = 3
  BY ShortTexts
<1>4. a.text = w /\ a.means = <<p, "n1">>
  BY <1>1 DEF Answer
<1> HIDE DEF w
<1>5. ParseDeviceInfo(w) = Parsed(<<p, "n1">>)
  BY <1>2, <1>3 DEF ParseDeviceInfo
<1>6. TopicOfText(p, w) = "info_query"
  BY <1>3 DEF TopicOfText, TopicOfHead
<1> QED
  BY <1>3, <1>4, <1>5, <1>6 DEF Understood, Topic, Headless

LEMMA StatusUnderstood ==
  ASSUME NEW p, NEW m, NEW a \in Labelled({"?Status", "?STATUS"}, {<<"P", "n1">>})
  PROVE  Understood(p, "status_query", a, m,
                    Exactly(a.text, {"?Status", "?STATUS"}, <<{"P", "S", "B", "W", "U"}, Decimals>>))
<1> DEFINE accepted == <<{"P", "S", "B", "W", "U"}, Decimals>>
           w == <<"P", "n1">>
           heads == {"?Status", "?STATUS"}
<1>1. IsText(w) /\ Len(w) = 2
  BY ShortTexts
<1>2. \A i \in 1 .. Len(w) : w[i] \in accepted[i]
  BY DEF Decimals
<1>3. DOMAIN accepted = 1 .. Len(accepted) /\ Len(accepted) = 2
  OBVIOUS
<1>4. heads \subseteq QueryHeads \ {"?"} /\ \A h \in heads : TopicOfHead(p, h) = Topic("status_query")
  BY DEF QueryHeads, TopicOfHead, Topic, Headless
<1>5. a \in Labelled(heads, {w})
  OBVIOUS
<1> HIDE DEF accepted, w, heads
<1>w. Acceptable({w}, accepted)
  BY <1>1, <1>2, <1>3 DEF Acceptable
<1>6. Understood(p, "status_query", a, m, Exactly(a.text, heads, accepted))
  BY <1>w, <1>3, <1>4, <1>5, LabelledUnderstood
<1> QED
  BY <1>6 DEF accepted, heads

LEMMA ControlUnderstood ==
  ASSUME NEW p \in Products, NEW o \in DOMAIN ControlAsked, NEW m, NEW s,
         NEW a \in Answers(p, ControlAsked[o], m, s)
  PROVE  Understood(p, o, a, m, ControlParse(o, a.text))
<1> USE DEF ControlParse
<1>1. CASE o = "info_query"
  <2>0. Answers(p, <<"i">>, m, s)
          = {Answer(<<h, CodeOnDevice[p], "n1">>, <<p, "n1">>) : h \in {"?I", "?i"}}
    BY DEF Answers, ControlAnswers, ControlWords
  <2>1. a \in {Answer(<<h, CodeOnDevice[p], "n1">>, <<p, "n1">>) : h \in {"?I", "?i"}}
    BY <1>1, <2>0 DEF ControlAsked
  <2> QED
    BY <1>1, <2>1, InfoUnderstood
<1>2. CASE o = "name_query"
  <2>0. Answers(p, <<"Name", "?">>, m, s) = Labelled({"?Name", "?NAME"}, {<<"TANK">>, <<"">>})
    BY DEF Answers, ControlAnswers, ControlWords
  <2>1. a \in Labelled({"?Name", "?NAME"}, {<<"TANK">>, <<"">>})
    BY <1>2, <2>0 DEF ControlAsked
  <2> DEFINE heads == {"?Name", "?NAME"}
             wordss == {<<"TANK">>, <<"">>}
             A == {"", "TANK"}
  <2>2. /\ heads \subseteq QueryHeads \ {"?"} /\ a \in Labelled(heads, wordss)
        /\ \A h \in heads : TopicOfHead(p, h) = Topic("name_query")
    BY <2>1 DEF QueryHeads, TopicOfHead, Topic, Headless
  <2>3. \A w \in wordss : \E x \in A : w = <<x>>
    BY DEF Uints
  <2> HIDE DEF heads, wordss, A
  <2>4. Understood(p, "name_query", a, m, Exactly(a.text, heads, <<A>>))
    BY <2>2, <2>3, WordUnderstood
  <2> QED
    BY <1>2, <2>4 DEF heads, A
<1>3. CASE o = "status_query"
  <2>0. Answers(p, <<"Status">>, m, s) = Labelled({"?Status", "?STATUS"}, {<<"P", "n1">>})
    BY DEF Answers, ControlAnswers, ControlWords
  <2>1. a \in Labelled({"?Status", "?STATUS"}, {<<"P", "n1">>})
    BY <1>3, <2>0 DEF ControlAsked
  <2> QED
    BY <1>3, <2>1, StatusUnderstood
<1>4. CASE o = "led_query"
  <2>0. Answers(p, <<"L", "?">>, m, s) = Labelled({"?L"}, Bits)
    BY DEF Answers, ControlAnswers, ControlWords
  <2>1. a \in Labelled({"?L"}, Bits)
    BY <1>4, <2>0 DEF ControlAsked
  <2>2. /\ {"?L"} \subseteq QueryHeads \ {"?"}
        /\ \A h \in {"?L"} : TopicOfHead(p, h) = Topic("led_query")
    BY DEF QueryHeads, TopicOfHead, Topic, Headless
  <2>3. Understood(p, "led_query", a, m, Flag(a.text, {"?L"}))
    BY <2>1, <2>2, FlagUnderstood
  <2> QED
    BY <1>4, <2>3
<1>5. CASE o = "protocol_lock_query"
  <2>0. Answers(p, <<"Plock", "?">>, m, s) = Labelled({"?Plock", "?PLOCK"}, Bits)
    BY DEF Answers, ControlAnswers, ControlWords
  <2>1. a \in Labelled({"?Plock", "?PLOCK"}, Bits)
    BY <1>5, <2>0 DEF ControlAsked
  <2>2. /\ {"?Plock", "?PLOCK"} \subseteq QueryHeads \ {"?"}
        /\ \A h \in {"?Plock", "?PLOCK"} : TopicOfHead(p, h) = Topic("protocol_lock_query")
    BY DEF QueryHeads, TopicOfHead, Topic, Headless
  <2>3. Understood(p, "protocol_lock_query", a, m, Flag(a.text, {"?Plock", "?PLOCK"}))
    BY <2>1, <2>2, FlagUnderstood
  <2> QED
    BY <1>5, <2>3
<1>6. CASE o = "baud_query"
  <2>0. Answers(p, <<"Baud", "?">>, m, s) = Labelled({"?Baud", "?BAUD"}, {<<"3">>})
    BY DEF Answers, ControlAnswers, ControlWords
  <2>1. a \in Labelled({"?Baud", "?BAUD"}, {<<"3">>})
    BY <1>6, <2>0 DEF ControlAsked
  <2> DEFINE heads == {"?Baud", "?BAUD"}
             wordss == {<<"3">>}
             A == Uints
  <2>2. /\ heads \subseteq QueryHeads \ {"?"} /\ a \in Labelled(heads, wordss)
        /\ \A h \in heads : TopicOfHead(p, h) = Topic("baud_query")
    BY <2>1 DEF QueryHeads, TopicOfHead, Topic, Headless
  <2>3. \A w \in wordss : \E x \in A : w = <<x>>
    BY DEF Uints
  <2> HIDE DEF heads, wordss, A
  <2>4. Understood(p, "baud_query", a, m, Exactly(a.text, heads, <<A>>))
    BY <2>2, <2>3, WordUnderstood
  <2> QED
    BY <1>6, <2>4 DEF heads, A
<1>7. CASE o = "response_code_query"
  <2>0. Answers(p, <<"*OK", "?">>, m, s) = Labelled({"?*OK"}, {<<"1">>})
    BY DEF Answers, ControlAnswers, ControlWords
  <2>1. a \in Labelled({"?*OK"}, {<<"1">>})
    BY <1>7, <2>0 DEF ControlAsked
  <2>2. /\ {"?*OK"} \subseteq QueryHeads \ {"?"} /\ {<<"1">>} \subseteq Bits
        /\ \A h \in {"?*OK"} : TopicOfHead(p, h) = Topic("response_code_query")
    BY DEF QueryHeads, TopicOfHead, Topic, Headless, Bits
  <2>3. Understood(p, "response_code_query", a, m, Flag(a.text, {"?*OK"}))
    BY <2>1, <2>2, FlagUnderstood
  <2> QED
    BY <1>7, <2>3
<1> QED
  BY <1>1, <1>2, <1>3, <1>4, <1>5, <1>6, <1>7 DEF ControlAsked

-----------------------------------------------------------------------------
(***************************************************************************)
(* The queries of all tables.                                              *)
(***************************************************************************)
(* The operations of a table that await a payload are known queries.       *)
Queries(table, query) ==
  \A o \in DOMAIN table : \A cmd \in table[o].cmds :
    "DATA" \in ToSet(table[o].lines) => o \in DOMAIN query /\ cmd = query[o]

LEMMA OneLine == ASSUME NEW x PROVE ToSet(<<x>>) = {x}
BY DEF ToSet

LEMMA OverI2cQueries ==
  ASSUME NEW ops, NEW query,
         \A o \in DOMAIN ops : \A cmd \in ops[o].cmds :
           ops[o].reply = "DATA" => o \in DOMAIN query /\ cmd = query[o]
  PROVE  Queries(OverI2c(ops), query)
<1> SUFFICES ASSUME NEW o \in DOMAIN ops, NEW cmd \in ops[o].cmds,
                    "DATA" \in ToSet(<<ops[o].reply>>)
             PROVE  o \in DOMAIN query /\ cmd = query[o]
  BY DEF Queries, OverI2c
<1>1. ops[o].reply = "DATA"
  BY OneLine
<1> QED
  BY <1>1

LEMMA OverUartQueries ==
  ASSUME NEW ops, NEW query,
         \A o \in DOMAIN ops : \A cmd \in ops[o].cmds :
           ops[o].reply = "DATA" => o \in DOMAIN query /\ cmd = query[o]
  PROVE  Queries(OverUart(ops), query)
<1> SUFFICES ASSUME NEW o \in DOMAIN ops, NEW cmd \in ops[o].cmds,
                    "DATA" \in ToSet(IF ops[o].reply = "DATA" THEN <<"DATA", "OK">> ELSE <<"OK">>)
             PROVE  o \in DOMAIN query /\ cmd = query[o]
  BY DEF Queries, OverUart
<1>1. "DATA" \notin ToSet(<<"OK">>)
  BY OneLine
<1>2. ops[o].reply = "DATA"
  BY <1>1
<1> QED
  BY <1>2

LEMMA PhUartQueries == Queries(PhUart, PhAsked)
<1> SUFFICES ASSUME NEW o \in DOMAIN PhCommands, NEW cmd \in PhCommands[o].cmds,
                    "DATA" \in ToSet(PhUart[o].lines)
             PROVE  o \in DOMAIN PhAsked /\ cmd = PhAsked[o]
  BY DEF Queries, PhUart, OverUart
<1>1. CASE o = "read_with_temp_comp"
  <2>1. PhCommands[o].reply = "DATA"
    BY <1>1 DEF PhCommands, ReadWithTempCompOp, Query
  <2> QED
    BY <2>1, PhQueries
<1>2. CASE o # "read_with_temp_comp"
  <2>1. PhUart[o].lines = IF PhCommands[o].reply = "DATA" THEN <<"DATA", "OK">> ELSE <<"OK">>
    BY <1>2 DEF PhUart, OverUart
  <2>2. "DATA" \notin ToSet(<<"OK">>)
    BY OneLine
  <2> QED
    BY <2>1, <2>2, PhQueries
<1> QED
  BY <1>1, <1>2

LEMMA ControlI2cQueries == Queries(ControlI2c, ControlAsked)
BY ControlQueries, OverI2cQueries DEF ControlI2c

LEMMA JoinedQueries ==
  ASSUME NEW f, NEW g, NEW query, Queries(f, query), Queries(g, query)
  PROVE  Queries(Joined(f, g), query)
<1> SUFFICES ASSUME NEW o \in DOMAIN Joined(f, g), NEW cmd \in Joined(f, g)[o].cmds,
                    "DATA" \in ToSet(Joined(f, g)[o].lines)
             PROVE  o \in DOMAIN query /\ cmd = query[o]
  BY DEF Queries
<1>1. CASE o \in DOMAIN f
  BY <1>1 DEF Queries, Joined
<1>2. CASE o \notin DOMAIN f
  BY <1>2 DEF Queries, Joined
<1> QED
  BY <1>1, <1>2

LEMMA ControlUartQueries == Queries(ControlUart, ControlAsked)
<1> DEFINE More == [baud_query          |-> [cmds |-> {<<"Baud", "?">>}, kind |-> "generic",
                                             lines |-> <<"DATA", "OK">>],
                    response_code_query |-> [cmds |-> {<<"*OK", "?">>}, kind |-> "generic",
                                             lines |-> <<"DATA">>],
                    response_code_set   |-> [cmds |-> {<<"*OK", "1">>}, kind |-> "generic",
                                             lines |-> <<"OK">>]]
<1>1. Queries(OverUart(ControlCommands), ControlAsked)
  BY ControlQueries, OverUartQueries
<1>2. Queries(More, ControlAsked)
  <2> SUFFICES ASSUME NEW o \in DOMAIN More, NEW cmd \in More[o].cmds,
                      "DATA" \in ToSet(More[o].lines)
               PROVE  o \in DOMAIN ControlAsked /\ cmd = ControlAsked[o]
    BY DEF Queries
  <2>1. CASE o = "baud_query"
    BY <2>1 DEF ControlAsked
  <2>2. CASE o = "response_code_query"
    BY <2>2 DEF ControlAsked
  <2>3. CASE o = "response_code_set"
    <3>1. More[o].lines = <<"OK">>
      BY <2>3
    <3> QED
      BY <3>1, OneLine
  <2> QED
    BY <2>1, <2>2, <2>3
<1>3. ControlUart = Joined(OverUart(ControlCommands), More)
  BY DEF ControlUart
<1> HIDE DEF More
<1> QED
  BY <1>1, <1>2, <1>3, JoinedQueries

ProductAsked ==
  [PH |-> PhAsked, ORP |-> OrpAsked, EC |-> EcAsked, DO |-> DoAsked, RTD |-> RtdAsked, HUM |-> HumAsked]

LEMMA AskedApart ==
  ASSUME NEW p \in Products
  PROVE  /\ DOMAIN ControlAsked \subseteq DOMAIN ControlUart
         /\ \A o \in DOMAIN ProductAsked[p] : o \notin DOMAIN ControlUart
<1>1. DOMAIN ControlUart
        = {"info_query", "name_query", "name_set", "status_query", "led_query", "led_set", "find",
           "protocol_lock_query", "protocol_lock_set", "baud_query", "response_code_query",
           "response_code_set"}
  BY DEF ControlUart, Joined, OverUart, ControlCommands
<1>2. DOMAIN ControlAsked \subseteq DOMAIN ControlUart
  BY <1>1 DEF ControlAsked
<1>3. CASE p = "PH"
  <2>1. \A o \in DOMAIN PhAsked : o \notin DOMAIN ControlUart
    BY <1>1 DEF PhAsked
  <2> QED
    BY <1>2, <1>3, <2>1 DEF ProductAsked
<1>4. CASE p = "ORP"
  <2>1. \A o \in DOMAIN OrpAsked : o \notin DOMAIN ControlUart
    BY <1>1 DEF OrpAsked
  <2> QED
    BY <1>2, <1>4, <2>1 DEF ProductAsked
<1>5. CASE p = "EC"
  <2>1. \A o \in DOMAIN EcAsked : o \notin DOMAIN ControlUart
    BY <1>1 DEF EcAsked
  <2> QED
    BY <1>2, <1>5, <2>1 DEF ProductAsked
<1>6. CASE p = "DO"
  <2>1. \A o \in DOMAIN DoAsked : o \notin DOMAIN ControlUart
    BY <1>1 DEF DoAsked
  <2> QED
    BY <1>2, <1>6, <2>1 DEF ProductAsked
<1>7. CASE p = "RTD"
  <2>1. \A o \in DOMAIN RtdAsked : o \notin DOMAIN ControlUart
    BY <1>1 DEF RtdAsked
  <2> QED
    BY <1>2, <1>7, <2>1 DEF ProductAsked
<1>8. CASE p = "HUM"
  <2>1. \A o \in DOMAIN HumAsked : o \notin DOMAIN ControlUart
    BY <1>1 DEF HumAsked
  <2> QED
    BY <1>2, <1>8, <2>1 DEF ProductAsked
<1> QED
  BY <1>3, <1>4, <1>5, <1>6, <1>7, <1>8 DEF Products

LEMMA JoinedFrom ==
  ASSUME NEW f, NEW g, NEW query, NEW more, Queries(f, query), Queries(g, more),
         NEW o \in DOMAIN Joined(f, g), NEW cmd \in Joined(f, g)[o].cmds,
         "DATA" \in ToSet(Joined(f, g)[o].lines)
  PROVE  (o \in DOMAIN query /\ cmd = query[o]) \/ (o \in DOMAIN more /\ cmd = more[o])
<1>1. CASE o \in DOMAIN f
  BY <1>1 DEF Queries, Joined
<1>2. CASE o \notin DOMAIN f
  BY <1>2 DEF Queries, Joined
<1> QED
  BY <1>1, <1>2

(* An operation that awaits a payload is a query of its product or of the  *)
(* control plane.                                                          *)
Asked(p, o, cmd) ==
  \/ o \in DOMAIN ProductAsked[p] /\ cmd = ProductAsked[p][o]
  \/ o \in DOMAIN ControlAsked /\ cmd = ControlAsked[o]

LEMMA OperationsAsk ==
  ASSUME NEW p \in Products, NEW b \in Buses, NEW o \in DOMAIN Operations(p, b),
         NEW cmd \in Operations(p, b)[o].cmds, "DATA" \in ToSet(Operations(p, b)[o].lines)
  PROVE  Asked(p, o, cmd)
<1>i. Queries(ControlI2c, ControlAsked)
  BY ControlI2cQueries
<1>u. Queries(ControlUart, ControlAsked)
  BY ControlUartQueries
<1>1. CASE p = "PH"
  <2>1. Queries(PhUart, PhAsked) /\ Queries(PhI2c, PhAsked)
    BY PhQueries, PhUartQueries, OverI2cQueries DEF PhI2c
  <2>2. ProductAsked[p] = PhAsked
    BY <1>1 DEF ProductAsked
  <2>3. Operations(p, b) \in {Joined(PhUart, ControlUart), Joined(PhI2c, ControlI2c)}
    BY <1>1 DEF Operations, OperationTable, ByBus, Buses
  <2> QED
    BY <1>i, <1>u, <2>1, <2>2, <2>3, JoinedFrom DEF Asked
<1>2. CASE p = "ORP"
  <2>1. Queries(OrpUart, OrpAsked) /\ Queries(OrpI2c, OrpAsked)
    BY OrpQueries, OverUartQueries, OverI2cQueries DEF OrpI2c, OrpUart
  <2>2. ProductAsked[p] = OrpAsked
    BY <1>2 DEF ProductAsked
  <2>3. Operations(p, b) \in {Joined(OrpUart, ControlUart), Joined(OrpI2c, ControlI2c)}
    BY <1>2 DEF Operations, OperationTable, ByBus, Buses
  <2> QED
    BY <1>i, <1>u, <2>1, <2>2, <2>3, JoinedFrom DEF Asked
<1>3. CASE p = "EC"
  <2>1. Queries(EcUart, EcAsked) /\ Queries(EcI2c, EcAsked)
    BY EcQueries, OverUartQueries, OverI2cQueries DEF EcI2c, EcUart
  <2>2. ProductAsked[p] = EcAsked
    BY <1>3 DEF ProductAsked
  <2>3. Operations(p, b) \in {Joined(EcUart, ControlUart), Joined(EcI2c, ControlI2c)}
    BY <1>3 DEF Operations, OperationTable, ByBus, Buses
  <2> QED
    BY <1>i, <1>u, <2>1, <2>2, <2>3, JoinedFrom DEF Asked
<1>4. CASE p = "DO"
  <2>1. Queries(DoUart, DoAsked) /\ Queries(DoI2c, DoAsked)
    BY DoQueries, OverUartQueries, OverI2cQueries DEF DoI2c, DoUart
  <2>2. ProductAsked[p] = DoAsked
    BY <1>4 DEF ProductAsked
  <2>3. Operations(p, b) \in {Joined(DoUart, ControlUart), Joined(DoI2c, ControlI2c)}
    BY <1>4 DEF Operations, OperationTable, ByBus, Buses
  <2> QED
    BY <1>i, <1>u, <2>1, <2>2, <2>3, JoinedFrom DEF Asked
<1>5. CASE p = "RTD"
  <2>1. Queries(RtdUart, RtdAsked) /\ Queries(RtdI2c, RtdAsked)
    BY RtdQueries, OverUartQueries, OverI2cQueries DEF RtdI2c, RtdUart
  <2>2. ProductAsked[p] = RtdAsked
    BY <1>5 DEF ProductAsked
  <2>3. Operations(p, b) \in {Joined(RtdUart, ControlUart), Joined(RtdI2c, ControlI2c)}
    BY <1>5 DEF Operations, OperationTable, ByBus, Buses
  <2> QED
    BY <1>i, <1>u, <2>1, <2>2, <2>3, JoinedFrom DEF Asked
<1>6. CASE p = "HUM"
  <2>1. Queries(HumUart, HumAsked) /\ Queries(HumI2c, HumAsked)
    BY HumQueries, OverUartQueries, OverI2cQueries DEF HumI2c, HumUart
  <2>2. ProductAsked[p] = HumAsked
    BY <1>6 DEF ProductAsked
  <2>3. Operations(p, b) \in {Joined(HumUart, ControlUart), Joined(HumI2c, ControlI2c)}
    BY <1>6 DEF Operations, OperationTable, ByBus, Buses
  <2> QED
    BY <1>i, <1>u, <2>1, <2>2, <2>3, JoinedFrom DEF Asked
<1> QED
  BY <1>1, <1>2, <1>3, <1>4, <1>5, <1>6 DEF Products

(* For every product, transport and query: the parser of the read helper   *)
(* takes every form of the circuit's answer for what the circuit meant,    *)
(* when it is given the mask and the scale that the circuit has; only a    *)
(* reading without an enabled output, more memory than there is room for,  *)
(* and four outputs in the vendor's form are refused.                      *)
THEOREM QueriesUnderstood ==
  ASSUME NEW p \in Products, NEW b \in Buses, NEW o \in DOMAIN Operations(p, b),
         NEW cmd \in Operations(p, b)[o].cmds, "DATA" \in ToSet(Operations(p, b)[o].lines),
         NEW m \in [DOMAIN Outputs[p] -> {"on", "off"}], NEW s, p = "RTD" => s \in Scales,
         NEW a \in Answers(p, cmd, m, s),
         NEW bits, Outputs[p] # <<>> /\ o \in {"read", "read_with_temp_comp"} => bits = m,
         NEW degree, p = "RTD" /\ o \in {"read", "memory_next", "memory_all"} => degree = s
  PROVE  Understood(p, o, a, m, Parse(p, o, a.text, bits, degree))
<1>1. Asked(p, o, cmd)
  BY OperationsAsk
<1>2. CASE o \in DOMAIN ControlAsked /\ cmd = ControlAsked[o]
  <2>1. Understood(p, o, a, m, ControlParse(o, a.text))
    BY <1>2, ControlUnderstood
  <2>2. o \in DOMAIN ControlUart
    BY <1>2, AskedApart
  <2> QED
    BY <2>1, <2>2 DEF Parse
<1>3. CASE o \in DOMAIN ProductAsked[p] /\ cmd = ProductAsked[p][o]
  <2>0. o \notin DOMAIN ControlUart
    BY <1>3, AskedApart
  <2>1. CASE p = "PH"
    <3>1. o \in DOMAIN PhAsked /\ a \in Answers("PH", PhAsked[o], m, s)
      BY <1>3, <2>1 DEF ProductAsked
    <3>2. Understood("PH", o, a, m, PhParse(o, a.text))
      BY <2>1, <3>1, PhUnderstood
    <3> QED
      BY <2>0, <2>1, <3>2 DEF Parse
  <2>2. CASE p = "ORP"
    <3>1. o \in DOMAIN OrpAsked /\ a \in Answers("ORP", OrpAsked[o], m, s)
      BY <1>3, <2>2 DEF ProductAsked
    <3>2. Understood("ORP", o, a, m, OrpParse(o, a.text))
      BY <2>2, <3>1, OrpUnderstood
    <3> QED
      BY <2>0, <2>2, <3>2 DEF Parse
  <2>3. CASE p = "EC"
    <3>1. o \in DOMAIN EcAsked /\ a \in Answers("EC", EcAsked[o], m, s)
      BY <1>3, <2>3 DEF ProductAsked
    <3>2. Outputs["EC"] = EcOutputs /\ EcOutputs # <<>>
      BY DEF Outputs, EcOutputs
    <3>3. Understood("EC", o, a, m, EcParse(o, a.text, bits))
      BY <2>3, <3>1, <3>2, EcUnderstood
    <3> QED
      BY <2>0, <2>3, <3>3 DEF Parse
  <2>4. CASE p = "DO"
    <3>1. o \in DOMAIN DoAsked /\ a \in Answers("DO", DoAsked[o], m, s)
      BY <1>3, <2>4 DEF ProductAsked
    <3>2. Outputs["DO"] = DoOutputs /\ DoOutputs # <<>>
      BY DEF Outputs, DoOutputs
    <3>3. Understood("DO", o, a, m, DoParse(o, a.text, bits))
      BY <2>4, <3>1, <3>2, DoUnderstood
    <3> QED
      BY <2>0, <2>4, <3>3 DEF Parse
  <2>5. CASE p = "RTD"
    <3>1. o \in DOMAIN RtdAsked /\ a \in Answers("RTD", RtdAsked[o], m, s)
      BY <1>3, <2>5 DEF ProductAsked
    <3>2. Understood("RTD", o, a, m, RtdParse(o, a.text, degree))
      BY <2>5, <3>1, RtdUnderstood
    <3> QED
      BY <2>0, <2>5, <3>2 DEF Parse
  <2>6. CASE p = "HUM"
    <3>1. o \in DOMAIN HumAsked /\ a \in Answers("HUM", HumAsked[o], m, s)
      BY <1>3, <2>6 DEF ProductAsked
    <3>2. Outputs["HUM"] = HumOutputs /\ HumOutputs # <<>>
      BY DEF Outputs, HumOutputs
    <3>3. Understood("HUM", o, a, m, HumParse(o, a.text, bits))
      BY <2>6, <3>1, <3>2, HumUnderstood
    <3> QED
      BY <2>0, <2>6, <3>3 DEF Parse
  <2> QED
    BY <2>1, <2>2, <2>3, <2>4, <2>5, <2>6 DEF Products
<1> QED
  BY <1>1, <1>2, <1>3 DEF Asked

(* For every product, transport and query: whatever text the parser of the *)
(* read helper takes, its head is that of an answer to this query.         *)
THEOREM ParsersTakeTheirOwn ==
  ASSUME NEW p \in Products, NEW b \in Buses, NEW o \in DOMAIN Operations(p, b),
         Operations(p, b)[o].cmds # {}, "DATA" \in ToSet(Operations(p, b)[o].lines),
         NEW text, IsText(text), NEW bits, NEW degree
  PROVE  Takes(p, o, text, Parse(p, o, text, bits, degree))
<1>1. PICK cmd \in Operations(p, b)[o].cmds : TRUE
  OBVIOUS
<1>2. Asked(p, o, cmd)
  BY OperationsAsk
<1>3. CASE o \in DOMAIN ControlAsked
  <2>1. Takes(p, o, text, ControlParse(o, text))
    BY <1>3, ControlParseOwn DEF ControlAsked
  <2>2. o \in DOMAIN ControlUart
    BY <1>3, AskedApart
  <2> QED
    BY <2>1, <2>2 DEF Parse
<1>4. CASE o \in DOMAIN ProductAsked[p]
  <2>0. o \notin DOMAIN ControlUart
    BY <1>4, AskedApart
  <2>1. CASE p = "PH"
    <3>1. o \in DOMAIN PhAsked
      BY <1>4, <2>1 DEF ProductAsked
    <3>2. Takes("PH", o, text, PhParse(o, text))
      BY <3>1, PhParseOwn DEF PhAsked
    <3> QED
      BY <2>0, <2>1, <3>2 DEF Parse
  <2>2. CASE p = "ORP"
    <3>1. o \in DOMAIN OrpAsked
      BY <1>4, <2>2 DEF ProductAsked
    <3>2. Takes("ORP", o, text, OrpParse(o, text))
      BY <3>1, OrpParseOwn DEF OrpAsked
    <3> QED
      BY <2>0, <2>2, <3>2 DEF Parse
  <2>3. CASE p = "EC"
    <3>1. o \in DOMAIN EcAsked
      BY <1>4, <2>3 DEF ProductAsked
    <3>2. Takes("EC", o, text, EcParse(o, text, bits))
      BY <3>1, EcParseOwn DEF EcAsked
    <3> QED
      BY <2>0, <2>3, <3>2 DEF Parse
  <2>4. CASE p = "DO"
    <3>1. o \in DOMAIN DoAsked
      BY <1>4, <2>4 DEF ProductAsked
    <3>2. Takes("DO", o, text, DoParse(o, text, bits))
      BY <3>1, DoParseOwn DEF DoAsked
    <3> QED
      BY <2>0, <2>4, <3>2 DEF Parse
  <2>5. CASE p = "RTD"
    <3>1. o \in DOMAIN RtdAsked
      BY <1>4, <2>5 DEF ProductAsked
    <3>2. Takes("RTD", o, text, RtdParse(o, text, degree))
      BY <3>1, RtdParseOwn DEF RtdAsked
    <3> QED
      BY <2>0, <2>5, <3>2 DEF Parse
  <2>6. CASE p = "HUM"
    <3>1. o \in DOMAIN HumAsked
      BY <1>4, <2>6 DEF ProductAsked
    <3>2. Takes("HUM", o, text, HumParse(o, text, bits))
      BY <3>1, HumParseOwn DEF HumAsked
    <3> QED
      BY <2>0, <2>6, <3>2 DEF Parse
  <2> QED
    BY <2>1, <2>2, <2>3, <2>4, <2>5, <2>6 DEF Products
<1> QED
  BY <1>2, <1>3, <1>4 DEF Asked

(* What a program learns of the configuration is one.                      *)
LEMMA ConfigurationParsed ==
  ASSUME NEW p \in Products, NEW b \in Buses, NEW o \in DOMAIN Operations(p, b),
         Operations(p, b)[o].cmds # {}, "DATA" \in ToSet(Operations(p, b)[o].lines),
         NEW text, NEW bits, NEW degree, Parse(p, o, text, bits, degree).result = "OK"
  PROVE  /\ o = "output_query" =>
              Parse(p, o, text, bits, degree).value \in [DOMAIN Outputs[p] -> {"on", "off"}]
         /\ o = "scale_query" => Parse(p, o, text, bits, degree).value[1] \in Scales
<1>1. PICK cmd \in Operations(p, b)[o].cmds : TRUE
  OBVIOUS
<1>2. Asked(p, o, cmd)
  BY OperationsAsk
<1>3. CASE o = "output_query"
  <2>1. o \notin DOMAIN ControlAsked /\ o \in DOMAIN ProductAsked[p] /\ o \notin DOMAIN ControlUart
    BY <1>2, <1>3, AskedApart DEF Asked, ControlAsked
  <2>2. p \in {"EC", "DO", "HUM"}
    BY <1>3, <2>1 DEF ProductAsked, Products, PhAsked, OrpAsked, RtdAsked
  <2>3. ASSUME NEW wanted, OutputConfig(text, wanted).result = "OK"
        PROVE  OutputConfig(text, wanted).value \in [DOMAIN wanted -> {"on", "off"}]
    BY <2>3 DEF OutputConfig, ParseQuery, Parsed, Refused
  <2>4. CASE p = "EC"
    BY <1>3, <2>1, <2>3, <2>4 DEF Parse, EcParse, Outputs
  <2>5. CASE p = "HUM"
    BY <1>3, <2>1, <2>3, <2>5 DEF Parse, HumParse, Outputs
  <2>6. CASE p = "DO"
    <3>1. Parse(p, o, text, bits, degree) = DoOutputConfig(text)
      BY <1>3, <2>1, <2>6 DEF Parse, DoParse
    <3>2. DoOutputConfig(text).value \in [DOMAIN DoOutputs -> {"on", "off"}]
      BY <3>1 DEF DoOutputConfig, ParseQuery, Parsed, Refused
    <3> QED
      BY <1>3, <2>6, <3>1, <3>2 DEF Outputs
  <2> QED
    BY <1>3, <2>2, <2>4, <2>5, <2>6
<1>4. CASE o = "scale_query"
  <2>1. o \notin DOMAIN ControlAsked /\ o \in DOMAIN ProductAsked[p] /\ o \notin DOMAIN ControlUart
    BY <1>2, <1>4, AskedApart DEF Asked, ControlAsked
  <2>2. p = "RTD"
    <3>1. "scale_query" \notin DOMAIN PhAsked /\ "scale_query" \notin DOMAIN OrpAsked
      BY DEF PhAsked, OrpAsked
    <3>2. "scale_query" \notin DOMAIN EcAsked /\ "scale_query" \notin DOMAIN DoAsked
      BY DEF EcAsked, DoAsked
    <3>3. "scale_query" \notin DOMAIN HumAsked
      BY DEF HumAsked
    <3> QED
      BY <1>4, <2>1, <3>1, <3>2, <3>3 DEF ProductAsked, Products
  <2>3. Parse(p, o, text, bits, degree) = Exactly(text, {"?S"}, <<Scales>>)
    BY <1>4, <2>1, <2>2 DEF Parse, RtdParse
  <2> DEFINE accepted == <<Scales>>
             heads == {"?S"}
  <2>4. 1 \in DOMAIN accepted /\ accepted[1] = Scales
    OBVIOUS
  <2>e. Exactly(text, heads, accepted).result = "OK"
    BY <2>3
  <2> HIDE DEF accepted, heads
  <2>5. Exactly(text, heads, accepted).value = Tail(text) /\ Tail(text)[1] \in accepted[1]
    <3>1. /\ Exactly(text, heads, accepted).value = Tail(text)
          /\ \A i \in DOMAIN accepted : Tail(text)[i] \in accepted[i]
      BY <2>e, ExactlyChecks
    <3> QED
      BY <2>4, <3>1
  <2> QED
    BY <1>4, <2>3, <2>4, <2>5 DEF accepted, heads
<1> QED
  BY <1>3, <1>4

(* The queries of the configuration are answered with the configuration,   *)
(* and a payload is no answer to a command that sets it.                   *)
LEMMA ConfigurationAnswered ==
  ASSUME NEW p \in Products, NEW b \in Buses, NEW o \in DOMAIN Operations(p, b),
         NEW cmd \in Operations(p, b)[o].cmds, "DATA" \in ToSet(Operations(p, b)[o].lines),
         NEW m, NEW s, NEW a \in Answers(p, cmd, m, s)
  PROVE  /\ o \notin {"output_set", "scale_set"}
         /\ o = "output_query" => a.means = m
         /\ o = "scale_query" => a.means[1] = s
<1>1. Asked(p, o, cmd)
  BY OperationsAsk
<1>2. "output_set" \notin DOMAIN ControlAsked /\ "scale_set" \notin DOMAIN ControlAsked
      /\ "output_query" \notin DOMAIN ControlAsked /\ "scale_query" \notin DOMAIN ControlAsked
  BY DEF ControlAsked
<1>3. o \notin {"output_set", "scale_set"}
  <2>1. \A q \in {"output_set", "scale_set"} :
          /\ q \notin DOMAIN PhAsked /\ q \notin DOMAIN OrpAsked /\ q \notin DOMAIN EcAsked
          /\ q \notin DOMAIN DoAsked /\ q \notin DOMAIN RtdAsked /\ q \notin DOMAIN HumAsked
    BY DEF PhAsked, OrpAsked, EcAsked, DoAsked, RtdAsked, HumAsked
  <2> QED
    BY <1>1, <1>2, <2>1 DEF Asked, ProductAsked, Products
<1>4. ASSUME o = "output_query"
      PROVE  a.means = m
  <2>1. o \in DOMAIN ProductAsked[p] /\ cmd = ProductAsked[p][o]
    BY <1>1, <1>2, <1>4 DEF Asked
  <2>2. /\ "output_query" \notin DOMAIN PhAsked /\ "output_query" \notin DOMAIN OrpAsked
        /\ "output_query" \notin DOMAIN RtdAsked
    BY DEF PhAsked, OrpAsked, RtdAsked
  <2>3. /\ EcAsked["output_query"] = <<"O", "?">> /\ DoAsked["output_query"] = <<"O", "?">>
        /\ HumAsked["output_query"] = <<"O", "?">>
    BY DEF EcAsked, DoAsked, HumAsked
  <2>4. cmd = <<"O", "?">>
    BY <1>4, <2>1, <2>2, <2>3 DEF ProductAsked, Products
  <2>5. Answers(p, <<"O", "?">>, m, s) = OutputAnswers(p, m)
    BY DEF Answers, ProductAnswers, ControlWords
  <2> QED
    BY <2>4, <2>5, OutputAnswerIs
<1>5. ASSUME o = "scale_query"
      PROVE  a.means[1] = s
  <2>1. o \in DOMAIN ProductAsked[p] /\ cmd = ProductAsked[p][o]
    BY <1>1, <1>2, <1>5 DEF Asked
  <2>2. /\ "scale_query" \notin DOMAIN PhAsked /\ "scale_query" \notin DOMAIN OrpAsked
        /\ "scale_query" \notin DOMAIN EcAsked /\ "scale_query" \notin DOMAIN DoAsked
        /\ "scale_query" \notin DOMAIN HumAsked
    BY DEF PhAsked, OrpAsked, EcAsked, DoAsked, HumAsked
  <2>3. p = "RTD"
    BY <1>5, <2>1, <2>2 DEF ProductAsked, Products
  <2>4. cmd = <<"S", "?">>
    <3>1. cmd = RtdAsked["scale_query"]
      BY <1>5, <2>1, <2>3 DEF ProductAsked
    <3> QED
      BY <3>1 DEF RtdAsked
  <2>5. Answers("RTD", <<"S", "?">>, m, s) = Labelled({"?S"}, {<<s>>})
    BY DEF Answers, ProductAnswers, ControlWords
  <2>6. a.means = <<s>>
    BY <2>3, <2>4, <2>5, LabelledIs
  <2> QED
    BY <2>6
<1> QED
  BY <1>3, <1>4, <1>5

(* The scale is asked for and set by RTD alone. *)
LEMMA ScaleOperations ==
  ASSUME NEW p \in Products, NEW b \in Buses
  PROVE  /\ "scale_query" \in DOMAIN Operations(p, b) =>
              "DATA" \in ToSet(Operations(p, b)["scale_query"].lines)
         /\ "scale_set" \in DOMAIN Operations(p, b) =>
              \A cmd \in Operations(p, b)["scale_set"].cmds : cmd[2] \in Scales
<1> DEFINE none == {"scale_query", "scale_set"}
<1>c. \A o \in none : o \notin DOMAIN ControlUart /\ o \notin DOMAIN ControlI2c
  BY DEF ControlUart, ControlI2c, Joined, OverUart, OverI2c, ControlCommands
<1>j. ASSUME NEW f, NEW g, \A o \in none : o \notin DOMAIN f /\ o \notin DOMAIN g
      PROVE  \A o \in none : o \notin DOMAIN Joined(f, g)
  BY <1>j DEF Joined
<1>1. CASE p \in {"PH", "ORP"}
  <2>1. \A o \in none : /\ o \notin DOMAIN PhUart /\ o \notin DOMAIN PhI2c
                        /\ o \notin DOMAIN OrpUart /\ o \notin DOMAIN OrpI2c
    BY DEF PhUart, PhI2c, OrpUart, OrpI2c, OverUart, OverI2c, PhCommands, OrpCommands
  <2>2. \A o \in none : o \notin DOMAIN Operations(p, b)
    <3> HIDE DEF none
    <3> QED
      BY <1>1, <1>c, <1>j, <2>1 DEF Operations, OperationTable, ByBus, Buses
  <2> QED
    BY <2>2
<1>2. CASE p \in {"EC", "DO", "HUM"}
  <2>1. \A o \in none : /\ o \notin DOMAIN EcUart /\ o \notin DOMAIN EcI2c
                        /\ o \notin DOMAIN HumUart /\ o \notin DOMAIN HumI2c
    BY DEF EcUart, EcI2c, HumUart, HumI2c, OverUart, OverI2c, EcCommands, HumCommands
  <2>2. \A o \in none : o \notin DOMAIN DoUart /\ o \notin DOMAIN DoI2c
    BY DEF DoUart, DoI2c, OverUart, OverI2c, DoCommands
  <2>3. \A o \in none : o \notin DOMAIN Operations(p, b)
    <3> HIDE DEF none
    <3> QED
      BY <1>2, <1>c, <1>j, <2>1, <2>2 DEF Operations, OperationTable, ByBus, Buses
  <2> QED
    BY <2>3
<1>3. CASE p = "RTD"
  <2>1. /\ RtdCommands["scale_query"].reply = "DATA"
        /\ RtdCommands["scale_set"].cmds = {<<"S", s>> : s \in Scales}
        /\ {"scale_query", "scale_set"} \subseteq DOMAIN RtdCommands
    BY DEF RtdCommands, Ask, Tell, Query, Command
  <2>2. /\ RtdUart["scale_query"].lines = <<"DATA", "OK">> /\ RtdI2c["scale_query"].lines = <<"DATA">>
        /\ RtdUart["scale_set"].cmds = {<<"S", s>> : s \in Scales}
        /\ RtdI2c["scale_set"].cmds = {<<"S", s>> : s \in Scales}
        /\ DOMAIN RtdUart = DOMAIN RtdCommands /\ DOMAIN RtdI2c = DOMAIN RtdCommands
    BY <2>1 DEF RtdUart, RtdI2c, OverUart, OverI2c
  <2>3. Operations(p, b) \in {Joined(RtdUart, ControlUart), Joined(RtdI2c, ControlI2c)}
    BY <1>3 DEF Operations, OperationTable, ByBus, Buses
  <2>4. /\ Operations(p, b)["scale_query"].lines \in {<<"DATA", "OK">>, <<"DATA">>}
        /\ Operations(p, b)["scale_set"].cmds = {<<"S", s>> : s \in Scales}
    BY <2>1, <2>2, <2>3 DEF Joined
  <2>5. "DATA" \in ToSet(<<"DATA", "OK">>) /\ "DATA" \in ToSet(<<"DATA">>)
    BY DEF ToSet
  <2> QED
    BY <2>4, <2>5
<1> QED
  BY <1>1, <1>2, <1>3 DEF Products

-----------------------------------------------------------------------------
(***************************************************************************)
(* The invariant.                                                          *)
(***************************************************************************)
ScalesOf(p) == IF p = "RTD" THEN Scales ELSE Scales \cup {"none"}

(* A payload of an answer to cmd, given under mask m and scale s. *)
PayloadOf(p, cmd, m, s, l) ==
  l.to = cmd /\ \E a \in Answers(p, cmd, m, s) : l.text = a.text /\ l.means = a.means

(* A line of a reply to some command that some operation sends. *)
IsLine(p, b, l) ==
  /\ l.kind \in {"DATA", "OK", "ERROR"}
  /\ l.kind = "DATA" =>
       \E o \in DOMAIN Operations(p, b) : \E cmd \in Operations(p, b)[o].cmds :
         /\ "DATA" \in ToSet(Operations(p, b)[o].lines)
         /\ \E m \in Masks(p), s \in ScalesOf(p) : PayloadOf(p, cmd, m, s, l)

IsLines(p, b, q) == IsText(q) /\ \A i \in 1 .. Len(q) : IsLine(p, b, q[i])

(* Line i of the reply to cmd, from a circuit with mask m and scale s. *)
LineOf(p, b, cmd, m, s, i, l) ==
  /\ l.kind = ReplyLines(p, b, cmd)[i]
  /\ l.kind = "DATA" => PayloadOf(p, cmd, m, s, l)

Begins(p, b, cmd, m, s, q) ==
  /\ Len(q) <= Len(ReplyLines(p, b, cmd))
  /\ \A i \in 1 .. Len(q) : LineOf(p, b, cmd, m, s, i, q[i])

(* What a phase says of the operation in progress: it has been told what   *)
(* its read helper will need.                                              *)
InProgress ==
  /\ asked \in DOMAIN Operations(product, bus) /\ command \in Operation(asked).cmds
  /\ NeedsMask(asked) => mask # Unknown
  /\ NeedsUnit(asked) => unit # "unknown"

Stages ==
  /\ phase \in {"wait", "read"} => InProgress
  /\ scale \in ScalesOf(product)
  /\ phase = "failed" => careful

Lines == IsLines(product, bus, coming) /\ IsLines(product, bus, arrived)

(* While no reply is late, a reply is what is on the line, and nothing else. *)
HasKinds(q, kinds) == Len(q) = Len(kinds) /\ \A i \in 1 .. Len(kinds) : q[i].kind = kinds[i]

InStep ==
  late = 0 =>
    /\ phase \in {"idle", "failed"} => arrived = <<>> /\ coming = <<>>
    /\ phase = "wait" => arrived = <<>> /\ HasKinds(coming, Expected)
    /\ phase = "read" => coming = <<>> /\ HasKinds(arrived, Expected)

(* A careful program knows the configuration or does not, and the line     *)
(* holds the reply to its latest command, from the circuit as it is.       *)
Fresh ==
  careful =>
    /\ mask \in {Unknown, outputs} /\ unit \in {"unknown", scale}
    /\ phase = "idle" => arrived = <<>> /\ coming = <<>>
    /\ phase = "wait" =>
         /\ arrived = <<>> /\ Len(coming) = Len(ReplyLines(product, bus, command))
         /\ Begins(product, bus, command, outputs, scale, coming)
    /\ phase = "read" =>
         /\ Len(arrived) + Len(coming) = Len(ReplyLines(product, bus, command))
         /\ Begins(product, bus, command, outputs, scale, arrived)

(* The latest result kept its promises. *)
Kept == OwnAnswer /\ MeansWhatItSays /\ QuietSucceeds

TypedInv == TypedTypeOK /\ Stages /\ Lines /\ InStep /\ Fresh /\ Kept
-----------------------------------------------------------------------------
(***************************************************************************)
(* Lines.                                                                  *)
(***************************************************************************)
LEMMA EmptyText == IsText(<<>>) /\ Len(<<>>) = 0
<1>1. <<>> \in Seq({})
  OBVIOUS
<1> QED
  BY <1>1, TextOf

LEMMA EmptyWhenNone == ASSUME NEW q, IsText(q), Len(q) = 0 PROVE q = <<>>
<1> DEFINE S == {q[i] : i \in 1 .. Len(q)}
<1>1. q \in Seq(S)
  BY DEF IsText
<1> HIDE DEF S
<1> QED
  BY <1>1, EmptySeq

LEMMA TextFrom ==
  ASSUME NEW q, IsText(q), NEW S, \A i \in 1 .. Len(q) : q[i] \in S
  PROVE  q \in Seq(S)
<1>1. Len(q) \in Nat /\ DOMAIN q = 1 .. Len(q)
  BY TextFacts
<1> DEFINE T == {q[i] : i \in 1 .. Len(q)}
<1>2. q \in Seq(T)
  BY DEF IsText
<1> HIDE DEF T
<1>3. q \in [1 .. Len(q) -> T]
  BY <1>2, LenProperties
<1>4. q \in [1 .. Len(q) -> S]
  BY <1>3
<1> QED
  BY <1>1, <1>4

LEMMA TextConcat ==
  ASSUME NEW x, IsText(x), NEW y, IsText(y)
  PROVE  /\ IsText(x \o y) /\ Len(x \o y) = Len(x) + Len(y)
         /\ \A i \in 1 .. Len(x) : (x \o y)[i] = x[i]
         /\ \A i \in Len(x) + 1 .. Len(x) + Len(y) : (x \o y)[i] = y[i - Len(x)]
         /\ x = <<>> => x \o y = y
<1> DEFINE S == {x[i] : i \in 1 .. Len(x)} \cup {y[i] : i \in 1 .. Len(y)}
<1>0. Len(x) \in Nat /\ Len(y) \in Nat
  BY TextFacts
<1>1. (\A i \in 1 .. Len(x) : x[i] \in S) /\ (\A i \in 1 .. Len(y) : y[i] \in S)
  OBVIOUS
<1> HIDE DEF S
<1>2. x \in Seq(S) /\ y \in Seq(S)
  BY <1>1, TextFrom
<1>3. /\ x \o y \in Seq(S) /\ Len(x \o y) = Len(x) + Len(y)
      /\ \A i \in 1 .. Len(x) + Len(y) : (x \o y)[i] = IF i <= Len(x) THEN x[i] ELSE y[i - Len(x)]
  BY <1>2, ConcatProperties
<1>4. IsText(x \o y)
  BY <1>3, TextOf
<1>5. x = <<>> => x \o y = y
  BY <1>2, ConcatEmptySeq
<1>6. \A i \in 1 .. Len(x) : (x \o y)[i] = x[i]
  BY <1>0, <1>3
<1>7. \A i \in Len(x) + 1 .. Len(x) + Len(y) : (x \o y)[i] = y[i - Len(x)]
  BY <1>0, <1>3
<1> QED
  BY <1>3, <1>4, <1>5, <1>6, <1>7

LEMMA TextSub ==
  ASSUME NEW x, IsText(x), NEW m \in Nat \ {0}, NEW n \in Nat, n <= Len(x)
  PROVE  /\ IsText(SubSeq(x, m, n))
         /\ Len(SubSeq(x, m, n)) = IF m <= n THEN n - m + 1 ELSE 0
         /\ \A i \in 1 .. Len(SubSeq(x, m, n)) : /\ SubSeq(x, m, n)[i] = x[m + i - 1]
                                                 /\ m + i - 1 \in 1 .. Len(x)
<1> DEFINE S == {x[i] : i \in 1 .. Len(x)}
           q == SubSeq(x, m, n)
<1>0. Len(x) \in Nat
  BY TextFacts
<1>1. m \in Int /\ n \in Int /\ \A i \in m .. n : x[i] \in S
  BY <1>0
<1> HIDE DEF S
<1>2. /\ q \in Seq(S) /\ Len(q) = IF m <= n THEN n - m + 1 ELSE 0
      /\ \A i \in 1 .. n - m + 1 : q[i] = x[m + i - 1]
  BY <1>1, SubSeqProperties
<1>3. IsText(q)
  BY <1>2, TextOf
<1> HIDE DEF q
<1>4. \A i \in 1 .. Len(q) : q[i] = x[m + i - 1] /\ m + i - 1 \in 1 .. Len(x)
  BY <1>0, <1>2
<1> QED
  BY <1>2, <1>3, <1>4 DEF q

LEMMA LinesConcat ==
  ASSUME NEW p, NEW b, NEW x, IsLines(p, b, x), NEW y, IsLines(p, b, y)
  PROVE  IsLines(p, b, x \o y)
<1>0. IsText(x) /\ IsText(y) /\ Len(x) \in Nat /\ Len(y) \in Nat
  BY TextFacts DEF IsLines
<1>1. /\ IsText(x \o y) /\ Len(x \o y) = Len(x) + Len(y)
      /\ \A i \in 1 .. Len(x) : (x \o y)[i] = x[i]
      /\ \A i \in Len(x) + 1 .. Len(x) + Len(y) : (x \o y)[i] = y[i - Len(x)]
  BY <1>0, TextConcat
<1>2. ASSUME NEW i \in 1 .. Len(x \o y)
      PROVE  IsLine(p, b, (x \o y)[i])
  <2>1. CASE i <= Len(x)
    BY <1>0, <1>1, <2>1 DEF IsLines
  <2>2. CASE i > Len(x)
    <3>1. i - Len(x) \in 1 .. Len(y) /\ (x \o y)[i] = y[i - Len(x)]
      BY <1>0, <1>1, <2>2
    <3> QED
      BY <3>1 DEF IsLines
  <2> QED
    BY <1>0, <1>1, <2>1, <2>2
<1> QED
  BY <1>1, <1>2 DEF IsLines

LEMMA LinesSub ==
  ASSUME NEW p, NEW b, NEW x, IsLines(p, b, x), NEW m \in Nat \ {0}, NEW n \in Nat, n <= Len(x)
  PROVE  IsLines(p, b, SubSeq(x, m, n))
<1>1. IsText(x)
  BY DEF IsLines
<1>2. /\ IsText(SubSeq(x, m, n))
      /\ \A i \in 1 .. Len(SubSeq(x, m, n)) : /\ SubSeq(x, m, n)[i] = x[m + i - 1]
                                              /\ m + i - 1 \in 1 .. Len(x)
  BY <1>1, TextSub
<1> QED
  BY <1>2 DEF IsLines

LEMMA NoLines == ASSUME NEW p, NEW b PROVE IsLines(p, b, <<>>)
BY EmptyText DEF IsLines

-----------------------------------------------------------------------------
(***************************************************************************)
(* Replies.                                                                *)
(***************************************************************************)
LEMMA ReplyShapes ==
  ASSUME NEW p, NEW b, NEW cmd
  PROVE  ReplyLines(p, b, cmd) \in {<<"ERROR">>, <<"OK">>, <<"DATA">>, <<"OK", "DATA">>, <<"DATA", "OK">>}
BY DEF ReplyLines

(* What the operations expect is what the circuit sends. *)
LEMMA Expects ==
  ASSUME NEW p \in Products, NEW b \in Buses, NEW o \in DOMAIN Operations(p, b),
         NEW cmd \in Operations(p, b)[o].cmds
  PROVE  /\ Operations(p, b)[o].lines = ReplyLines(p, b, cmd)
         /\ ProcessingTime(p, b, cmd) <= ResolveTimingHint(p, b, Operations(p, b)[o].kind)
BY OperationsFit DEF Fits

LEMMA ShapeFacts ==
  ASSUME NEW kinds \in {<<"ERROR">>, <<"OK">>, <<"DATA">>, <<"OK", "DATA">>, <<"DATA", "OK">>}
  PROVE  /\ Len(kinds) \in 1 .. 2 /\ DOMAIN kinds = 1 .. Len(kinds)
         /\ \A i \in 1 .. Len(kinds) : kinds[i] \in {"DATA", "OK", "ERROR"}
         /\ ToSet(kinds) = {kinds[i] : i \in 1 .. Len(kinds)}
BY DEF ToSet

(* ReplyTo, as a function of the circuit. *)
SentReply(p, b, cmd, answer) ==
  LET kinds == ReplyLines(p, b, cmd) IN
  [i \in DOMAIN kinds |->
     [kind |-> kinds[i], to |-> cmd,
      text |-> IF kinds[i] = "DATA" THEN answer.text ELSE <<>>,
      means |-> IF kinds[i] = "DATA" THEN answer.means ELSE <<>>]]

LEMMA SentIs ==
  ASSUME NEW p, NEW b, NEW cmd, NEW answer
  PROVE  LET q == SentReply(p, b, cmd, answer) IN
         /\ IsText(q) /\ Len(q) = Len(ReplyLines(p, b, cmd)) /\ Len(q) \in 1 .. 2
         /\ \A i \in 1 .. Len(q) :
              /\ q[i].kind = ReplyLines(p, b, cmd)[i] /\ q[i].kind \in {"DATA", "OK", "ERROR"}
              /\ q[i].to = cmd
              /\ q[i].kind = "DATA" => q[i].text = answer.text /\ q[i].means = answer.means
<1> DEFINE kinds == ReplyLines(p, b, cmd)
           q == SentReply(p, b, cmd, answer)
           line(i) == [kind |-> kinds[i], to |-> cmd,
                       text |-> IF kinds[i] = "DATA" THEN answer.text ELSE <<>>,
                       means |-> IF kinds[i] = "DATA" THEN answer.means ELSE <<>>]
           S == {line(i) : i \in 1 .. Len(kinds)}
<1>1. /\ Len(kinds) \in 1 .. 2 /\ DOMAIN kinds = 1 .. Len(kinds)
      /\ \A i \in 1 .. Len(kinds) : kinds[i] \in {"DATA", "OK", "ERROR"}
  <2>1. kinds \in {<<"ERROR">>, <<"OK">>, <<"DATA">>, <<"OK", "DATA">>, <<"DATA", "OK">>}
    BY ReplyShapes
  <2> HIDE DEF kinds
  <2> QED
    BY <2>1, ShapeFacts
<1>2. q = [i \in DOMAIN kinds |-> line(i)]
  BY DEF SentReply
<1> HIDE DEF kinds, q
<1>3. \A i \in 1 .. Len(kinds) : q[i] = line(i)
  BY <1>1, <1>2
<1>4. q \in [1 .. Len(kinds) -> S]
  BY <1>1, <1>2
<1> HIDE DEF S
<1>5. q \in Seq(S) /\ Len(q) = Len(kinds)
  BY <1>1, <1>4
<1>6. IsText(q)
  BY <1>5, TextOf
<1>7. ASSUME NEW i \in 1 .. Len(q)
      PROVE  /\ q[i].kind = kinds[i] /\ q[i].kind \in {"DATA", "OK", "ERROR"} /\ q[i].to = cmd
             /\ q[i].kind = "DATA" => q[i].text = answer.text /\ q[i].means = answer.means
  <2>1. i \in 1 .. Len(kinds) /\ q[i] = line(i)
    BY <1>3, <1>5
  <2>2. line(i).kind = kinds[i] /\ line(i).to = cmd
    OBVIOUS
  <2>3. kinds[i] = "DATA" => line(i).text = answer.text /\ line(i).means = answer.means
    OBVIOUS
  <2> HIDE DEF line
  <2> QED
    BY <1>1, <2>1, <2>2, <2>3
<1> QED
  BY <1>1, <1>5, <1>6, <1>7 DEF kinds, q

(* The replies to a command, from a circuit with mask m and scale s. *)
Reply(p, b, cmd, m, s, q) ==
  IF "DATA" \in ToSet(ReplyLines(p, b, cmd))
  THEN \E a \in Answers(p, cmd, m, s) : q = SentReply(p, b, cmd, a)
  ELSE q = SentReply(p, b, cmd, NoLine)

LEMMA RepliesAre ==
  ASSUME NEW cmd, NEW q \in Replies(cmd)
  PROVE  Reply(product, bus, cmd, outputs, scale, q)
BY DEF Replies, Reply, ReplyTo, SentReply

LEMMA ReplyIs ==
  ASSUME NEW p \in Products, NEW b \in Buses, NEW o \in DOMAIN Operations(p, b),
         NEW cmd \in Operations(p, b)[o].cmds, NEW m \in Masks(p), NEW s \in ScalesOf(p),
         NEW q, Reply(p, b, cmd, m, s, q)
  PROVE  /\ IsLines(p, b, q) /\ HasKinds(q, Operations(p, b)[o].lines)
         /\ Len(q) = Len(ReplyLines(p, b, cmd)) /\ Begins(p, b, cmd, m, s, q)
<1>1. Operations(p, b)[o].lines = ReplyLines(p, b, cmd)
  BY Expects
<1> DEFINE kinds == ReplyLines(p, b, cmd)
<1>k. /\ Len(kinds) \in 1 .. 2 /\ DOMAIN kinds = 1 .. Len(kinds)
      /\ ToSet(kinds) = {kinds[i] : i \in 1 .. Len(kinds)}
  <2>1. kinds \in {<<"ERROR">>, <<"OK">>, <<"DATA">>, <<"OK", "DATA">>, <<"DATA", "OK">>}
    BY ReplyShapes
  <2> HIDE DEF kinds
  <2> QED
    BY <2>1, ShapeFacts
<1>2. /\ IsText(q) /\ Len(q) = Len(kinds) /\ Len(q) \in 1 .. 2
      /\ \A i \in 1 .. Len(q) : q[i].kind = kinds[i] /\ q[i].kind \in {"DATA", "OK", "ERROR"}
  BY SentIs DEF Reply
<1>3. ASSUME NEW i \in 1 .. Len(q), q[i].kind = "DATA"
      PROVE  PayloadOf(p, cmd, m, s, q[i]) /\ "DATA" \in ToSet(kinds)
  <2>1. "DATA" \in ToSet(kinds)
    BY <1>k, <1>2, <1>3
  <2>2. PICK a \in Answers(p, cmd, m, s) : q = SentReply(p, b, cmd, a)
    BY <2>1 DEF Reply
  <2>3. q[i].to = cmd /\ q[i].text = a.text /\ q[i].means = a.means
    BY <1>3, <2>2, SentIs
  <2> QED
    BY <2>1, <2>3 DEF PayloadOf
<1> HIDE DEF kinds
<1>4. IsLines(p, b, q)
  <2> SUFFICES ASSUME NEW i \in 1 .. Len(q)
               PROVE  IsLine(p, b, q[i])
    BY <1>2 DEF IsLines
  <2>1. q[i].kind = "DATA" =>
          "DATA" \in ToSet(Operations(p, b)[o].lines) /\ PayloadOf(p, cmd, m, s, q[i])
    BY <1>1, <1>3 DEF kinds
  <2> QED
    BY <1>2, <2>1 DEF IsLine
<1>5. HasKinds(q, kinds)
  BY <1>2 DEF HasKinds
<1>6. Begins(p, b, cmd, m, s, q)
  BY <1>2, <1>3, <1>k DEF Begins, LineOf, kinds
<1> QED
  BY <1>1, <1>2, <1>4, <1>5, <1>6 DEF kinds

-----------------------------------------------------------------------------
(***************************************************************************)
(* Payloads and what is parsed out of them.                                *)
(***************************************************************************)
LEMMA NamedQueries ==
  ASSUME NEW p \in Products, NEW b \in Buses, NEW o \in DOMAIN Operations(p, b),
         NEW cmd \in Operations(p, b)[o].cmds, "DATA" \in ToSet(Operations(p, b)[o].lines)
  PROVE  o # "bare"
<1>1. Asked(p, o, cmd)
  BY OperationsAsk
<1>2. "bare" \notin DOMAIN ControlAsked
  BY DEF ControlAsked
<1>3. "bare" \notin DOMAIN PhAsked /\ "bare" \notin DOMAIN OrpAsked
  BY DEF PhAsked, OrpAsked
<1>4. "bare" \notin DOMAIN EcAsked /\ "bare" \notin DOMAIN DoAsked
  BY DEF EcAsked, DoAsked
<1>5. "bare" \notin DOMAIN HumAsked /\ "bare" \notin DOMAIN RtdAsked
  BY DEF HumAsked, RtdAsked
<1>6. "bare" \notin DOMAIN ProductAsked[p]
  BY <1>3, <1>4, <1>5 DEF ProductAsked, Products
<1> QED
  BY <1>1, <1>2, <1>6 DEF Asked

(* Whatever is on the line, a typed query takes the answers to itself: for *)
(* a line l that holds a payload, and the operation o in progress.         *)
LEMMA Taken ==
  ASSUME NEW p \in Products, NEW b \in Buses, NEW o \in DOMAIN Operations(p, b),
         Operations(p, b)[o].cmds # {}, "DATA" \in ToSet(Operations(p, b)[o].lines),
         NEW l, IsLine(p, b, l), l.kind = "DATA", NEW believed, NEW presumed
  PROVE  LET out == Parse(p, o, l.text, believed, presumed) IN
         /\ out.result \in {"OK"} \cup Errors
         /\ out.result = "OK" =>
              \/ l.to \in Operations(p, b)[o].cmds
              \/ o \in Bare /\ \E x \in Bare \cap DOMAIN Operations(p, b) :
                                  l.to \in Operations(p, b)[x].cmds
         /\ out.result = "OK" /\ o = "output_query" => out.value \in Masks(p)
         /\ out.result = "OK" /\ o = "scale_query" => out.value[1] \in Scales
<1> DEFINE out == Parse(p, o, l.text, believed, presumed)
<1>x. PICK x \in DOMAIN Operations(p, b) : \E cmd \in Operations(p, b)[x].cmds :
        /\ "DATA" \in ToSet(Operations(p, b)[x].lines)
        /\ \E m \in Masks(p), s \in ScalesOf(p) : PayloadOf(p, cmd, m, s, l)
  BY DEF IsLine
<1>1. PICK cmd \in Operations(p, b)[x].cmds :
        /\ "DATA" \in ToSet(Operations(p, b)[x].lines)
        /\ \E m \in Masks(p), s \in ScalesOf(p) : PayloadOf(p, cmd, m, s, l)
  BY <1>x
<1>2. PICK m \in Masks(p), s \in ScalesOf(p) : PayloadOf(p, cmd, m, s, l)
  BY <1>1
<1>3. PICK a \in Answers(p, cmd, m, s) : l.text = a.text /\ l.to = cmd
  BY <1>2 DEF PayloadOf
<1>4. m \in [DOMAIN Outputs[p] -> {"on", "off"}] /\ (p = "RTD" => s \in Scales)
  BY DEF Masks, ScalesOf
<1>5. Understood(p, x, a, m, Parse(p, x, a.text, m, s))
  BY <1>1, <1>3, <1>4, QueriesUnderstood
<1>6. IsText(l.text) /\ TopicOfText(p, l.text) = Topic(x)
  BY <1>3, <1>5 DEF Understood
<1>7. Takes(p, o, l.text, out)
  BY <1>6, ParsersTakeTheirOwn
<1>8. x # "bare" /\ o # "bare"
  <2>1. PICK c \in Operations(p, b)[o].cmds : TRUE
    OBVIOUS
  <2> QED
    BY <1>1, <2>1, NamedQueries
<1>9. ASSUME out.result = "OK"
      PROVE  \/ l.to \in Operations(p, b)[o].cmds
             \/ o \in Bare /\ \E y \in Bare \cap DOMAIN Operations(p, b) :
                                 l.to \in Operations(p, b)[y].cmds
  <2>1. Topic(x) = Topic(o)
    BY <1>6, <1>7, <1>9 DEF Takes
  <2>2. x = o \/ (x \in Headless /\ o \in Headless)
    BY <2>1, <1>8 DEF Topic
  <2>3. l.to \in Operations(p, b)[x].cmds
    BY <1>1, <1>3
  <2> QED
    BY <2>2, <2>3 DEF Headless, Bare
<1>10. out.result = "OK" =>
         /\ o = "output_query" => out.value \in Masks(p)
         /\ o = "scale_query" => out.value[1] \in Scales
  BY ConfigurationParsed DEF Masks
<1>11. out.result \in {"OK"} \cup Errors
  BY <1>7 DEF Takes
<1> QED
  BY <1>9, <1>10, <1>11

(* What may be refused of a payload l although nothing went wrong. *)
Refusable(o, l, m) ==
  \/ o \in {"read", "read_with_temp_comp"} /\ m # <<>> /\ "on" \notin ToSet(m)
  \/ o = "memory_all" /\ Len(l.text) > MemoryCapacity
  \/ o = "output_query" /\ Len(l.text) - 1 > EZO_SCHEMA_MAX_FIELDS

(* What the read helper of o needs, it has been told as it is. *)
Told(p, o, m, s, believed, presumed) ==
  /\ Outputs[p] # <<>> /\ o \in {"read", "read_with_temp_comp"} => believed = m
  /\ p = "RTD" /\ o \in {"read", "memory_next", "memory_all"} => presumed = s

(* The answer to the command in progress is parsed to what it means.       *)
LEMMA Meant ==
  ASSUME NEW p \in Products, NEW b \in Buses, NEW o \in DOMAIN Operations(p, b),
         NEW cmd \in Operations(p, b)[o].cmds, "DATA" \in ToSet(Operations(p, b)[o].lines),
         NEW m \in Masks(p), NEW s \in ScalesOf(p), NEW l, PayloadOf(p, cmd, m, s, l),
         NEW believed, NEW presumed, Told(p, o, m, s, believed, presumed)
  PROVE  LET out == Parse(p, o, l.text, believed, presumed) IN
         /\ out.result = "OK" => out.value = l.means
         /\ out.result # "OK" => Refusable(o, l, m)
         /\ o = "output_query" => l.means = m
         /\ o = "scale_query" => l.means[1] = s
<1> DEFINE out == Parse(p, o, l.text, believed, presumed)
<1>1. PICK a \in Answers(p, cmd, m, s) : l.text = a.text /\ l.means = a.means
  BY DEF PayloadOf
<1>2. m \in [DOMAIN Outputs[p] -> {"on", "off"}] /\ (p = "RTD" => s \in Scales)
  BY DEF Masks, ScalesOf
<1>3. Understood(p, o, a, m, Parse(p, o, a.text, believed, presumed))
  BY <1>2, QueriesUnderstood DEF Told
<1>4. out = Parsed(l.means) \/ (out.result \in Errors /\ Excused(o, a, m))
  BY <1>1, <1>3 DEF Understood
<1>5. (o = "output_query" => l.means = m) /\ (o = "scale_query" => l.means[1] = s)
  BY <1>1, ConfigurationAnswered
<1>6. out.result = "OK" => out.value = l.means
  BY <1>4 DEF Parsed, Errors
<1>7. out.result # "OK" => Refusable(o, l, m)
  <2>1. Parsed(l.means).result = "OK"
    BY DEF Parsed
  <2> HIDE DEF out
  <2> QED
    BY <1>1, <1>4, <2>1 DEF Refusable, Excused
<1> QED
  BY <1>5, <1>6, <1>7

(* Commands that change the configuration are answered without a payload,  *)
(* so the reply on the line does not depend on it.                         *)
LEMMA ReplyKept ==
  ASSUME NEW p \in Products, NEW b \in Buses, NEW o \in DOMAIN Operations(p, b),
         NEW cmd \in Operations(p, b)[o].cmds, NEW m, NEW s, NEW q, Reply(p, b, cmd, m, s, q),
         NEW m2, NEW s2,
         o \notin {"output_set", "scale_set"} => m2 = m /\ s2 = s
  PROVE  Reply(p, b, cmd, m2, s2, q)
<1>1. CASE o \notin {"output_set", "scale_set"}
  BY <1>1
<1>2. CASE o \in {"output_set", "scale_set"} /\ "DATA" \notin ToSet(ReplyLines(p, b, cmd))
  BY <1>2 DEF Reply
<1>3. CASE o \in {"output_set", "scale_set"} /\ "DATA" \in ToSet(ReplyLines(p, b, cmd))
  <2>1. PICK a \in Answers(p, cmd, m, s) : TRUE
    BY <1>3 DEF Reply
  <2>2. "DATA" \in ToSet(Operations(p, b)[o].lines)
    BY <1>3, Expects
  <2> QED
    BY <1>3, <2>1, <2>2, ConfigurationAnswered
<1> QED
  BY <1>1, <1>2, <1>3

-----------------------------------------------------------------------------
(***************************************************************************)
(* The steps.                                                              *)
(***************************************************************************)
LEMMA CircuitTypes ==
  ASSUME TypedInv
  PROVE  /\ product \in Products /\ bus \in Buses /\ outputs \in Masks(product)
         /\ scale \in ScalesOf(product) /\ IsText(coming) /\ IsText(arrived)
         /\ Len(coming) \in Nat /\ Len(arrived) \in Nat
         /\ MaxCommands[careful] \in Nat /\ late \in Nat /\ sent \in Nat
<1>1. IsText(coming) /\ IsText(arrived)
  BY DEF TypedInv, Lines, IsLines
<1> QED
  BY <1>1, TextFacts, TypedAssumption DEF TypedInv, TypedTypeOK, Stages

LEMMA InitInv == Init => TypedInv
<1> SUFFICES ASSUME Init
             PROVE  TypedInv
  OBVIOUS
<1> USE DEF Init
<1>1. product \in Products /\ MaxLate \in Nat /\ MaxCommands[careful] \in Nat
  BY TypedAssumption
<1>2. TypedTypeOK
  BY <1>1 DEF TypedTypeOK, Nothing, Results
<1>3. Stages
  BY DEF Stages, ScalesOf
<1>4. Lines
  BY NoLines DEF Lines
<1>5. InStep /\ Fresh
  BY DEF InStep, Fresh
<1>6. Kept
  BY DEF Kept, OwnAnswer, MeansWhatItSays, QuietSucceeds, Nothing
<1> QED
  BY <1>2, <1>3, <1>4, <1>5, <1>6 DEF TypedInv

(* What the command does to the configuration. *)
LEMMA ConfiguredTo ==
  ASSUME TypedInv, NEW o \in DOMAIN Operations(product, bus), Send(o),
         NEW cmd \in Operations(product, bus)[o].cmds, Configured(cmd)
  PROVE  /\ outputs' \in Masks(product) /\ scale' \in ScalesOf(product)
         /\ o # "output_set" => outputs' = outputs
         /\ o # "scale_set" => scale' = scale
<1>0. asked' = o
  BY DEF Send
<1>1. outputs \in [DOMAIN Outputs[product] -> {"on", "off"}]
  BY CircuitTypes DEF Masks
<1>2. outputs' \in Masks(product)
  BY <1>0, <1>1 DEF Configured, Masks
<1>3. o = "scale_set" => cmd[2] \in Scales
  BY CircuitTypes, ScaleOperations
<1>4. scale' \in ScalesOf(product)
  BY <1>0, <1>3, CircuitTypes DEF Configured, ScalesOf
<1> QED
  BY <1>0, <1>2, <1>4 DEF Configured

LEMMA SendInv ==
  ASSUME TypedInv, NEW o \in DOMAIN Operations(product, bus), Send(o)
  PROVE  TypedInv'
<1>t. /\ product \in Products /\ bus \in Buses /\ outputs \in Masks(product)
      /\ scale \in ScalesOf(product) /\ IsText(coming) /\ IsText(arrived)
      /\ MaxCommands[careful] \in Nat /\ late \in Nat /\ sent \in Nat
  BY CircuitTypes
<1>s. /\ phase = "idle" /\ sent < MaxCommands[careful] /\ asked' = o
      /\ NeedsMask(o) => mask # Unknown
      /\ NeedsUnit(o) => unit # "unknown"
      /\ arrived' = IF bus = "i2c" THEN <<>> ELSE arrived
      /\ got' = Nothing /\ phase' = "wait" /\ sent' = sent + 1
      /\ careful' = careful /\ product' = product /\ bus' = bus /\ late' = late
      /\ Believes(o)
  BY DEF Send
<1>1. PICK cmd \in Operations(product, bus)[o].cmds :
        /\ command' = cmd /\ Configured(cmd)
        /\ \E reply \in Replies(cmd) :
             coming' = IF bus = "i2c" THEN reply ELSE coming \o reply
  BY DEF Send, Operation
<1>2. PICK reply \in Replies(cmd) : coming' = IF bus = "i2c" THEN reply ELSE coming \o reply
  BY <1>1
<1>3. /\ outputs' \in Masks(product) /\ scale' \in ScalesOf(product)
      /\ o # "output_set" => outputs' = outputs
      /\ o # "scale_set" => scale' = scale
  BY <1>1, ConfiguredTo
<1>4. Reply(product, bus, cmd, outputs, scale, reply)
  BY <1>2, RepliesAre
<1>5. Reply(product, bus, cmd, outputs', scale', reply)
  BY <1>t, <1>1, <1>3, <1>4, ReplyKept
<1>6. /\ IsLines(product, bus, reply) /\ HasKinds(reply, Operations(product, bus)[o].lines)
      /\ Len(reply) = Len(ReplyLines(product, bus, cmd))
      /\ Begins(product, bus, cmd, outputs', scale', reply)
  BY <1>t, <1>1, <1>3, <1>5, ReplyIs
<1>7. coming = <<>> => coming' = reply
  BY <1>t, <1>2, <1>6, TextConcat DEF IsLines
<1>m. /\ mask' = IF careful /\ o = "output_set" THEN Unknown ELSE mask
      /\ unit' = IF careful /\ o = "scale_set" THEN "unknown" ELSE unit
  BY <1>s DEF Believes
<1>8. TypedTypeOK'
  BY <1>t, <1>s, <1>3, <1>m DEF TypedInv, TypedTypeOK, Nothing, Results, ScalesOf, Unknown
<1>9. Stages'
  <2>1. NeedsMask(o) => mask' # Unknown
    BY <1>s, <1>m DEF NeedsMask
  <2>2. NeedsUnit(o) => unit' # "unknown"
    BY <1>s, <1>m DEF NeedsUnit
  <2>3. InProgress'
    BY <1>s, <1>1, <2>1, <2>2 DEF InProgress, Operation, NeedsMask, NeedsUnit
  <2> QED
    BY <1>s, <1>3, <2>3 DEF Stages
<1>10. Lines'
  <2>1. IsLines(product, bus, coming) /\ IsLines(product, bus, arrived)
    BY DEF TypedInv, Lines
  <2>2. IsLines(product, bus, coming')
    BY <1>2, <1>6, <2>1, LinesConcat
  <2>3. IsLines(product, bus, arrived')
    BY <1>s, <2>1, NoLines
  <2> QED
    BY <1>s, <2>2, <2>3 DEF Lines
<1>11. InStep'
  <2>1. late = 0 => arrived = <<>> /\ coming = <<>>
    BY <1>s DEF TypedInv, InStep
  <2>2. Expected' = Operations(product, bus)[o].lines
    BY <1>s DEF Expected, Operation
  <2> QED
    BY <1>s, <1>6, <1>7, <2>1, <2>2 DEF InStep, HasKinds
<1>12. Fresh'
  <2>1. careful => arrived = <<>> /\ coming = <<>> /\ mask \in {Unknown, outputs} /\ unit \in {"unknown", scale}
    BY <1>s DEF TypedInv, Fresh
  <2>2. careful => mask' \in {Unknown, outputs'} /\ unit' \in {"unknown", scale'}
    BY <1>3, <1>m, <2>1 DEF Unknown
  <2>3. careful => arrived' = <<>> /\ coming' = reply
    BY <1>s, <1>7, <2>1
  <2> QED
    BY <1>s, <1>1, <1>6, <2>2, <2>3 DEF Fresh, Unknown
<1>13. Kept'
  BY <1>s DEF Kept, OwnAnswer, MeansWhatItSays, QuietSucceeds, Nothing
<1> QED
  BY <1>8, <1>9, <1>10, <1>11, <1>12, <1>13 DEF TypedInv

(* What has arrived of a reply begins it. *)
LEMMA BeginsSub ==
  ASSUME NEW p, NEW b, NEW cmd, NEW m, NEW s, NEW q, IsText(q), Begins(p, b, cmd, m, s, q),
         NEW n \in Nat, n <= Len(q)
  PROVE  Begins(p, b, cmd, m, s, SubSeq(q, 1, n)) /\ Len(SubSeq(q, 1, n)) = n
<1>0. Len(q) \in Nat
  BY TextFacts
<1>1. /\ Len(SubSeq(q, 1, n)) = IF 1 <= n THEN n - 1 + 1 ELSE 0
      /\ \A i \in 1 .. Len(SubSeq(q, 1, n)) : SubSeq(q, 1, n)[i] = q[1 + i - 1]
  BY TextSub
<1>2. Len(SubSeq(q, 1, n)) = n
  BY <1>1
<1>3. \A i \in 1 .. n : SubSeq(q, 1, n)[i] = q[i]
  BY <1>1, <1>2
<1> DEFINE x == SubSeq(q, 1, n)
<1> HIDE DEF x
<1>4. Len(x) = n /\ \A i \in 1 .. n : x[i] = q[i] /\ i \in 1 .. Len(q)
  BY <1>0, <1>2, <1>3 DEF x
<1>5. \A i \in 1 .. Len(x) : LineOf(p, b, cmd, m, s, i, x[i])
  BY <1>4 DEF Begins
<1>6. Len(q) <= Len(ReplyLines(p, b, cmd)) /\ Len(ReplyLines(p, b, cmd)) \in Nat
  <2>1. ReplyLines(p, b, cmd) \in {<<"ERROR">>, <<"OK">>, <<"DATA">>, <<"OK", "DATA">>, <<"DATA", "OK">>}
    BY ReplyShapes
  <2> QED
    BY <2>1, ShapeFacts DEF Begins
<1>7. Begins(p, b, cmd, m, s, x)
  BY <1>0, <1>4, <1>5, <1>6 DEF Begins
<1> QED
  BY <1>2, <1>7 DEF x

(* The first n lines have arrived. *)
LEMMA ArrivesIs ==
  ASSUME TypedInv, NEW n \in 0 .. Len(coming), Arrives(n)
  PROVE  /\ IsLines(product, bus, arrived') /\ IsLines(product, bus, coming')
         /\ arrived = <<>> => arrived' = SubSeq(coming, 1, n)
         /\ Len(SubSeq(coming, 1, n)) = n
         /\ \A i \in 1 .. n : SubSeq(coming, 1, n)[i] = coming[i]
         /\ Len(coming') = Len(coming) - n
<1>0. IsText(coming) /\ Len(coming) \in Nat /\ IsText(arrived)
  BY CircuitTypes
<1>1. IsLines(product, bus, coming) /\ IsLines(product, bus, arrived)
  BY DEF TypedInv, Lines
<1>2. n \in Nat /\ n <= Len(coming) /\ n + 1 \in Nat \ {0} /\ 1 \in Nat \ {0}
  BY <1>0
<1>3. /\ IsText(SubSeq(coming, 1, n)) /\ Len(SubSeq(coming, 1, n)) = IF 1 <= n THEN n - 1 + 1 ELSE 0
      /\ \A i \in 1 .. Len(SubSeq(coming, 1, n)) : SubSeq(coming, 1, n)[i] = coming[1 + i - 1]
  BY <1>0, <1>2, TextSub
<1>4. Len(SubSeq(coming, 1, n)) = n
  BY <1>2, <1>3
<1>5. \A i \in 1 .. n : SubSeq(coming, 1, n)[i] = coming[i]
  BY <1>3, <1>4
<1>6. Len(SubSeq(coming, n + 1, Len(coming))) = IF n + 1 <= Len(coming) THEN Len(coming) - (n + 1) + 1 ELSE 0
  BY <1>0, <1>2, TextSub
<1>7. IsLines(product, bus, SubSeq(coming, 1, n)) /\ IsLines(product, bus, SubSeq(coming, n + 1, Len(coming)))
  BY <1>0, <1>1, <1>2, LinesSub
<1>8. arrived' = arrived \o SubSeq(coming, 1, n) /\ coming' = SubSeq(coming, n + 1, Len(coming))
  BY DEF Arrives
<1>9. arrived = <<>> => arrived' = SubSeq(coming, 1, n)
  BY <1>0, <1>3, <1>8, TextConcat
<1>10. Len(coming') = Len(coming) - n
  BY <1>0, <1>2, <1>6, <1>8
<1> QED
  BY <1>1, <1>4, <1>5, <1>7, <1>8, <1>9, <1>10, LinesConcat

LEMMA WaitInv == ASSUME TypedInv, Wait PROVE TypedInv'
<1>t. /\ product \in Products /\ bus \in Buses /\ outputs \in Masks(product)
      /\ IsText(coming) /\ IsText(arrived) /\ Len(coming) \in Nat /\ late \in Nat
      /\ MaxLate \in Nat
  BY CircuitTypes, TypedAssumption
<1>w. /\ phase = "wait" /\ phase' = "read"
      /\ careful' = careful /\ product' = product /\ bus' = bus /\ outputs' = outputs
      /\ scale' = scale /\ asked' = asked /\ command' = command /\ mask' = mask /\ unit' = unit
      /\ got' = got /\ sent' = sent
  BY DEF Wait, circuitVars
<1>1. InProgress
  BY <1>w DEF TypedInv, Stages
<1>2. InTime
  BY <1>t, <1>1, Expects DEF InTime, InProgress, Operation
<1>3. PICK n \in 0 .. Len(coming) :
        /\ Arrives(n)
        /\ \/ n = Len(coming) /\ late' = late
           \/ late < MaxLate /\ late' = late + 1
  <2>1. CASE Arrives(Len(coming)) /\ late' = late
    BY <1>t, <2>1
  <2>2. CASE /\ \E n \in 0 .. Len(coming) - 1 : Arrives(n)
             /\ late < MaxLate /\ late' = late + 1
    BY <1>t, <2>2
  <2> QED
    BY <1>2, <2>1, <2>2 DEF Wait
<1>4. /\ IsLines(product, bus, arrived') /\ IsLines(product, bus, coming')
      /\ arrived = <<>> => arrived' = SubSeq(coming, 1, n)
      /\ Len(SubSeq(coming, 1, n)) = n
      /\ \A i \in 1 .. n : SubSeq(coming, 1, n)[i] = coming[i]
      /\ Len(coming') = Len(coming) - n
  BY <1>3, ArrivesIs
<1>5. TypedTypeOK'
  <2>1. late' \in 0 .. MaxLate
    BY <1>t, <1>3 DEF TypedInv, TypedTypeOK
  <2> QED
    BY <1>w, <2>1 DEF TypedInv, TypedTypeOK
<1>6. Stages'
  BY <1>w, <1>1 DEF TypedInv, Stages, InProgress, Operation, NeedsMask, NeedsUnit
<1>7. Lines'
  BY <1>w, <1>4 DEF Lines
<1>8. InStep'
  <2> SUFFICES ASSUME late' = 0
               PROVE  coming' = <<>> /\ HasKinds(arrived', Expected')
    BY <1>w DEF InStep, HasKinds
  <2>1. late = 0 /\ n = Len(coming)
    BY <1>t, <1>3
  <2>2. arrived = <<>> /\ HasKinds(coming, Expected) /\ Expected' = Expected
    BY <1>w, <2>1 DEF TypedInv, InStep, Expected, Operation
  <2>3. coming' = <<>>
    BY <1>t, <1>4, <2>1, EmptyWhenNone DEF IsLines
  <2>4. arrived' = SubSeq(coming, 1, n)
    BY <1>4, <2>2
  <2>5. Len(arrived') = Len(coming) /\ \A i \in 1 .. Len(coming) : arrived'[i] = coming[i]
    BY <1>4, <2>1, <2>4
  <2> QED
    BY <2>2, <2>3, <2>5 DEF HasKinds
<1>9. Fresh'
  <2> SUFFICES ASSUME careful
               PROVE  /\ Len(arrived') + Len(coming') = Len(ReplyLines(product, bus, command))
                      /\ Begins(product, bus, command, outputs, scale, arrived')
    BY <1>w DEF TypedInv, Fresh, Unknown
  <2>1. /\ arrived = <<>> /\ Len(coming) = Len(ReplyLines(product, bus, command))
        /\ Begins(product, bus, command, outputs, scale, coming)
    BY <1>w DEF TypedInv, Fresh
  <2>2. arrived' = SubSeq(coming, 1, n)
    BY <1>4, <2>1
  <2>3. n \in Nat /\ n <= Len(coming)
    BY <1>t
  <2>4. Begins(product, bus, command, outputs, scale, SubSeq(coming, 1, n))
    BY <1>t, <2>1, <2>3, BeginsSub
  <2> QED
    BY <1>t, <1>4, <2>1, <2>2, <2>3, <2>4
<1>10. Kept'
  <2>1. late' = 0 => late = 0
    BY <1>t, <1>3
  <2> QED
    BY <1>w, <2>1 DEF TypedInv, Kept, OwnAnswer, MeansWhatItSays, QuietSucceeds, MayBeRefused,
                      FourInVendorForm
<1> QED
  BY <1>5, <1>6, <1>7, <1>8, <1>9, <1>10 DEF TypedInv

-----------------------------------------------------------------------------
(***************************************************************************)
(* Reads.                                                                  *)
(***************************************************************************)
LEMMA ExpectedIs ==
  ASSUME TypedInv, phase = "read"
  PROVE  /\ asked \in DOMAIN Operations(product, bus)
         /\ command \in Operations(product, bus)[asked].cmds
         /\ Expected = Operations(product, bus)[asked].lines
         /\ Expected = ReplyLines(product, bus, command)
         /\ Len(Expected) \in 1 .. 2 /\ DOMAIN Expected = 1 .. Len(Expected)
         /\ \A i \in 1 .. Len(Expected) : Expected[i] \in {"DATA", "OK", "ERROR"}
         /\ ToSet(Expected) = {Expected[i] : i \in 1 .. Len(Expected)}
<1>1. InProgress
  BY DEF TypedInv, Stages
<1>2. /\ asked \in DOMAIN Operations(product, bus)
      /\ command \in Operations(product, bus)[asked].cmds
      /\ Expected = Operations(product, bus)[asked].lines
  BY <1>1 DEF InProgress, Operation, Expected
<1>3. Expected = ReplyLines(product, bus, command)
  BY <1>2, CircuitTypes, Expects
<1>4. Expected \in {<<"ERROR">>, <<"OK">>, <<"DATA">>, <<"OK", "DATA">>, <<"DATA", "OK">>}
  BY <1>3, ReplyShapes
<1> QED
  BY <1>2, <1>3, <1>4, ShapeFacts

LEMMA MatchedIs ==
  ASSUME Len(arrived) \in Nat, Len(Expected) \in 1 .. 2
  PROVE  /\ Matched \in 0 .. Len(Expected) /\ Matches(Matched)
         /\ Matched = Len(Expected) \/ ~Matches(Matched + 1)
<1>0. Matches(0)
  BY DEF Matches
<1>1. CASE ~Matches(1)
  <2>1. 0 \in 0 .. Len(Expected) /\ Matches(0) /\ (0 = Len(Expected) \/ ~Matches(0 + 1))
    BY <1>0, <1>1
  <2> QED
    BY <2>1 DEF Matched
<1>2. CASE Matches(1) /\ (Len(Expected) = 1 \/ ~Matches(2))
  <2>1. 1 \in 0 .. Len(Expected) /\ Matches(1) /\ (1 = Len(Expected) \/ ~Matches(1 + 1))
    BY <1>2
  <2> QED
    BY <2>1 DEF Matched
<1>3. CASE Matches(2) /\ Len(Expected) = 2
  <2>1. 2 \in 0 .. Len(Expected) /\ Matches(2) /\ (2 = Len(Expected) \/ ~Matches(2 + 1))
    BY <1>3
  <2> QED
    BY <2>1 DEF Matched
<1> QED
  BY <1>1, <1>2, <1>3

LEMMA ConsumedIs ==
  ASSUME TypedInv, phase = "read"
  PROVE  /\ Consumed \in Nat /\ Consumed <= Len(arrived)
         /\ Complete => Consumed = Len(Expected)
         /\ Complete => \A i \in 1 .. Len(Expected) : arrived[i].kind = Expected[i]
         /\ HasKinds(arrived, Expected) => Complete
<1>1. Len(arrived) \in Nat /\ Len(Expected) \in 1 .. 2
  BY CircuitTypes, ExpectedIs
<1>2. /\ Matched \in 0 .. Len(Expected) /\ Matches(Matched)
      /\ Matched = Len(Expected) \/ ~Matches(Matched + 1)
  BY <1>1, MatchedIs
<1> DEFINE n == Matched
<1> HIDE DEF n
<1>3. /\ n \in 0 .. Len(Expected) /\ n <= Len(arrived)
      /\ \A i \in 1 .. n : arrived[i].kind = Expected[i]
      /\ n = Len(Expected) \/ ~Matches(n + 1)
  BY <1>2 DEF Matches, n
<1>4. Complete <=> n = Len(Expected)
  BY DEF Complete, n
<1>5. Consumed = IF Complete \/ n = Len(arrived) THEN n ELSE n + 1
  BY DEF Consumed, n
<1>6. HasKinds(arrived, Expected) => Complete
  <2> SUFFICES ASSUME HasKinds(arrived, Expected), n # Len(Expected)
               PROVE  FALSE
    BY <1>4
  <2>1. n + 1 <= Len(arrived) /\ n + 1 <= Len(Expected)
    BY <1>1, <1>3 DEF HasKinds
  <2>2. Matches(n + 1)
    BY <1>1, <1>3, <2>1 DEF Matches, HasKinds
  <2> QED
    BY <1>3, <2>2
<1> QED
  BY <1>1, <1>3, <1>4, <1>5, <1>6

(* The payload of a complete exchange, when one is expected. *)
LEMMA PayloadIs ==
  ASSUME TypedInv, phase = "read", Complete, "DATA" \in ToSet(Expected)
  PROVE  /\ Payload.kind = "DATA" /\ Payload # NoLine /\ IsLine(product, bus, Payload)
         /\ careful => PayloadOf(product, command, outputs, scale, Payload)
<1>1. /\ Len(Expected) \in 1 .. 2 /\ DOMAIN Expected = 1 .. Len(Expected)
      /\ Expected = ReplyLines(product, bus, command)
      /\ ToSet(Expected) = {Expected[i] : i \in 1 .. Len(Expected)}
  BY ExpectedIs
<1>2. PICK k \in DOMAIN Expected : Expected[k] = "DATA" /\ Payload = arrived[k]
  <2>1. \E i \in DOMAIN Expected : Expected[i] = "DATA"
    BY <1>1
  <2> DEFINE k == CHOOSE i \in DOMAIN Expected : Expected[i] = "DATA"
  <2>2. k \in DOMAIN Expected /\ Expected[k] = "DATA"
    BY <2>1
  <2>3. Payload = arrived[k]
    BY DEF Payload
  <2> HIDE DEF k
  <2> QED
    BY <2>2, <2>3
<1>3. /\ Len(arrived) \in Nat /\ Len(Expected) <= Len(arrived)
      /\ \A i \in 1 .. Len(Expected) : arrived[i].kind = Expected[i]
  BY ConsumedIs, CircuitTypes
<1>4. k \in 1 .. Len(arrived) /\ Payload.kind = "DATA"
  BY <1>1, <1>2, <1>3
<1>5. Payload # NoLine
  BY <1>4 DEF NoLine
<1>6. IsLine(product, bus, Payload)
  BY <1>2, <1>4 DEF TypedInv, Lines, IsLines
<1>7. careful => PayloadOf(product, command, outputs, scale, Payload)
  BY <1>2, <1>4 DEF TypedInv, Fresh, Begins, LineOf
<1> QED
  BY <1>4, <1>5, <1>6, <1>7

(* How a read ends. *)
LEMMA ReadOutcome ==
  ASSUME TypedInv, phase = "read"
  PROVE  /\ Outcome.result \in Results \ {"none"}
         /\ Outcome.result = "OK" => Complete
         /\ Outcome.result = "OK" /\ asked = "output_query" =>
              Outcome.value = Unknown \/ Outcome.value \in Masks(product)
         /\ Outcome.result = "OK" /\ asked = "scale_query" => Outcome.value[1] \in Scales
         /\ Outcome.result = "OK" /\ Payload # NoLine =>
              \/ Payload.to \in Operations(product, bus)[asked].cmds
              \/ asked \in Bare /\ \E o \in Bare \cap DOMAIN Operations(product, bus) :
                                      Payload.to \in Operations(product, bus)[o].cmds
         /\ careful /\ Outcome.result = "OK" =>
              /\ Outcome.value = Payload.means
              /\ asked = "output_query" => Outcome.value \in {Unknown, outputs}
              /\ asked = "scale_query" => Outcome.value[1] = scale
         /\ careful /\ Complete /\ Outcome.result # "OK" => Refusable(asked, Payload, outputs)
<1>t. /\ product \in Products /\ bus \in Buses /\ outputs \in Masks(product)
      /\ scale \in ScalesOf(product)
  BY CircuitTypes
<1>e. /\ asked \in DOMAIN Operations(product, bus)
      /\ command \in Operations(product, bus)[asked].cmds
      /\ Expected = Operations(product, bus)[asked].lines
  BY ExpectedIs
<1>1. CASE ~Complete
  <2>1. Outcome.result \in {"TRANSPORT", "PROTOCOL"}
    BY <1>1 DEF Outcome, Refused
  <2> QED
    BY <1>1, <2>1 DEF Results
<1>2. CASE Complete /\ "DATA" \notin ToSet(Expected)
  <2>1. Payload = NoLine
    BY <1>2 DEF Payload
  <2>2. Outcome.result = "OK" /\ Outcome.value = <<>>
    BY <1>2, <2>1 DEF Outcome, Parsed
  <2>3. asked # "scale_query"
    BY <1>t, <1>e, <1>2, ScaleOperations
  <2>4. Payload.means = <<>>
    BY <2>1 DEF NoLine
  <2> QED
    BY <1>2, <2>1, <2>2, <2>3, <2>4 DEF Results, Unknown
<1>3. CASE Complete /\ "DATA" \in ToSet(Expected)
  <2> DEFINE l == Payload
             out == Parse(product, asked, l.text, mask, unit)
  <2>1. /\ l.kind = "DATA" /\ l # NoLine /\ IsLine(product, bus, l)
        /\ careful => PayloadOf(product, command, outputs, scale, l)
    BY <1>3, PayloadIs
  <2>2. Outcome = out
    BY <1>3, <2>1 DEF Outcome
  <2> HIDE DEF l
  <2>3. /\ out.result \in {"OK"} \cup Errors
        /\ out.result = "OK" =>
             \/ l.to \in Operations(product, bus)[asked].cmds
             \/ asked \in Bare /\ \E o \in Bare \cap DOMAIN Operations(product, bus) :
                                     l.to \in Operations(product, bus)[o].cmds
        /\ out.result = "OK" /\ asked = "output_query" => out.value \in Masks(product)
        /\ out.result = "OK" /\ asked = "scale_query" => out.value[1] \in Scales
    BY <1>t, <1>e, <1>3, <2>1, Taken
  <2>4. ASSUME careful
        PROVE  /\ out.result = "OK" => out.value = l.means
               /\ out.result # "OK" => Refusable(asked, l, outputs)
               /\ asked = "output_query" => l.means = outputs
               /\ asked = "scale_query" => l.means[1] = scale
    <3>1. /\ mask \in {Unknown, outputs} /\ unit \in {"unknown", scale}
      BY <2>4 DEF TypedInv, Fresh
    <3>2. (NeedsMask(asked) => mask # Unknown) /\ (NeedsUnit(asked) => unit # "unknown")
      BY DEF TypedInv, Stages, InProgress
    <3>3. Told(product, asked, outputs, scale, mask, unit)
      BY <3>1, <3>2 DEF NeedsMask, NeedsUnit, Told
    <3>4. PayloadOf(product, command, outputs, scale, l)
      BY <2>1, <2>4
    <3>5. "DATA" \in ToSet(Operations(product, bus)[asked].lines)
      BY <1>e, <1>3
    <3> QED
      BY <1>t, <1>e, <3>3, <3>4, <3>5, Meant
  <2> HIDE DEF out
  <2> QED
    BY <1>3, <2>2, <2>3, <2>4 DEF l, Results, Errors
<1> QED
  BY <1>1, <1>2, <1>3

LEMMA ReadInv == ASSUME TypedInv, Read PROVE TypedInv'
<1> DEFINE out == Outcome
<1>t. /\ product \in Products /\ bus \in Buses /\ outputs \in Masks(product)
      /\ scale \in ScalesOf(product) /\ IsText(coming) /\ IsText(arrived)
      /\ Len(coming) \in Nat /\ Len(arrived) \in Nat
  BY CircuitTypes
<1>r. /\ phase = "read"
      /\ got' = [op |-> asked, result |-> out.result, value |-> out.value,
                 line |-> IF Complete THEN Payload ELSE NoLine]
      /\ mask' = IF asked = "output_query" /\ out.result = "OK" THEN out.value ELSE mask
      /\ unit' = IF asked = "scale_query" /\ out.result = "OK" THEN out.value[1] ELSE unit
      /\ phase' = IF out.result = "OK" \/ ~careful THEN "idle" ELSE "failed"
      /\ arrived' = SubSeq(arrived, Consumed + 1, Len(arrived))
      /\ asked' = "none" /\ command' = <<>>
      /\ careful' = careful /\ product' = product /\ bus' = bus /\ outputs' = outputs
      /\ scale' = scale /\ coming' = coming /\ late' = late /\ sent' = sent
  BY DEF Read, circuitVars
<1>1. /\ out.result \in Results \ {"none"}
      /\ out.result = "OK" => Complete
      /\ out.result = "OK" /\ asked = "output_query" =>
           out.value = Unknown \/ out.value \in Masks(product)
      /\ out.result = "OK" /\ asked = "scale_query" => out.value[1] \in Scales
      /\ out.result = "OK" /\ Payload # NoLine =>
           \/ Payload.to \in Operations(product, bus)[asked].cmds
           \/ asked \in Bare /\ \E o \in Bare \cap DOMAIN Operations(product, bus) :
                                   Payload.to \in Operations(product, bus)[o].cmds
      /\ careful /\ out.result = "OK" =>
           /\ out.value = Payload.means
           /\ asked = "output_query" => out.value \in {Unknown, outputs}
           /\ asked = "scale_query" => out.value[1] = scale
      /\ careful /\ Complete /\ out.result # "OK" => Refusable(asked, Payload, outputs)
  BY <1>r, ReadOutcome
<1> HIDE DEF out
<1>2. /\ Consumed \in Nat /\ Consumed <= Len(arrived)
      /\ Complete => Consumed = Len(Expected)
      /\ HasKinds(arrived, Expected) => Complete
  BY <1>r, ConsumedIs
<1>3. /\ asked \in DOMAIN Operations(product, bus)
      /\ Expected = ReplyLines(product, bus, command) /\ Len(Expected) \in Nat
  BY <1>r, ExpectedIs
<1>4. Consumed + 1 \in Nat \ {0} /\ Len(arrived) <= Len(arrived)
  BY <1>t, <1>2
<1>5. IsLines(product, bus, arrived') /\ (Consumed = Len(arrived) => arrived' = <<>>)
  <2>1. IsLines(product, bus, arrived)
    BY DEF TypedInv, Lines
  <2>2. IsLines(product, bus, arrived')
    BY <1>t, <1>r, <1>4, <2>1, LinesSub
  <2>3. Len(arrived') = IF Consumed + 1 <= Len(arrived) THEN Len(arrived) - (Consumed + 1) + 1 ELSE 0
    BY <1>t, <1>r, <1>4, TextSub
  <2>4. Consumed = Len(arrived) => Len(arrived') = 0
    BY <1>t, <2>3
  <2> QED
    BY <2>2, <2>4, EmptyWhenNone DEF IsLines
<1>6. TypedTypeOK'
  BY <1>r, <1>1 DEF TypedInv, TypedTypeOK
<1>7. Stages'
  BY <1>r DEF TypedInv, Stages
<1>8. Lines'
  BY <1>r, <1>5 DEF TypedInv, Lines
<1>9. InStep'
  <2> SUFFICES ASSUME late = 0
               PROVE  arrived' = <<>> /\ coming' = <<>>
    BY <1>r DEF InStep, HasKinds
  <2>1. coming = <<>> /\ HasKinds(arrived, Expected)
    BY <1>r DEF TypedInv, InStep
  <2>2. Consumed = Len(arrived)
    BY <1>2, <2>1 DEF HasKinds
  <2> QED
    BY <1>r, <1>5, <2>1, <2>2
<1>10. Fresh'
  <2> SUFFICES ASSUME careful
               PROVE  /\ mask' \in {Unknown, outputs} /\ unit' \in {"unknown", scale}
                      /\ out.result = "OK" => arrived' = <<>> /\ coming' = <<>>
    BY <1>r DEF Fresh, Unknown
  <2>1. /\ mask \in {Unknown, outputs} /\ unit \in {"unknown", scale}
        /\ Len(arrived) + Len(coming) = Len(ReplyLines(product, bus, command))
    BY <1>r DEF TypedInv, Fresh
  <2>2. mask' \in {Unknown, outputs} /\ unit' \in {"unknown", scale}
    BY <1>r, <1>1, <2>1
  <2>3. out.result = "OK" => Consumed = Len(arrived) /\ Len(coming) = 0
    BY <1>t, <1>1, <1>2, <1>3, <2>1
  <2> QED
    BY <1>t, <1>r, <1>5, <2>2, <2>3, EmptyWhenNone
<1>11. Kept'
  <2>g. /\ got'.op = asked /\ got'.result = out.result /\ got'.value = out.value
        /\ got'.line = IF Complete THEN Payload ELSE NoLine
    BY <1>r
  <2>1. OwnAnswer'
    BY <1>r, <1>1, <2>g DEF OwnAnswer
  <2>2. MeansWhatItSays'
    BY <1>r, <1>1, <2>g DEF MeansWhatItSays
  <2>3. QuietSucceeds'
    <3> SUFFICES ASSUME careful, late = 0, out.result # "OK"
                 PROVE  MayBeRefused' \/ FourInVendorForm'
      BY <1>r, <2>g DEF QuietSucceeds
    <3>1. Complete
      BY <1>r, <1>2 DEF TypedInv, InStep
    <3>2. Refusable(asked, Payload, outputs)
      BY <1>1, <3>1
    <3> QED
      BY <1>r, <2>g, <3>1, <3>2 DEF Refusable, MayBeRefused, FourInVendorForm
  <2> QED
    BY <2>1, <2>2, <2>3 DEF Kept
<1> QED
  BY <1>6, <1>7, <1>8, <1>9, <1>10, <1>11 DEF TypedInv

LEMMA RestartInv == ASSUME TypedInv, Restart PROVE TypedInv'
<1>r. /\ phase = "failed" /\ phase' = "idle"
      /\ coming' = <<>> /\ arrived' = <<>> /\ mask' = Unknown /\ unit' = "unknown"
      /\ careful' = careful /\ product' = product /\ bus' = bus /\ outputs' = outputs
      /\ scale' = scale /\ asked' = asked /\ command' = command /\ got' = got
      /\ late' = late /\ sent' = sent
  BY DEF Restart, circuitVars
<1>1. TypedTypeOK'
  BY <1>r DEF TypedInv, TypedTypeOK
<1>2. Stages' /\ InStep' /\ Fresh'
  BY <1>r DEF TypedInv, Stages, InStep, Fresh
<1>3. Lines'
  BY <1>r, NoLines DEF Lines
<1>4. Kept'
  BY <1>r DEF TypedInv, Kept, OwnAnswer, MeansWhatItSays, QuietSucceeds, MayBeRefused,
              FourInVendorForm
<1> QED
  BY <1>1, <1>2, <1>3, <1>4 DEF TypedInv

LEMMA StutterInv == ASSUME TypedInv, UNCHANGED vars PROVE TypedInv'
<1>r. /\ careful' = careful /\ product' = product /\ bus' = bus /\ outputs' = outputs
      /\ scale' = scale /\ coming' = coming /\ arrived' = arrived /\ asked' = asked
      /\ command' = command /\ mask' = mask /\ unit' = unit /\ got' = got /\ phase' = phase
      /\ late' = late /\ sent' = sent
  BY DEF vars, circuitVars
<1>1. TypedTypeOK'
  BY <1>r DEF TypedInv, TypedTypeOK
<1>2. Stages' /\ Lines'
  BY <1>r DEF TypedInv, Stages, Lines, InProgress, Operation, NeedsMask, NeedsUnit
<1>3. InStep' /\ Fresh'
  BY <1>r DEF TypedInv, InStep, Fresh, HasKinds, Expected, Operation
<1>4. Kept'
  BY <1>r DEF TypedInv, Kept, OwnAnswer, MeansWhatItSays, QuietSucceeds, MayBeRefused,
              FourInVendorForm
<1> QED
  BY <1>1, <1>2, <1>3, <1>4 DEF TypedInv

-----------------------------------------------------------------------------
(***************************************************************************)
(* The theorems.                                                           *)
(***************************************************************************)
(* Every step of a program that uses the typed operations keeps the        *)
(* invariant: what is on the line is made of answers to commands of the    *)
(* product, and a careful program knows the configuration or nothing.      *)
THEOREM TypedInvariant == Spec => []TypedInv
<1>1. TypedInv /\ [Next]_vars => TypedInv'
  <2> SUFFICES ASSUME TypedInv, [Next]_vars
               PROVE  TypedInv'
    OBVIOUS
  <2>1. ASSUME NEW o \in DOMAIN Operations(product, bus), Send(o)
        PROVE  TypedInv'
    BY <2>1, SendInv
  <2>2. CASE Wait
    BY <2>2, WaitInv
  <2>3. CASE Read
    BY <2>3, ReadInv
  <2>4. CASE Restart
    BY <2>4, RestartInv
  <2>5. CASE Finished \/ UNCHANGED vars
    BY <2>5, StutterInv DEF Finished
  <2> QED
    BY <2>1, <2>2, <2>3, <2>4, <2>5 DEF Next
<1> QED
  BY InitInv, <1>1, PTL DEF Spec

(* The state has its types; in particular the mask or scale that a program *)
(* files readings under is one its product has.                            *)
THEOREM TypesHold == Spec => []TypedTypeOK
<1>1. TypedInv => TypedTypeOK
  BY DEF TypedInv
<1> QED
  BY TypedInvariant, <1>1, PTL

(* A typed query that succeeds has taken an answer to the same question,   *)
(* however stale the line is.                                              *)
THEOREM AnswersAreOwn == Spec => []OwnAnswer
<1>1. TypedInv => OwnAnswer
  BY DEF TypedInv, Kept
<1> QED
  BY TypedInvariant, <1>1, PTL

(* In a careful program a typed result is what the circuit meant, filed    *)
(* under the output or scale the circuit had when it answered.             *)
THEOREM ResultsMeanWhatTheySay == Spec => []MeansWhatItSays
<1>1. TypedInv => MeansWhatItSays
  BY DEF TypedInv, Kept
<1> QED
  BY TypedInvariant, <1>1, PTL

(* Unless a reply is late, each exchange leaves the line empty, whether    *)
(* its payload could be parsed or not.                                     *)
THEOREM QuietLinesStayInStep == Spec => []QuietStaysInStep
<1>1. TypedInv => QuietStaysInStep
  BY DEF TypedInv, InStep, QuietStaysInStep
<1> QED
  BY TypedInvariant, <1>1, PTL

(* Unless a reply is late, every typed operation of a careful program      *)
(* succeeds, but for the three cases named with the property.              *)
THEOREM QuietOperationsSucceed == Spec => []QuietSucceeds
<1>1. TypedInv => QuietSucceeds
  BY DEF TypedInv, Kept
<1> QED
  BY TypedInvariant, <1>1, PTL

=============================================================================
