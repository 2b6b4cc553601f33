--------------------------- MODULE EzoExamplesUart ---------------------------
(***************************************************************************)
(* The example programs for Linux and UART, examples/linux/uart, as        *)
(* scripts.  An argument f is the set of options a program is run with; a  *)
(* program looks first, and applies what is planned only with --apply.     *)
(***************************************************************************)
EXTENDS EzoScript

CONSTANTS
  PreviewSamples,     \* --preview-samples of the calibration programs
  SequentialCount     \* --sequential-count of the RTD workflow

(* The sets of options a program may be run with; values an option sets    *)
(* are left to the commands that use them.                                 *)
Flags(options) == SUBSET ({"apply"} \cup options)

Staged(steps, options) == {{s} \cup f : s \in steps, f \in Flags(options)}

Begin(p) == Open(p) \o Boot(p)

(* typed/read_*.c *)
ReadPh == Begin("PH") \o Ask("PH", "read")

ReadOrp == Begin("ORP") \o Ask("ORP", "read")

ReadEc == Begin("EC") \o Asks("EC", <<"output", "read">>)

ReadDo == Begin("DO") \o Asks("DO", <<"output", "read">>)

ReadHum == Begin("HUM") \o Asks("HUM", <<"output", "read">>)

ReadRtd == Begin("RTD") \o Asks("RTD", <<"scale", "read">>)

-----------------------------------------------------------------------------
(* advanced/*_temp_comp_from_rtd.c, do_salinity_comp_from_ec.c and         *)
(* do_full_compensation_chain.c: one circuit measures what another one     *)
(* compensates for.                                                        *)
Begins(ps) ==
  [i \in DOMAIN ps |-> Call("open", ps[i], "session", "none")]
  \o Boot(ps[1]) \o Boot(ps[2]) \o (IF Len(ps) = 3 THEN Boot(ps[3]) ELSE <<>>)

PhTempCompOptions == Flags({})

PhTempCompLook ==
  Begins(<<"RTD", "PH">>) \o MeasuredCelsius \o Asks("PH", <<"temperature", "read">>)

PhTempCompApply ==
  Set("PH", "temperature", "celsius") \o Asks("PH", <<"temperature", "read">>)

EcTempCompOptions == Flags({})

EcTempCompLook ==
  Begins(<<"RTD", "EC">>) \o MeasuredCelsius \o Asks("EC", <<"output", "temperature", "read">>)

EcTempCompApply ==
  Set("EC", "temperature", "celsius") \o Asks("EC", <<"temperature", "read">>)

DoTempCompOptions == Flags({})

DoTempCompLook ==
  Begins(<<"RTD", "DO">>) \o MeasuredCelsius \o Asks("DO", <<"output", "temperature", "read">>)

DoTempCompApply ==
  Set("DO", "temperature", "celsius") \o Asks("DO", <<"temperature", "read">>)

DoSalinityCompOptions == Flags({})

DoSalinityCompLook ==
  Begins(<<"EC", "DO">>) \o Asks("EC", <<"output", "read">>)
  \o Asks("DO", <<"output", "salinity", "read">>)

DoSalinityCompApply ==
  Need("EC", "salinity measured")
  \o Set("DO", "salinity", "ppt") \o Asks("DO", <<"salinity", "read">>)

DoFullChainOptions == Flags({})

DoFullChainLook ==
  Begins(<<"RTD", "EC", "DO">>) \o MeasuredCelsius \o Asks("EC", <<"output", "read">>)
  \o Asks("DO", <<"output", "temperature", "salinity", "pressure", "read">>)

DoFullChainApply ==
  Need("EC", "salinity measured")
  \o Set("DO", "temperature", "celsius") \o Set("DO", "salinity", "ppt")
  \o Set("DO", "pressure", "planned")
  \o Asks("DO", <<"temperature", "salinity", "pressure", "read">>)

-----------------------------------------------------------------------------
(* advanced/*_calibration.c: one calibration step, chosen with --step.     *)
Steps == {"status", "clear", "dry", "single", "low", "mid", "high", "calibrate",
          "operating-temp-recal"}

StepOf(f) == CHOOSE s \in Steps : s \in f

(* Whatever does not just ask or clear is previewed.                       *)
Previewed(p, f) ==
  If(StepOf(f) \notin {"status", "clear"}, Preview(p, PreviewSamples))

Calibrate(p, f) == If(StepOf(f) # "status", Tell(p, "calibration", StepOf(f)))

Confirmed(p, f, whats) == If(StepOf(f) # "status", Ack(p) \o Asks(p, whats))

PhCalibrationOptions == Staged({"status", "mid", "low", "high", "clear"}, {})

PhCalibrationLook(f) ==
  Begin("PH") \o Asks("PH", <<"temperature", "calibration", "slope">>) \o Previewed("PH", f)

(* Mutant: the slope is not asked for again. *)
PhCalibrationApplyBrief(f) == Calibrate("PH", f) \o Confirmed("PH", f, <<"calibration">>)

PhCalibrationApply(f) == Calibrate("PH", f) \o Confirmed("PH", f, <<"calibration", "slope">>)

OrpCalibrationOptions == Staged({"status", "calibrate", "clear"}, {})

OrpCalibrationLook(f) ==
  Begin("ORP") \o Asks("ORP", <<"calibration", "extended">>) \o Previewed("ORP", f)

OrpCalibrationApply(f) == Calibrate("ORP", f) \o Confirmed("ORP", f, <<"calibration">>)

EcCalibrationOptions ==
  Staged({"status", "dry", "single", "low", "high", "clear"}, {"probe-k"})

EcCalibrationLook(f) ==
  Begin("EC") \o Asks("EC", <<"output", "temperature", "probe_k", "calibration">>)
  \o Previewed("EC", f)

(* Mutant and repair: no acknowledgement when there was no calibration. *)
EcCalibrationApplyOnce(f) ==
  If("probe-k" \in f, Set("EC", "probe_k", "planned"))
  \o Calibrate("EC", f)
  \o If(StepOf(f) # "status", Ack("EC"))
  \o If(StepOf(f) # "status" \/ "probe-k" \in f, Asks("EC", <<"probe_k", "calibration">>))

(* With --probe-k and without a step the second acknowledgement is awaited *)
(* although only one command was sent.                                     *)
EcCalibrationApply(f) ==
  If("probe-k" \in f, Set("EC", "probe_k", "planned"))
  \o Calibrate("EC", f)
  \o If(StepOf(f) # "status" \/ "probe-k" \in f,
        Ack("EC") \o Asks("EC", <<"probe_k", "calibration">>))

DoCalibrationOptions == Staged({"status", "low", "high", "clear", "operating-temp-recal"}, {})

DoCalibrationLook(f) ==
  Begin("DO") \o Asks("DO", <<"output", "temperature", "salinity", "pressure", "calibration">>)
  \o Previewed("DO", f)

DoCalibrationApply(f) ==
  If(StepOf(f) = "operating-temp-recal", Set("DO", "temperature", "planned"))
  \o Calibrate("DO", f) \o Confirmed("DO", f, <<"temperature", "calibration">>)

RtdCalibrationOptions == Staged({"status", "calibrate", "clear"}, {})

RtdCalibrationLook(f) ==
  Begin("RTD") \o Asks("RTD", <<"scale", "calibration">>) \o Previewed("RTD", f)

RtdCalibrationApply(f) == Calibrate("RTD", f) \o Confirmed("RTD", f, <<"calibration">>)

HumCalibrationOptions == Staged({"status", "calibrate", "clear"}, {})

HumCalibrationLook(f) ==
  Begin("HUM") \o Asks("HUM", <<"output", "calibration">>) \o Previewed("HUM", f)

HumCalibrationApply(f) == Calibrate("HUM", f) \o Confirmed("HUM", f, <<"calibration">>)

-----------------------------------------------------------------------------
(* advanced/*_workflow.c of the products *)
PhWorkflowOptions == Flags({})

PhWorkflowLook ==
  Begin("PH")
  \o Asks("PH", <<"temperature", "calibration", "slope", "extended", "read", "read_compensated">>)

PhWorkflowApply ==
  Set("PH", "temperature", "planned") \o Set("PH", "extended", "planned")
  \o Asks("PH", <<"temperature", "extended", "read">>)

OrpWorkflowOptions == Flags({})

OrpWorkflowLook == Begin("ORP") \o Asks("ORP", <<"read", "calibration", "extended">>)

OrpWorkflowApply == Set("ORP", "extended", "planned") \o Asks("ORP", <<"extended", "read">>)

(* An output is turned on or off, as asked. *)
SetOutput(p, f, name) ==
  Set(p, IF "disable-output" \in f THEN "output_off" ELSE "output_on", name)

EcWorkflowOptions == Flags({"disable-output"})

EcWorkflowLook ==
  Begin("EC")
  \o Asks("EC", <<"output", "temperature", "probe_k", "tds", "calibration", "read", "read_compensated">>)

EcWorkflowApply(f) ==
  Set("EC", "temperature", "planned") \o Set("EC", "probe_k", "planned")
  \o Set("EC", "tds", "planned") \o SetOutput("EC", f, "S")
  \o Asks("EC", <<"output", "temperature", "probe_k", "tds", "read">>)

DoWorkflowOptions == Flags({"disable-output"})

DoWorkflowLook ==
  Begin("DO")
  \o Asks("DO", <<"output", "temperature", "salinity", "pressure", "calibration", "read",
                  "read_compensated">>)

(* Mutant: the reading is taken under the outputs known from before. *)
DoWorkflowApplyStale(f) ==
  Set("DO", "temperature", "planned") \o Set("DO", "salinity", "planned")
  \o Set("DO", "pressure", "planned") \o SetOutput("DO", f, "%")
  \o Asks("DO", <<"temperature", "salinity", "pressure", "read">>)

DoWorkflowApply(f) ==
  Set("DO", "temperature", "planned") \o Set("DO", "salinity", "planned")
  \o Set("DO", "pressure", "planned") \o SetOutput("DO", f, "%")
  \o Asks("DO", <<"output", "temperature", "salinity", "pressure", "read">>)

HumWorkflowOptions == Flags({"disable-output"})

HumWorkflowLook == Begin("HUM") \o Asks("HUM", <<"output", "calibration", "read">>)

HumWorkflowApply(f) ==
  SetOutput("HUM", f, "Dew") \o Set("HUM", "calibration", "calibrate")
  \o Asks("HUM", <<"output", "calibration", "read">>)

RtdWorkflowOptions == Flags({"clear-memory"})

(* The memory is recalled only while the logger is stopped and it fits,    *)
(* entry by entry only as far as it goes.                                  *)
RtdWorkflowLook ==
  Begin("RTD") \o Asks("RTD", <<"scale", "calibration", "logger", "memory">>)
  \o When("some memory", Ask("RTD", "memory_all"))
  \o [i \in 1 .. SequentialCount |->
        Made(Call("ask", "RTD", "memory_next", "none"),
             IF i = 1 THEN "some memory" ELSE "more memory", "stops")]

RtdWorkflowApply(f) ==
  Set("RTD", "scale", "k") \o Set("RTD", "logger", "planned")
  \o If("clear-memory" \in f, Set("RTD", "memory", "clear"))
  \o Asks("RTD", <<"scale", "logger", "memory">>)

-----------------------------------------------------------------------------
(* advanced/control_workflow.c and transport_switch.c: p is the circuit.   *)
ControlWorkflowOptions ==
  Flags({"set-name", "set-led", "set-protocol-lock", "send-find", "send-sleep", "factory-reset",
         "set-response-codes", "unlock", "codes-on"})

(* --set-protocol-lock takes 0 or 1, and so does --set-response-codes: 1   *)
(* is what the bootstrap has seen to, and is acknowledged as there.        *)
SetLock(p, f) == Set(p, "plock", IF "unlock" \in f THEN "off" ELSE "on")

SetCodes(p, f) ==
  IF "codes-on" \in f THEN Tell(p, "codes", "on") \o Step("ack", p, "codes")
  ELSE Set(p, "codes", "off")

ControlWorkflowLook(p) ==
  Begin(p) \o Asks(p, <<"info", "name", "status", "led", "plock", "baud", "codes">>)

(* Nothing is read after a command that puts the circuit to sleep or       *)
(* resets it.                                                              *)
ControlWorkflowApply(p, f) ==
  If("set-name" \in f, Set(p, "name", "planned"))
  \o If("set-led" \in f, Set(p, "led", "planned"))
  \o If("set-protocol-lock" \in f, SetLock(p, f))
  \o If("send-find" \in f, Set(p, "find", "planned"))
  \o If("send-sleep" \in f, Tell(p, "mode", "asleep"))
  \o If("factory-reset" \in f, Tell(p, "mode", "reset"))

ControlWorkflowAfter(p, f) ==
  If({"send-sleep", "factory-reset"} \cap f = {},
     Asks(p, <<"name", "led", "plock", "baud">>)
     \o If("set-response-codes" \in f, SetCodes(p, f) \o Ask(p, "codes")))

TransportSwitchOptions == Flags({"target-uart"})

TransportSwitchLook(p) == Begin(p) \o Asks(p, <<"info", "plock", "baud", "codes">>)

(* Mutant: the lock is not looked at. *)
TransportSwitchApplyBlind(p, f) == Tell(p, "mode", IF "target-uart" \in f THEN "new baud" ELSE "i2c")

TransportSwitchApply(p, f) ==
  Need(p, "unlocked") \o Tell(p, "mode", IF "target-uart" \in f THEN "new baud" ELSE "i2c")

-----------------------------------------------------------------------------
(* advanced/calibration_transfer.c: the calibration is exported, chunk by  *)
(* chunk, and with --apply another one is imported.                        *)
CalibrationTransferOptions == Flags({})

CalibrationTransferLook(p) == Begin(p) \o Ask(p, "chunks") \o Step("export", p, "chunks")

CalibrationTransferApply(p) == Tell(p, "import", "imported") \o Step("result", p, "import")

-----------------------------------------------------------------------------
(* commissioning/inspect_device.c and readiness_check.c *)
SharedControl(p) == Asks(p, <<"name", "status", "led", "plock", "baud", "codes">>)

InspectDevice(p) == Begin(p) \o Ask(p, "info") \o SharedControl(p)

ProductReadiness(p) ==
  Asks(p, [PH  |-> <<"temperature", "calibration", "slope", "extended">>,
           ORP |-> <<"calibration", "extended">>,
           EC  |-> <<"output", "temperature", "probe_k", "tds", "calibration">>,
           DO  |-> <<"output", "temperature", "salinity", "pressure", "calibration">>,
           RTD |-> <<"scale", "calibration", "logger", "memory">>,
           HUM |-> <<"output", "calibration">>][p])

ReadinessCheck(p) == InspectDevice(p) \o ProductReadiness(p)

-----------------------------------------------------------------------------
(* The programs by name: their options, and their scripts under options f. *)
OptionsOf(n) ==
  CASE n = "ph_temp_comp_from_rtd"       -> PhTempCompOptions
    [] n = "ec_temp_comp_from_rtd"       -> EcTempCompOptions
    [] n = "do_temp_comp_from_rtd"       -> DoTempCompOptions
    [] n = "do_salinity_comp_from_ec"    -> DoSalinityCompOptions
    [] n = "do_full_compensation_chain"  -> DoFullChainOptions
    [] n = "ph_calibration"              -> PhCalibrationOptions
    [] n = "orp_calibration"             -> OrpCalibrationOptions
    [] n = "ec_calibration"              -> EcCalibrationOptions
    [] n = "do_calibration"              -> DoCalibrationOptions
    [] n = "rtd_calibration"             -> RtdCalibrationOptions
    [] n = "hum_temperature_calibration" -> HumCalibrationOptions
    [] n = "ph_workflow"                 -> PhWorkflowOptions
    [] n = "orp_workflow"                -> OrpWorkflowOptions
    [] n = "ec_workflow"                 -> EcWorkflowOptions
    [] n = "do_workflow"                 -> DoWorkflowOptions
    [] n = "hum_workflow"                -> HumWorkflowOptions
    [] n = "rtd_workflow"                -> RtdWorkflowOptions
    [] n = "control_workflow"            -> ControlWorkflowOptions
    [] n = "transport_switch"            -> TransportSwitchOptions
    [] n = "calibration_transfer"        -> CalibrationTransferOptions
    [] OTHER -> {{}}

(* Mutant: what is planned is applied unasked. *)
AppliedAlways(f, look, apply) == look \o apply

Applied(f, look, apply) == look \o If("apply" \in f, apply)

Script(n, p, f) ==
  CASE n = "read_ph" -> ReadPh
    [] n = "read_orp" -> ReadOrp
    [] n = "read_ec" -> ReadEc
    [] n = "read_do" -> ReadDo
    [] n = "read_hum" -> ReadHum
    [] n = "read_rtd" -> ReadRtd
    [] n = "ph_temp_comp_from_rtd" -> Applied(f, PhTempCompLook, PhTempCompApply)
    [] n = "ec_temp_comp_from_rtd" -> Applied(f, EcTempCompLook, EcTempCompApply)
    [] n = "do_temp_comp_from_rtd" -> Applied(f, DoTempCompLook, DoTempCompApply)
    [] n = "do_salinity_comp_from_ec" -> Applied(f, DoSalinityCompLook, DoSalinityCompApply)
    [] n = "do_full_compensation_chain" -> Applied(f, DoFullChainLook, DoFullChainApply)
    [] n = "ph_calibration" -> Applied(f, PhCalibrationLook(f), PhCalibrationApply(f))
    [] n = "orp_calibration" -> Applied(f, OrpCalibrationLook(f), OrpCalibrationApply(f))
    [] n = "ec_calibration" -> Applied(f, EcCalibrationLook(f), EcCalibrationApply(f))
    [] n = "do_calibration" -> Applied(f, DoCalibrationLook(f), DoCalibrationApply(f))
    [] n = "rtd_calibration" -> Applied(f, RtdCalibrationLook(f), RtdCalibrationApply(f))
    [] n = "hum_temperature_calibration" -> Applied(f, HumCalibrationLook(f), HumCalibrationApply(f))
    [] n = "ph_workflow" -> Applied(f, PhWorkflowLook, PhWorkflowApply)
    [] n = "orp_workflow" -> Applied(f, OrpWorkflowLook, OrpWorkflowApply)
    [] n = "ec_workflow" -> Applied(f, EcWorkflowLook, EcWorkflowApply(f))
    [] n = "do_workflow" -> Applied(f, DoWorkflowLook, DoWorkflowApply(f))
    [] n = "hum_workflow" -> Applied(f, HumWorkflowLook, HumWorkflowApply(f))
    [] n = "rtd_workflow" -> Applied(f, RtdWorkflowLook, RtdWorkflowApply(f))
    [] n = "control_workflow" ->
         Applied(f, ControlWorkflowLook(p), ControlWorkflowApply(p, f) \o ControlWorkflowAfter(p, f))
    [] n = "transport_switch" -> Applied(f, TransportSwitchLook(p), TransportSwitchApply(p, f))
    [] n = "calibration_transfer" ->
         Applied(f, CalibrationTransferLook(p), CalibrationTransferApply(p))
    [] n = "inspect_device" -> InspectDevice(p)
    [] n = "readiness_check" -> ReadinessCheck(p)

-----------------------------------------------------------------------------
(* The programs, each on a circuit it is made for.                         *)
Products == {"PH", "ORP", "EC", "DO", "RTD", "HUM"}

MadeFor(n) ==
  CASE n \in {"read_ph", "ph_calibration", "ph_workflow", "ph_temp_comp_from_rtd"} -> {"PH"}
    [] n \in {"read_orp", "orp_calibration", "orp_workflow"} -> {"ORP"}
    [] n \in {"read_ec", "ec_calibration", "ec_workflow", "ec_temp_comp_from_rtd"} -> {"EC"}
    [] n \in {"read_do", "do_calibration", "do_workflow", "do_temp_comp_from_rtd",
               "do_salinity_comp_from_ec", "do_full_compensation_chain"} -> {"DO"}
    [] n \in {"read_rtd", "rtd_calibration", "rtd_workflow"} -> {"RTD"}
    [] n \in {"read_hum", "hum_temperature_calibration", "hum_workflow"} -> {"HUM"}
    [] n \in {"control_workflow", "transport_switch", "inspect_device", "readiness_check"} -> Products
    [] n = "calibration_transfer" -> Products \ {"HUM"}
    [] OTHER -> {}

Examples == {g \in [name : STRING, on : Products] : g.on \in MadeFor(g.name)}
=============================================================================
