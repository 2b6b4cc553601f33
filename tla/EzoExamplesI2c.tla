--------------------------- MODULE EzoExamplesI2c ---------------------------
(***************************************************************************)
(* The example programs for Linux and I2C, examples/linux/i2c.  Each makes *)
(* the calls of its UART namesake, except those that I2C has no use for    *)
(* (OverI2c); the shared-control inspection alone differs: it carries on   *)
(* after a failed query and reports the first failure at the end.          *)
(***************************************************************************)
EXTENDS EzoExamplesUart

ReadPhI2c == OverI2c(ReadPh)
ReadOrpI2c == OverI2c(ReadOrp)
ReadEcI2c == OverI2c(ReadEc)
ReadDoI2c == OverI2c(ReadDo)
ReadHumI2c == OverI2c(ReadHum)
ReadRtdI2c == OverI2c(ReadRtd)
PhTempCompOptionsI2c == PhTempCompOptions
PhTempCompLookI2c == OverI2c(PhTempCompLook)
PhTempCompApplyI2c == OverI2c(PhTempCompApply)
EcTempCompOptionsI2c == EcTempCompOptions
EcTempCompLookI2c == OverI2c(EcTempCompLook)
EcTempCompApplyI2c == OverI2c(EcTempCompApply)
DoTempCompOptionsI2c == DoTempCompOptions
DoTempCompLookI2c == OverI2c(DoTempCompLook)
DoTempCompApplyI2c == OverI2c(DoTempCompApply)
DoSalinityCompOptionsI2c == DoSalinityCompOptions
DoSalinityCompLookI2c == OverI2c(DoSalinityCompLook)
DoSalinityCompApplyI2c == OverI2c(DoSalinityCompApply)
DoFullChainOptionsI2c == DoFullChainOptions
DoFullChainLookI2c == OverI2c(DoFullChainLook)
DoFullChainApplyI2c == OverI2c(DoFullChainApply)
PhCalibrationOptionsI2c == PhCalibrationOptions
PhCalibrationLookI2c(f) == OverI2c(PhCalibrationLook(f))
PhCalibrationApplyI2c(f) == OverI2c(PhCalibrationApply(f))
OrpCalibrationOptionsI2c == OrpCalibrationOptions
OrpCalibrationLookI2c(f) == OverI2c(OrpCalibrationLook(f))
OrpCalibrationApplyI2c(f) == OverI2c(OrpCalibrationApply(f))
EcCalibrationOptionsI2c == EcCalibrationOptions
EcCalibrationLookI2c(f) == OverI2c(EcCalibrationLook(f))
EcCalibrationApplyI2c(f) == OverI2c(EcCalibrationApply(f))
DoCalibrationOptionsI2c == DoCalibrationOptions
DoCalibrationLookI2c(f) == OverI2c(DoCalibrationLook(f))
DoCalibrationApplyI2c(f) == OverI2c(DoCalibrationApply(f))
RtdCalibrationOptionsI2c == RtdCalibrationOptions
RtdCalibrationLookI2c(f) == OverI2c(RtdCalibrationLook(f))
RtdCalibrationApplyI2c(f) == OverI2c(RtdCalibrationApply(f))
HumCalibrationOptionsI2c == HumCalibrationOptions
HumCalibrationLookI2c(f) == OverI2c(HumCalibrationLook(f))
HumCalibrationApplyI2c(f) == OverI2c(HumCalibrationApply(f))
PhWorkflowOptionsI2c == PhWorkflowOptions
PhWorkflowLookI2c == OverI2c(PhWorkflowLook)
PhWorkflowApplyI2c == OverI2c(PhWorkflowApply)
OrpWorkflowOptionsI2c == OrpWorkflowOptions
OrpWorkflowLookI2c == OverI2c(OrpWorkflowLook)
OrpWorkflowApplyI2c == OverI2c(OrpWorkflowApply)
EcWorkflowOptionsI2c == EcWorkflowOptions
EcWorkflowLookI2c == OverI2c(EcWorkflowLook)
EcWorkflowApplyI2c(f) == OverI2c(EcWorkflowApply(f))
DoWorkflowOptionsI2c == DoWorkflowOptions
DoWorkflowLookI2c == OverI2c(DoWorkflowLook)
DoWorkflowApplyI2c(f) == OverI2c(DoWorkflowApply(f))
HumWorkflowOptionsI2c == HumWorkflowOptions
HumWorkflowLookI2c == OverI2c(HumWorkflowLook)
HumWorkflowApplyI2c(f) == OverI2c(HumWorkflowApply(f))
RtdWorkflowOptionsI2c == RtdWorkflowOptions
RtdWorkflowLookI2c == OverI2c(RtdWorkflowLook)
RtdWorkflowApplyI2c(f) == OverI2c(RtdWorkflowApply(f))
ControlWorkflowOptionsI2c == {f \ {"set-response-codes"} : f \in ControlWorkflowOptions}
ControlWorkflowLookI2c(p) == OverI2c(ControlWorkflowLook(p))
ControlWorkflowApplyI2c(p, f) == OverI2c(ControlWorkflowApply(p, f))
ControlWorkflowAfterI2c(p, f) == OverI2c(ControlWorkflowAfter(p, f))
TransportSwitchOptionsI2c == {f \cup {"target-uart"} : f \in TransportSwitchOptions}
TransportSwitchLookI2c(p) == OverI2c(TransportSwitchLook(p))
TransportSwitchApplyI2c(p, f) == OverI2c(TransportSwitchApply(p, f))
CalibrationTransferOptionsI2c == CalibrationTransferOptions
CalibrationTransferLookI2c(p) == OverI2c(CalibrationTransferLook(p))
CalibrationTransferApplyI2c(p) == OverI2c(CalibrationTransferApply(p))
ProductReadinessI2c(p) == OverI2c(ProductReadiness(p))

-----------------------------------------------------------------------------
SharedControlI2c(p) ==
  GoingOn(Asks(p, <<"name", "status", "led", "plock">>)) \o Step("raise", p, "first error")

InspectDeviceI2c(p) == Open(p) \o Ask(p, "info") \o SharedControlI2c(p)

ReadinessCheckI2c(p) == InspectDeviceI2c(p) \o ProductReadinessI2c(p)

-----------------------------------------------------------------------------
(* The programs by name: their options, and their scripts under options f. *)
OptionsOverI2c(n) ==
  CASE n = "ph_temp_comp_from_rtd"       -> PhTempCompOptionsI2c
    [] n = "ec_temp_comp_from_rtd"       -> EcTempCompOptionsI2c
    [] n = "do_temp_comp_from_rtd"       -> DoTempCompOptionsI2c
    [] n = "do_salinity_comp_from_ec"    -> DoSalinityCompOptionsI2c
    [] n = "do_full_compensation_chain"  -> DoFullChainOptionsI2c
    [] n = "ph_calibration"              -> PhCalibrationOptionsI2c
    [] n = "orp_calibration"             -> OrpCalibrationOptionsI2c
    [] n = "ec_calibration"              -> EcCalibrationOptionsI2c
    [] n = "do_calibration"              -> DoCalibrationOptionsI2c
    [] n = "rtd_calibration"             -> RtdCalibrationOptionsI2c
    [] n = "hum_temperature_calibration" -> HumCalibrationOptionsI2c
    [] n = "ph_workflow"                 -> PhWorkflowOptionsI2c
    [] n = "orp_workflow"                -> OrpWorkflowOptionsI2c
    [] n = "ec_workflow"                 -> EcWorkflowOptionsI2c
    [] n = "do_workflow"                 -> DoWorkflowOptionsI2c
    [] n = "hum_workflow"                -> HumWorkflowOptionsI2c
    [] n = "rtd_workflow"                -> RtdWorkflowOptionsI2c
    [] n = "control_workflow"            -> ControlWorkflowOptionsI2c
    [] n = "transport_switch"            -> TransportSwitchOptionsI2c
    [] n = "calibration_transfer"        -> CalibrationTransferOptionsI2c
    [] OTHER -> {{}}

ScriptOverI2c(n, p, f) ==
  CASE n = "read_ph" -> ReadPhI2c
    [] n = "read_orp" -> ReadOrpI2c
    [] n = "read_ec" -> ReadEcI2c
    [] n = "read_do" -> ReadDoI2c
    [] n = "read_hum" -> ReadHumI2c
    [] n = "read_rtd" -> ReadRtdI2c
    [] n = "ph_temp_comp_from_rtd" -> Applied(f, PhTempCompLookI2c, PhTempCompApplyI2c)
    [] n = "ec_temp_comp_from_rtd" -> Applied(f, EcTempCompLookI2c, EcTempCompApplyI2c)
    [] n = "do_temp_comp_from_rtd" -> Applied(f, DoTempCompLookI2c, DoTempCompApplyI2c)
    [] n = "do_salinity_comp_from_ec" -> Applied(f, DoSalinityCompLookI2c, DoSalinityCompApplyI2c)
    [] n = "do_full_compensation_chain" -> Applied(f, DoFullChainLookI2c, DoFullChainApplyI2c)
    [] n = "ph_calibration" -> Applied(f, PhCalibrationLookI2c(f), PhCalibrationApplyI2c(f))
    [] n = "orp_calibration" -> Applied(f, OrpCalibrationLookI2c(f), OrpCalibrationApplyI2c(f))
    [] n = "ec_calibration" -> Applied(f, EcCalibrationLookI2c(f), EcCalibrationApplyI2c(f))
    [] n = "do_calibration" -> Applied(f, DoCalibrationLookI2c(f), DoCalibrationApplyI2c(f))
    [] n = "rtd_calibration" -> Applied(f, RtdCalibrationLookI2c(f), RtdCalibrationApplyI2c(f))
    [] n = "hum_temperature_calibration" -> Applied(f, HumCalibrationLookI2c(f), HumCalibrationApplyI2c(f))
    [] n = "ph_workflow" -> Applied(f, PhWorkflowLookI2c, PhWorkflowApplyI2c)
    [] n = "orp_workflow" -> Applied(f, OrpWorkflowLookI2c, OrpWorkflowApplyI2c)
    [] n = "ec_workflow" -> Applied(f, EcWorkflowLookI2c, EcWorkflowApplyI2c(f))
    [] n = "do_workflow" -> Applied(f, DoWorkflowLookI2c, DoWorkflowApplyI2c(f))
    [] n = "hum_workflow" -> Applied(f, HumWorkflowLookI2c, HumWorkflowApplyI2c(f))
    [] n = "rtd_workflow" -> Applied(f, RtdWorkflowLookI2c, RtdWorkflowApplyI2c(f))
    [] n = "control_workflow" ->
         Applied(f, ControlWorkflowLookI2c(p), ControlWorkflowApplyI2c(p, f) \o ControlWorkflowAfterI2c(p, f))
    [] n = "transport_switch" -> Applied(f, TransportSwitchLookI2c(p), TransportSwitchApplyI2c(p, f))
    [] n = "calibration_transfer" ->
         Applied(f, CalibrationTransferLookI2c(p), CalibrationTransferApplyI2c(p))
    [] n = "inspect_device" -> InspectDeviceI2c(p)
    [] n = "readiness_check" -> ReadinessCheckI2c(p)
=============================================================================
