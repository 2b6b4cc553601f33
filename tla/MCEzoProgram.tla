---------------------------- MODULE MCEzoProgram ----------------------------
(***************************************************************************)
(* Every example program, with every set of options, on circuits set up in *)
(* every way that makes a difference to it.                                *)
(***************************************************************************)
EXTENDS EzoProgramProps, TLC

On(names, p) == {[name |-> n, on |-> p] : n \in names}

MCAll ==
  UNION {On({"readiness_check", "inspect_device"}, p) : p \in {"PH", "EC", "RTD"}}
  \cup On({"readiness_check"}, "ORP") \cup On({"readiness_check"}, "DO")
  \cup On({"readiness_check"}, "HUM")
  \cup On({"read_ph", "ph_calibration", "ph_workflow", "ph_temp_comp_from_rtd", "control_workflow",
           "calibration_transfer"}, "PH")
  \cup On({"read_orp", "orp_calibration", "orp_workflow"}, "ORP")
  \cup On({"read_ec", "ec_calibration", "ec_workflow", "ec_temp_comp_from_rtd"}, "EC")
  \cup On({"read_do", "do_calibration", "do_workflow", "do_temp_comp_from_rtd",
           "do_salinity_comp_from_ec", "do_full_compensation_chain"}, "DO")
  \cup On({"read_hum", "hum_temperature_calibration", "hum_workflow", "transport_switch"}, "HUM")
  \cup On({"read_rtd", "rtd_calibration", "rtd_workflow"}, "RTD")

MCEcCalibration == On({"ec_calibration"}, "EC")

(* *DONE in place of the acknowledgement of each chunk, or of the last, or *)
(* after it, or none.                                                      *)
MCEndings == {"each", "last", "after", "none"}

(* What every circuit has, and what its product has besides. *)
Shared(locks) ==
  {[name |-> "TANK", led |-> "on", plock |-> l, baud |-> "9600", codes |-> c, mode |-> "awake"] :
     l \in locks, c \in {"on", "off"}}

With(settings, locks) == {s @@ c : s \in settings, c \in Shared(locks)}

MCCircuits ==
  [PH  |-> With({[temperature |-> 2000, calibration |-> "3", slope |-> "99", extended |-> "0",
                  chunks |-> 2]}, {"on", "off"}),
   ORP |-> With({[calibration |-> "1", extended |-> "0"]}, {"off"}),
   EC  |-> With({[output |-> o[1], form |-> o[2], temperature |-> 2000, probe_k |-> "1",
                  tds |-> "0.5", calibration |-> "2"] :
                   o \in {<<{}, "own">>, <<{"EC"}, "own">>, <<{"EC", "S"}, "own">>,
                          <<{"EC", "S"}, "vendor">>, <<{"EC", "TDS", "S", "SG"}, "own">>,
                          <<{"EC", "TDS", "S", "SG"}, "vendor">>}}, {"off"}),
   DO  |-> With({[output |-> o, temperature |-> 2000, salinity |-> <<0, "ppt">>, pressure |-> "101",
                  calibration |-> "1"] : o \in {{}, {"mg"}, {"mg", "%"}}}, {"off"}),
   RTD |-> With({[scale |-> s, calibration |-> "0", logger |-> m[1], memory |-> m[2]] :
                   s \in {"c", "k", "f"}, m \in {<<"0", 0>>, <<"0", 1>>, <<"0", 3>>, <<"0", 4>>, <<"1", 1>>}}, {"off"}),
   HUM |-> With({[output |-> o, calibration |-> "0"] :
                   o \in {{}, {"HUM"}, {"HUM", "Dew"}}}, {"on", "off"})]
=============================================================================
