--------------------------- MODULE EzoProgramProps ---------------------------
(***************************************************************************)
(* What the example programs promise the people who run them.              *)
(***************************************************************************)
EXTENDS EzoProgram

(* Types: every circuit keeps the settings its product has. *)
ProgramTypeOK ==
  /\ program \in Programs /\ bus \in {"uart", "i2c"}
  /\ DOMAIN config = Uses(program.name, program.on)
  /\ DOMAIN line = DOMAIN config /\ DOMAIN known = DOMAIN config
  /\ \A p \in DOMAIN config : \A c \in Circuits[p] : DOMAIN config[p] = DOMAIN c
  /\ exit \in {"running", "ok", "blocked", "error"}
  /\ failed \in BOOLEAN /\ faults \in 0 .. MaxFaults

Compensates == program.name \in
  {"ph_temp_comp_from_rtd", "ec_temp_comp_from_rtd", "do_temp_comp_from_rtd",
   "do_salinity_comp_from_ec", "do_full_compensation_chain"}

(* A compensation program sets a circuit to what the other circuit really  *)
(* measured: the water's temperature in degrees Celsius, in whatever scale *)
(* the RTD circuit reports it, and its salinity in ppt, only if the EC     *)
(* circuit reports it.                                                     *)
AppliedIsMeasured ==
  [][Compensates =>
       \A p \in DOMAIN config :
         /\ "temperature" \in DOMAIN config[p] =>
              config'[p].temperature \in {config[p].temperature, Water.temperature}
         /\ "salinity" \in DOMAIN config[p] =>
              \/ config'[p].salinity = config[p].salinity
              \/ config'[p].salinity = <<Water.salinity, "ppt">> /\ "S" \in config["EC"].output]_vars

(* examples/linux/uart/advanced/README.md:12-14: without --apply a program *)
(* only inspects; it turns the response codes on all the same.             *)
InspectionChangesNothing ==
  [][("apply" \notin flags) =>
       \A p \in DOMAIN config :
         [config'[p] EXCEPT !.codes = "on"] = [config[p] EXCEPT !.codes = "on"]]_vars

(* What a program that succeeds has read last of a circuit's settings is   *)
(* what the circuit is set to, whether or not its commands were obeyed:    *)
(* whatever a command changes, directly or not, is asked for again.  Only  *)
(* a program told to put the circuit to sleep, to reset it or to switch it *)
(* over does not ask again (control_workflow.c, transport_switch.c).       *)
LooksAgain ==
  /\ flags \cap {"send-sleep", "factory-reset"} = {}
  /\ program.name # "transport_switch"

ReportIsTrue ==
  (exit = "ok" /\ LooksAgain) =>
    \A p \in DOMAIN config :
      \A what \in DOMAIN known[p] \cap DOMAIN config[p] : known[p][what] = config[p][what]

(* Over a UART a program succeeds only if every command took effect, but   *)
(* for those after which it does not wait for an acknowledgement, sleep,   *)
(* factory reset and the switch of transport, and for the import, whose    *)
(* result it only reports.                                                 *)
SuccessMeansApplied ==
  (bus = "uart" /\ exit = "ok") => missed \subseteq {"mode", "import"}

(* A program that succeeds has taken every line the circuits sent, except  *)
(* those of the commands it does not wait for, a restart after an import,  *)
(* and what a circuit adds to an export that it has acknowledged: its      *)
(* *DONE is then taken for the result of the import.                       *)
SuccessLeavesNothing ==
  (bus = "uart" /\ exit = "ok" /\ export.ending # "after") =>
    \A p \in DOMAIN line : \A i \in DOMAIN line[p] :
      line[p][i].what = "mode" \/ line[p][i].kind = "RESET"

(* A program that succeeds has printed the circuit's calibration, every    *)
(* chunk of it once and in order, however the circuit ends its answers.    *)
(* Over a UART an export that is not whole, because an earlier one was     *)
(* broken off, is noticed; over I2C it is not.                             *)
ExportIsWhole ==
  (exit = "ok" /\ program.name = "calibration_transfer" /\ (bus = "uart" \/ export.first = 1)) =>
    export.printed = [i \in 1 .. config[program.on].chunks |-> i]

(* What fails although no command went wrong.  Reading a circuit that has  *)
(* all outputs off.                                                        *)
AllOff == \E p \in DOMAIN config : "output" \in DOMAIN config[p] /\ config[p].output = {}

(* An export goes on where an earlier one was broken off. *)
BrokenOff == program.name = "calibration_transfer" /\ export.first # 1

(* An EC circuit that lists all four outputs in the vendor's form: the     *)
(* parser has no room for its fields (EzoTypedProps, OutputsQueryable).    *)
LongListing ==
  "EC" \in DOMAIN config
    /\ config["EC"].form = "vendor" /\ config["EC"].output = {"EC", "TDS", "S", "SG"}

(* Memory for which rtd_workflow has room, and the response has not.       *)
LongMemory ==
  /\ program.name = "rtd_workflow" /\ config["RTD"].logger = "0"
  /\ config["RTD"].memory \in ResponseValues + 1 .. MemoryCapacity

(* The acknowledgements are turned off, and one more is awaited. *)
TurnsCodesOff == "set-response-codes" \in flags /\ "codes-on" \notin flags

(* ... and the probe K alone (ProbeKAlone). *)
OnlyProbeK ==
  program.name = "ec_calibration" /\ bus = "uart" /\ {"status", "probe-k", "apply"} \subseteq flags

(* But for these six every program succeeds: it asks for what it needs     *)
(* before it reads, awaits what the circuits send and nothing else, and    *)
(* recalls memory only when it may.                                        *)
UndisturbedSucceeds ==
  (exit = "error" /\ faults = 0) =>
    AllOff \/ LongListing \/ LongMemory \/ OnlyProbeK \/ BrokenOff \/ TurnsCodesOff

(* ... examples/linux/uart/advanced/ec_calibration.c:2: the program checks *)
(* "optional probe-K setup"; with --probe-k and --apply it sets K and      *)
(* reports it.                                                             *)
ProbeKAlone == (exit = "error" /\ faults = 0) => AllOff \/ LongListing

(* A circuit is switched to another transport only with its protocol lock  *)
(* off, whoever set it.                                                    *)
SwitchedUnlocked ==
  \A p \in DOMAIN config : config[p].mode \in {"i2c", "new baud"} => config[p].plock = "off"
=============================================================================
