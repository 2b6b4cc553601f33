----------------------------- MODULE EzoI2cProps -----------------------------
(***************************************************************************)
(* What the I2C core guarantees.                                           *)
(***************************************************************************)
EXTENDS EzoI2c

Returned == [op : ReadOps \cup {"send", "none"}, res : Results, status : Statuses,
            of : CmdNo, len : 0 .. MaxPayload + 1, whole : BOOLEAN]

(* Types; a read in progress has a buffer the core's frame has room for.   *)
I2cTypeOK ==
  /\ transport \in Transports
  /\ address \in [Device -> Addr]
  /\ last \in [Device -> Statuses]
  /\ call \in [Device -> [op : ReadOps \cup {"send", "none"}, cap : 0 .. MaxText,
                          at : {"idle", "select", "transfer"}]]
  /\ slave \in [Device -> Addr \cup {NoAddr}]
  /\ ret \in [Device -> Returned]
  /\ circuit \in [Present -> [state : {"empty", "busy", "done", "refused", "garbled"},
                              of : CmdNo, len : {0} \cup Lens]]
  /\ sends \in CmdNo /\ faults \in 0 .. MaxFaults
  /\ latest \in [Device -> CmdNo] /\ fresh \in [Device -> BOOLEAN]
  /\ mine \in [Device -> [Addr -> CmdNo]]

Asked(d) == mine[d][address[d]]

(* Devices that keep to circuits of their own. *)
Exclusive(d) == \A e \in Device \ {d} : mine[e][address[d]] = 0

(* A typed read that succeeds delivers, as far as its circuit goes, the    *)
(* reply to the latest command this device got through to the circuit at   *)
(* its address: not that of a circuit it talked to before its address was  *)
(* changed, nor that of another device's circuit, nor the empty text of a  *)
(* frame that says not ready or no data.                                   *)
TypedReadIsOwn ==
  [][\A d \in Device :
       (call[d].op = "typed" /\ ret'[d] # ret[d] /\ ret'[d].res = "OK" /\ Exclusive(d))
       => ret'[d].of = Asked(d) /\ ret'[d].status = "SUCCESS"]_vars

(* Wire's buffer is full: it has room for the status and this much text.   *)
FillsWire(d) == transport = "wire" /\ ret[d].len + 1 = WireBuffer

(* A text handed to the caller is the whole text of the circuit's reply:   *)
(* one that does not fit its buffer is reported, never cut                 *)
(* (tests/test_ezo_i2c.c,                                                  *)
(* test_read_response_requires_space_for_null_terminator).  Only what does *)
(* not fit Wire's buffer either is cut, there and with EZO_OK.             *)
TextIsWhole ==
  \A d \in Device :
    (ret[d].op \in {"text", "typed"} /\ ret[d].res = "OK") => ret[d].whole \/ FillsWire(d)

(* "send helpers clear the cached last status before a new command"        *)
(* (docs/api-contract.md, I2C response semantics): a status the device     *)
(* still reports was read after the latest command was sent, whether or    *)
(* not the send, or a read since, failed.                                  *)
StatusIsCurrent ==
  \A d \in Device : last[d] # "UNKNOWN" => fresh[d]

ReportsStatus(o) ==
  \A d \in Device :
    (ret[d].op = o /\ ret[d].status \in ValidStatus \ {"SUCCESS"}) => ret[d].res = "OK"

(* "valid but unsuccessful device statuses still return EZO_OK"            *)
(* (docs/api-contract.md, I2C response semantics), for text reads.         *)
TextReportsStatus == ReportsStatus("text")

(* The same promise for raw reads                                          *)
(* (tests/test_ezo_i2c.c, test_read_response_raw_not_ready_is_status_not_error). *)
RawReportsStatus == ReportsStatus("raw")
=============================================================================
