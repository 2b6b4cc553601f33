-------------------------------- MODULE EzoI2c --------------------------------
(***************************************************************************)
(* The I2C core (src/ezo_i2c.c) over its two transports.  On Linux         *)
(* (platform/linux/ezo_i2c_linux_i2c.c) device objects, each with its own  *)
(* descriptor and thread, talk to circuits that share a bus: the address   *)
(* is selected by one system call and used by the next.  On Arduino        *)
(* (src/ezo_i2c_arduino_wire.cpp) they share the one Wire, in one thread,  *)
(* and its buffer.  Circuits take their time to answer, and any call of    *)
(* the platform may fail.                                                  *)
(*                                                                         *)
(* A reply is the number of the command it answers and its length.         *)
(***************************************************************************)
EXTENDS Naturals, FiniteSets

CONSTANTS
  Device,       \* ezo_i2c_device_t objects
  Addr,         \* bus addresses programs use
  Present,      \* those at which a circuit answers
  NoAddr,       \* no address: none was selected yet
  Caps,         \* the buffer sizes callers read with
  MaxText,      \* EZO_I2C_MAX_TEXT_RESPONSE_CAPACITY
  MaxPayload,   \* EZO_I2C_MAX_RESPONSE_PAYLOAD_LEN
  Lens,         \* lengths of the replies
  Transports,   \* the transports in use: "linux", "wire"
  WireBuffer,   \* the bytes of a frame that Wire has room for
  MaxSends,     \* bound: commands sent on the bus
  MaxFaults     \* bound: transfers and selections that fail

ASSUME I2cAssumption ==
  /\ Present \subseteq Addr /\ NoAddr \notin Addr
  /\ Caps \subseteq Nat
  /\ MaxPayload \in Nat \ {0} /\ MaxText = MaxPayload + 1
  /\ Lens \subseteq 1 .. MaxPayload
  /\ Transports \subseteq {"linux", "wire"} /\ WireBuffer \in Nat \ {0}
  /\ MaxSends \in Nat /\ MaxFaults \in Nat

ValidStatus == {"SUCCESS", "FAIL", "NOT_READY", "NO_DATA"}
Statuses == ValidStatus \cup {"UNKNOWN"}
Results == {"OK", "INVALID_ARGUMENT", "TRANSPORT", "PROTOCOL", "BUFFER_TOO_SMALL"}
ReadOps == {"text", "raw", "typed"}
CmdNo == 0 .. MaxSends

VARIABLES
  transport,    \* device->transport, the same for all
  address,      \* device->address
  last,         \* device->last_device_status
  call,         \* the call in progress: its name, buffer_len and system call
  slave,        \* the address selected on the device's descriptor
  ret,          \* how the latest call ended, and what it handed out
  circuit,      \* per address: what the circuit is doing, and for which command
  sends,        \* commands sent so far; the number of the latest
  mine,         \* history: the latest command a device sent to an address
  fresh,        \* history: a frame was read since the device's latest command
  latest,       \* history: the device's latest command
  faults

deviceVars == <<address, last, call, slave, ret>>
historyVars == <<mine, fresh, latest>>
busVars == <<transport, faults>>
vars == <<deviceVars, circuit, sends, historyVars, busVars>>

Idle == [op |-> "none", cap |-> 0, at |-> "idle"]
NoReturn == [op |-> "none", res |-> "OK", status |-> "UNKNOWN", of |-> 0, len |-> 0, whole |-> TRUE]

Blank(s) == [state |-> s, of |-> 0, len |-> 0]

Init ==
  /\ transport \in Transports
  /\ address \in [Device -> Addr]
  /\ last = [d \in Device |-> "UNKNOWN"]
  /\ call = [d \in Device |-> Idle]
  /\ slave = [d \in Device |-> NoAddr]
  /\ ret = [d \in Device |-> NoReturn]
  /\ circuit = [a \in Present |-> Blank("empty")]
  /\ sends = 0 /\ faults = 0
  /\ mine = [d \in Device |-> [a \in Addr |-> 0]]
  /\ fresh = [d \in Device |-> FALSE]
  /\ latest = [d \in Device |-> 0]

NoFault == UNCHANGED busVars
Fault == faults < MaxFaults /\ faults' = faults + 1 /\ UNCHANGED transport

-----------------------------------------------------------------------------
(* A circuit finishes its command, restarts, or answers out of turn with a *)
(* status byte outside the protocol.                                       *)
Finish(a) ==
  /\ circuit[a].state = "busy"
  /\ \E result \in {[state |-> "refused", len |-> 0]} \cup [state : {"done"}, len : Lens] :
       circuit' = [circuit EXCEPT ![a] =
         [state |-> result.state, of |-> circuit[a].of, len |-> result.len]]
  /\ UNCHANGED <<deviceVars, sends, historyVars, busVars>>

Restart(a) ==
  /\ Fault
  /\ \E s \in {"empty", "garbled"} : circuit' = [circuit EXCEPT ![a] = Blank(s)]
  /\ UNCHANGED <<deviceVars, sends, historyVars>>

StatusByte(a) ==
  CASE circuit[a].state = "busy" -> "NOT_READY"
    [] circuit[a].state = "done" -> "SUCCESS"
    [] circuit[a].state = "refused" -> "FAIL"
    [] circuit[a].state = "empty" -> "NO_DATA"
    [] OTHER -> "UNKNOWN"

(* Characters before the NULs that pad a frame. *)
TextIn(a) == IF circuit[a].state = "done" THEN circuit[a].len ELSE 0

-----------------------------------------------------------------------------
IsIdle(d) == call[d] = Idle

(* On Arduino the sketch makes one call at a time. *)
MayCall(d) == IF transport = "wire" THEN \A e \in Device : IsIdle(e) ELSE IsIdle(d)

(* ezo_device_set_address: nothing else of the device changes. *)
SetAddress(d, a) ==
  /\ IsIdle(d)
  /\ address' = [address EXCEPT ![d] = a]
  /\ UNCHANGED <<last, call, slave, ret, circuit, sends, historyVars, busVars>>

(* The outcome of the call before is no longer of interest. *)
Start(d, o, c) ==
  /\ call' = [call EXCEPT ![d] = [op |-> o, cap |-> c, at |-> "select"]]
  /\ ret' = [ret EXCEPT ![d] = NoReturn]

(* Mutant: only a send that succeeds forgets the status, as on a UART. *)
SendKeepsStatus(d) ==
  /\ MayCall(d) /\ sends < MaxSends
  /\ Start(d, "send", 0)
  /\ sends' = sends + 1
  /\ latest' = [latest EXCEPT ![d] = sends + 1]
  /\ fresh' = [fresh EXCEPT ![d] = FALSE]
  /\ UNCHANGED <<address, last, slave, circuit, mine, busVars>>

Send(d) ==
  /\ MayCall(d) /\ sends < MaxSends
  /\ last' = [last EXCEPT ![d] = "UNKNOWN"]
  /\ Start(d, "send", 0)
  /\ sends' = sends + 1
  /\ latest' = [latest EXCEPT ![d] = sends + 1]
  /\ fresh' = [fresh EXCEPT ![d] = FALSE]
  /\ UNCHANGED <<address, slave, circuit, mine, busVars>>

(* Mutant: any buffer that is not empty will do. *)
ValidCapNonempty(o, c) == c # 0

ValidCap(o, c) == c # 0 /\ c <= (IF o = "raw" THEN MaxPayload ELSE MaxText)

BeginRead(d, o, c) ==
  /\ MayCall(d)
  /\ ValidCap(o, c)
  /\ Start(d, o, c)
  /\ UNCHANGED <<address, last, slave, circuit, sends, historyVars, busVars>>

Return(d, r) ==
  /\ call' = [call EXCEPT ![d] = Idle]
  /\ ret' = [ret EXCEPT ![d] = r]

Nothing(o, res, st) ==
  [op |-> o, res |-> res, status |-> st, of |-> 0, len |-> 0, whole |-> TRUE]

(* Invalid arguments: the status cached from an earlier call stays. *)
RefuseRead(d, o, c) ==
  /\ MayCall(d)
  /\ ~ValidCap(o, c)
  /\ Return(d, Nothing(o, "INVALID_ARGUMENT", "UNKNOWN"))
  /\ UNCHANGED <<address, last, slave, circuit, sends, historyVars, busVars>>

-----------------------------------------------------------------------------
(* The transport: ioctl(I2C_SLAVE), then write(2) or read(2).  Wire is     *)
(* told the address by beginTransmission or by requestFrom.                *)

(* Mutant: the address is selected by the first call only. *)
SelectOnce(d) ==
  /\ call[d].at = "select"
  /\ slave' = [slave EXCEPT ![d] = IF @ = NoAddr THEN address[d] ELSE @]
  /\ call' = [call EXCEPT ![d].at = "transfer"]
  /\ UNCHANGED <<address, last, ret, circuit, sends, historyVars, busVars>>

Select(d) ==
  /\ call[d].at = "select"
  /\ slave' = [slave EXCEPT ![d] = address[d]]
  /\ call' = [call EXCEPT ![d].at = "transfer"]
  /\ UNCHANGED <<address, last, ret, circuit, sends, historyVars, busVars>>

TransferFails(d, res) ==
  /\ last' = [last EXCEPT ![d] = "UNKNOWN"]
  /\ Return(d, Nothing(call[d].op, res, "UNKNOWN"))
  /\ UNCHANGED <<address, slave, sends, fresh, latest>>

SelectFails(d) ==
  /\ transport = "linux" /\ call[d].at = "select"
  /\ Fault
  /\ TransferFails(d, "TRANSPORT")
  /\ UNCHANGED <<circuit, mine>>

(* A circuit that takes a command drops what it was doing. *)
Takes(a, n) == circuit' = [circuit EXCEPT ![a] = [state |-> "busy", of |-> n, len |-> 0]]

Write(d) ==
  /\ call[d].op = "send" /\ call[d].at = "transfer"
  /\ slave[d] \in Present
  /\ Takes(slave[d], latest[d])
  /\ mine' = [mine EXCEPT ![d][address[d]] = latest[d]]
  /\ Return(d, Nothing("send", "OK", "UNKNOWN"))
  /\ NoFault
  /\ UNCHANGED <<address, last, slave, sends, fresh, latest>>

(* Nobody answers at the address; or the write fails although it may have  *)
(* reached the circuit.  Of a command that Wire has no room for it sends   *)
(* the part that fits: the circuit takes that for the command.             *)
WriteFails(d) ==
  /\ call[d].op = "send" /\ call[d].at = "transfer"
  /\ \/ slave[d] \notin Present /\ NoFault /\ UNCHANGED <<circuit, mine>>
     \/ /\ slave[d] \in Present /\ Fault
        /\ \/ UNCHANGED <<circuit, mine>>
           \/ /\ Takes(slave[d], latest[d])
              /\ mine' = [mine EXCEPT ![d][address[d]] = latest[d]]
  /\ TransferFails(d, "TRANSPORT")

NoAnswer(d) ==
  /\ call[d].op \in ReadOps /\ call[d].at = "transfer"
  /\ \/ slave[d] \notin Present /\ NoFault
     \/ Fault
  /\ UNCHANGED <<circuit, mine>>

ReadFails(d) == transport = "linux" /\ NoAnswer(d) /\ TransferFails(d, "TRANSPORT")

(* requestFrom returns 0: to the transport a success, to the core a frame  *)
(* without a status.                                                       *)
WireReadsNothing(d) == transport = "wire" /\ NoAnswer(d) /\ TransferFails(d, "PROTOCOL")

-----------------------------------------------------------------------------
(* Decoding a frame.  The bus master clocks in every byte it asked for, so *)
(* read(2) reports as many as were requested; Wire asks for no more than   *)
(* its buffer has room for.                                                *)
WireDelivers(frameLen) == IF frameLen > WireBuffer THEN WireBuffer ELSE frameLen

Delivered(frameLen) == IF transport = "wire" THEN WireDelivers(frameLen) ELSE frameLen

FrameLen(o, c) == IF o = "raw" THEN c + 2 ELSE c + 1

(* payload_len: of a text up to the first NUL, or all there is.            *)
PayloadLen(o, c, a) ==
  LET available == Delivered(FrameLen(o, c)) - 1 IN
  IF o = "raw" \/ TextIn(a) > available THEN available ELSE TextIn(a)

(* Mutant: a text that fills the buffer passes, with its last character    *)
(* lost to the NUL or to the end of the frame.                             *)
TooLongByOne(o, c, a) == PayloadLen(o, c, a) > c

TooLong(o, c, a) ==
  IF o = "raw" THEN PayloadLen(o, c, a) > c ELSE PayloadLen(o, c, a) >= c

(* Mutants: a read turns every status but success into an error; a typed   *)
(* read takes whatever text came with the frame.                           *)
OutcomeStatusIsError(o, c, a) ==
  IF StatusByte(a) # "SUCCESS" THEN "PROTOCOL"
  ELSE IF TooLong(o, c, a) THEN "BUFFER_TOO_SMALL" ELSE "OK"

OutcomeAnyStatus(o, c, a) ==
  IF StatusByte(a) = "UNKNOWN" THEN "PROTOCOL"
  ELSE IF TooLong(o, c, a) THEN "BUFFER_TOO_SMALL" ELSE "OK"

(* A typed read of a product module is a text read that wants success.     *)
Outcome(o, c, a) ==
  IF StatusByte(a) = "UNKNOWN" THEN "PROTOCOL"
  ELSE IF TooLong(o, c, a) THEN "BUFFER_TOO_SMALL"
  ELSE IF o = "typed" /\ StatusByte(a) # "SUCCESS" THEN "PROTOCOL" ELSE "OK"

(* Reading a reply may use it up. *)
Read(d) ==
  LET o == call[d].op
      c == call[d].cap
      a == slave[d] IN
  /\ o \in ReadOps /\ call[d].at = "transfer"
  /\ a \in Present
  /\ last' = [last EXCEPT ![d] = StatusByte(a)]
  /\ fresh' = [fresh EXCEPT ![d] = TRUE]
  /\ LET r == Outcome(o, c, a)
         n == IF r = "OK" THEN PayloadLen(o, c, a) ELSE 0 IN
     Return(d, [op |-> o, res |-> r, status |-> StatusByte(a),
                of |-> circuit[a].of, len |-> n, whole |-> n = TextIn(a)])
  /\ \/ UNCHANGED circuit
     \/ circuit[a].state \in {"done", "refused"}
        /\ circuit' = [circuit EXCEPT ![a] = Blank("empty")]
  /\ NoFault
  /\ UNCHANGED <<address, slave, sends, mine, latest>>

-----------------------------------------------------------------------------
CallStep(d) ==
  \/ Select(d) \/ SelectFails(d)
  \/ Write(d) \/ WriteFails(d)
  \/ Read(d) \/ ReadFails(d) \/ WireReadsNothing(d)

Next ==
  \/ \E a \in Present : Finish(a) \/ Restart(a)
  \/ \E d \in Device :
       \/ \E a \in Addr : SetAddress(d, a)
       \/ Send(d)
       \/ \E o \in ReadOps : \E c \in Caps : BeginRead(d, o, c) \/ RefuseRead(d, o, c)
       \/ CallStep(d)

Spec == Init /\ [][Next]_vars
=============================================================================
