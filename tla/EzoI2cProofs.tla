----------------------------- MODULE EzoI2cProofs -----------------------------
(***************************************************************************)
(* Proofs about the I2C core, for every number of devices, circuits and    *)
(* commands, every size of buffer and length of reply.                     *)
(***************************************************************************)
EXTENDS EzoI2cProps, TLAPS

-----------------------------------------------------------------------------
(* Members of the sets of names, so that these need not be expanded. *)
LEMMA Names ==
  /\ ValidStatus \cup {"UNKNOWN"} = Statuses
  /\ {"SUCCESS", "FAIL", "NOT_READY", "NO_DATA", "UNKNOWN"} = Statuses
  /\ {"OK", "INVALID_ARGUMENT", "TRANSPORT", "PROTOCOL", "BUFFER_TOO_SMALL"} = Results
  /\ {"text", "raw", "typed"} = ReadOps
  /\ "none" \notin ReadOps /\ "send" \notin ReadOps
  BY DEF ValidStatus, Statuses, Results, ReadOps

(* The types of the calls in progress and of the circuits. *)
Call == [op : ReadOps \cup {"send", "none"}, cap : 0 .. MaxText, at : {"idle", "select", "transfer"}]

CircuitState == [state : {"empty", "busy", "done", "refused", "garbled"}, of : CmdNo,
                 len : {0} \cup Lens]

(* A call that hands out nothing is well typed, and so is no call at all. *)
LEMMA NothingReturned ==
  /\ \A o \in ReadOps \cup {"send", "none"}, r \in Results :
       Nothing(o, r, "UNKNOWN") \in Returned
  /\ NoReturn \in Returned /\ Idle \in Call
<1>1. "UNKNOWN" \in Statuses /\ "OK" \in Results /\ 0 \in CmdNo /\ 0 \in 0 .. MaxPayload + 1
  BY I2cAssumption DEF Statuses, Results, CmdNo
<1> QED
  BY <1>1, I2cAssumption DEF Nothing, NoReturn, Returned, Idle, Call

(* A circuit that is doing nothing. *)
LEMMA BlankType == \A st \in {"empty", "garbled"} : Blank(st) \in CircuitState
  BY I2cAssumption DEF Blank, CircuitState, CmdNo

(* The status byte and the text of a frame. *)
LEMMA StatusType ==
  ASSUME NEW a \in Present
  PROVE  StatusByte(a) \in Statuses
  BY Names DEF StatusByte

LEMMA TextType ==
  ASSUME I2cTypeOK, NEW a \in Present
  PROVE  TextIn(a) \in 0 .. MaxPayload
<1>1. circuit[a].len \in {0} \cup Lens
  BY DEF I2cTypeOK
<1>2. {0} \cup Lens \subseteq 0 .. MaxPayload
  BY I2cAssumption
<1> QED
  BY <1>1, <1>2, I2cAssumption DEF TextIn

(* A reply handed out is shorter than the buffer it is handed out in. *)
LEMMA PayloadFits ==
  ASSUME I2cTypeOK, NEW a \in Present, NEW o \in ReadOps, NEW c \in 0 .. MaxText,
         Outcome(o, c, a) = "OK"
  PROVE  /\ PayloadLen(o, c, a) \in 0 .. c
         /\ o # "raw" => \/ PayloadLen(o, c, a) = TextIn(a)
                         \/ transport = "wire" /\ PayloadLen(o, c, a) + 1 = WireBuffer
<1>1. TextIn(a) \in 0 .. MaxPayload
  BY TextType
<1>2. ~TooLong(o, c, a)
  BY DEF Outcome
<1>3. CASE o = "raw"
  BY <1>1, <1>2, <1>3, I2cAssumption DEF PayloadLen, TooLong, FrameLen, Delivered, WireDelivers
<1>4. CASE o # "raw"
  BY <1>1, <1>2, <1>4, I2cAssumption DEF PayloadLen, TooLong, FrameLen, Delivered, WireDelivers
<1> QED
  BY <1>3, <1>4

-----------------------------------------------------------------------------
(***************************************************************************)
(* Types.                                                                  *)
(***************************************************************************)
LEMMA TypeInit == Init => I2cTypeOK
<1> SUFFICES ASSUME Init PROVE I2cTypeOK
  OBVIOUS
<1>1. 0 \in CmdNo /\ 0 \in 0 .. MaxFaults
  BY I2cAssumption DEF CmdNo
<1>2. "UNKNOWN" \in Statuses
  BY DEF Statuses
<1> QED
  BY <1>1, <1>2, NothingReturned, BlankType DEF Init, I2cTypeOK, Call, CircuitState

(* What a device holds changes by a step of its own. *)
LEMMA DeviceTypeStep ==
  ASSUME I2cTypeOK, NEW d \in Device,
         last' = last \/ \E s \in Statuses : last' = [last EXCEPT ![d] = s],
         call' = call \/ \E c \in Call : call' = [call EXCEPT ![d] = c],
         ret' = ret \/ \E r \in Returned : ret' = [ret EXCEPT ![d] = r],
         slave' = slave \/ slave' = [slave EXCEPT ![d] = address[d]]
  PROVE  /\ last' \in [Device -> Statuses] /\ call' \in [Device -> Call]
         /\ ret' \in [Device -> Returned] /\ slave' \in [Device -> Addr \cup {NoAddr}]
<1> USE DEF I2cTypeOK, Call
<1>1. last' \in [Device -> Statuses]
  OBVIOUS
<1>2. call' \in [Device -> Call]
  OBVIOUS
<1>3. ret' \in [Device -> Returned]
  OBVIOUS
<1>4. slave' \in [Device -> Addr \cup {NoAddr}]
  OBVIOUS
<1> QED
  BY <1>1, <1>2, <1>3, <1>4

(* A circuit is where it was, or takes a command. *)
LEMMA TakesType ==
  ASSUME I2cTypeOK, NEW a \in Present, NEW n \in CmdNo, Takes(a, n)
  PROVE  circuit' \in [Present -> CircuitState]
  BY DEF I2cTypeOK, Takes, CircuitState

LEMMA TypeStep == I2cTypeOK /\ [Next]_vars => I2cTypeOK'
<1> SUFFICES ASSUME I2cTypeOK, [Next]_vars PROVE I2cTypeOK'
  OBVIOUS
<1> USE I2cAssumption, Names DEF I2cTypeOK
<1> DEFINE DevicesTyped ==
             /\ last' \in [Device -> Statuses] /\ call' \in [Device -> Call]
             /\ ret' \in [Device -> Returned] /\ slave' \in [Device -> Addr \cup {NoAddr}]
<1>1. ASSUME NEW a \in Present, Finish(a) PROVE I2cTypeOK'
  <2>1. PICK result \in {[state |-> "refused", len |-> 0]} \cup [state : {"done"}, len : Lens] :
          circuit' = [circuit EXCEPT ![a] =
            [state |-> result.state, of |-> circuit[a].of, len |-> result.len]]
    BY <1>1 DEF Finish
  <2>2. [state |-> result.state, of |-> circuit[a].of, len |-> result.len] \in CircuitState
    BY DEF CircuitState
  <2>3. circuit' \in [Present -> CircuitState]
    BY <2>1, <2>2 DEF CircuitState
  <2>4. UNCHANGED <<deviceVars, sends, historyVars, busVars>>
    BY <1>1 DEF Finish
  <2> QED
    BY <2>3, <2>4 DEF CircuitState, deviceVars, historyVars, busVars
<1>2. ASSUME NEW a \in Present, Restart(a) PROVE I2cTypeOK'
  <2>1. circuit' \in [Present -> CircuitState]
    BY <1>2, BlankType DEF Restart, CircuitState
  <2>2. faults' \in 0 .. MaxFaults /\ transport' = transport
    BY <1>2 DEF Restart, Fault
  <2> QED
    BY <1>2, <2>1, <2>2 DEF Restart, CircuitState, deviceVars, historyVars, busVars
<1>3. ASSUME NEW d \in Device, NEW a \in Addr, SetAddress(d, a) PROVE I2cTypeOK'
  BY <1>3 DEF SetAddress, historyVars, busVars
<1>4. ASSUME NEW d \in Device, Send(d) PROVE I2cTypeOK'
  <2>0. [op |-> "send", cap |-> 0, at |-> "select"] \in Call /\ "UNKNOWN" \in Statuses
    BY DEF Call
  <2>1. DevicesTyped
    BY <1>4, <2>0, DeviceTypeStep, NothingReturned DEF Send, Start
  <2>2. sends + 1 \in CmdNo
    BY <1>4 DEF Send, CmdNo
  <2>3. UNCHANGED <<transport, faults, circuit, mine>>
    BY <1>4 DEF Send, busVars
  <2> QED
    BY <1>4, <2>1, <2>2, <2>3 DEF Send, Call
<1>5. ASSUME NEW d \in Device, NEW o \in ReadOps, NEW c \in Caps, BeginRead(d, o, c)
      PROVE  I2cTypeOK'
  <2>1. [op |-> o, cap |-> c, at |-> "select"] \in Call
    BY <1>5 DEF BeginRead, ValidCap, Call
  <2>2. DevicesTyped
    BY <1>5, <2>1, DeviceTypeStep, NothingReturned DEF BeginRead, Start
  <2> QED
    BY <1>5, <2>2 DEF BeginRead, Call, historyVars, busVars
<1>6. ASSUME NEW d \in Device, NEW o \in ReadOps, NEW c \in Caps, RefuseRead(d, o, c)
      PROVE  I2cTypeOK'
  <2>1. Idle \in Call /\ Nothing(o, "INVALID_ARGUMENT", "UNKNOWN") \in Returned
    BY NothingReturned DEF Results
  <2>2. DevicesTyped
    BY <1>6, <2>1, DeviceTypeStep DEF RefuseRead, Return
  <2> QED
    BY <1>6, <2>2 DEF RefuseRead, Call, historyVars, busVars
<1>7. ASSUME NEW d \in Device, Select(d) PROVE I2cTypeOK'
  <2>1. call[d] \in Call
    BY DEF Call
  <2>2. [call[d] EXCEPT !.at = "transfer"] \in Call
    BY <2>1 DEF Call
  <2>3. call' = [call EXCEPT ![d] = [call[d] EXCEPT !.at = "transfer"]]
    BY <1>7 DEF Select
  <2>4. DevicesTyped
    BY <1>7, <2>2, <2>3, DeviceTypeStep DEF Select
  <2> QED
    BY <1>7, <2>4 DEF Select, Call, historyVars, busVars
<1>8. ASSUME NEW d \in Device, NEW res \in {"TRANSPORT", "PROTOCOL"}, TransferFails(d, res)
      PROVE  DevicesTyped
  <2>1. Idle \in Call /\ Nothing(call[d].op, res, "UNKNOWN") \in Returned
    BY NothingReturned DEF Results
  <2> QED
    BY <1>8, <2>1, DeviceTypeStep DEF TransferFails, Return
<1>9. ASSUME NEW d \in Device, SelectFails(d) PROVE I2cTypeOK'
  <2>1. faults' \in 0 .. MaxFaults
    BY <1>9 DEF SelectFails, Fault
  <2> QED
    BY <1>8, <1>9, <2>1 DEF SelectFails, TransferFails, Fault, Call
<1>10. ASSUME NEW d \in Device, slave[d] \in Present, Takes(slave[d], latest[d]),
              mine' = [mine EXCEPT ![d][address[d]] = latest[d]]
       PROVE  circuit' \in [Present -> CircuitState] /\ mine' \in [Device -> [Addr -> CmdNo]]
  BY <1>10, TakesType
<1>11. ASSUME NEW d \in Device, Write(d) PROVE I2cTypeOK'
  <2>1. Idle \in Call /\ Nothing("send", "OK", "UNKNOWN") \in Returned
    BY NothingReturned DEF Results
  <2>2. DevicesTyped
    BY <1>11, <2>1, DeviceTypeStep DEF Write, Return
  <2> QED
    BY <1>10, <1>11, <2>2 DEF Write, NoFault, busVars, Call, CircuitState
<1>12. ASSUME NEW d \in Device, WriteFails(d) PROVE I2cTypeOK'
  <2>1. faults' \in 0 .. MaxFaults /\ UNCHANGED transport
    BY <1>12 DEF WriteFails, Fault, NoFault, busVars
  <2>2. circuit' \in [Present -> CircuitState] /\ mine' \in [Device -> [Addr -> CmdNo]]
    BY <1>10, <1>12 DEF WriteFails, CircuitState
  <2> QED
    BY <1>8, <1>12, <2>1, <2>2 DEF WriteFails, TransferFails, Call, CircuitState
<1>13. ASSUME NEW d \in Device, ReadFails(d) \/ WireReadsNothing(d) PROVE I2cTypeOK'
  <2>1. faults' \in 0 .. MaxFaults /\ UNCHANGED transport
    BY <1>13 DEF ReadFails, WireReadsNothing, NoAnswer, Fault, NoFault, busVars
  <2> QED
    BY <1>8, <1>13, <2>1 DEF ReadFails, WireReadsNothing, NoAnswer, TransferFails, Call
<1>14. ASSUME NEW d \in Device, Read(d) PROVE I2cTypeOK'
  <2> DEFINE o == call[d].op
             c == call[d].cap
             a == slave[d]
             n == IF Outcome(o, c, a) = "OK" THEN PayloadLen(o, c, a) ELSE 0
             r == [op |-> o, res |-> Outcome(o, c, a), status |-> StatusByte(a),
                   of |-> circuit[a].of, len |-> n, whole |-> n = TextIn(a)]
  <2>1. o \in ReadOps /\ c \in 0 .. MaxText /\ a \in Present
    BY <1>14 DEF Read
  <2>2. Outcome(o, c, a) \in Results /\ StatusByte(a) \in Statuses
    BY <2>1, StatusType DEF Outcome
  <2>3. n \in 0 .. MaxPayload + 1
    BY <2>1, PayloadFits
  <2>4. r \in Returned
    BY <2>1, <2>2, <2>3 DEF Returned
  <2>5. Idle \in Call
    BY NothingReturned
  <2>6. ret' = [ret EXCEPT ![d] = r] /\ call' = [call EXCEPT ![d] = Idle]
    BY <1>14 DEF Read, Return
  <2>7. DevicesTyped
    BY <1>14, <2>2, <2>4, <2>5, <2>6, DeviceTypeStep DEF Read
  <2>8. circuit' \in [Present -> CircuitState]
    BY <1>14, BlankType DEF Read, CircuitState
  <2> QED
    BY <1>14, <2>7, <2>8 DEF Read, NoFault, busVars, Call, CircuitState
<1>15. CASE UNCHANGED vars
  BY <1>15 DEF vars, deviceVars, historyVars, busVars
<1> QED
  BY <1>1, <1>2, <1>3, <1>4, <1>5, <1>6, <1>7, <1>9, <1>11, <1>12, <1>13, <1>14, <1>15
  DEF Next, CallStep

-----------------------------------------------------------------------------
(***************************************************************************)
(* The inductive invariant: what holds during a call, besides the types    *)
(* and the properties.  A read has a buffer, a send has a number, and what *)
(* is selected is the device's address until the transfer is made.         *)
(***************************************************************************)
CallValid(d) ==
  /\ call[d].op \in ReadOps => call[d].cap # 0
  /\ call[d].op = "send" => latest[d] # 0
  /\ call[d].at = "transfer" => slave[d] = address[d]

(* The properties, for one device.                                         *)
DeviceInv(d) ==
  /\ CallValid(d)
  /\ (ret[d].op \in {"text", "typed"} /\ ret[d].res = "OK") => ret[d].whole \/ FillsWire(d)
  /\ last[d] # "UNKNOWN" => fresh[d]
  /\ (ret[d].op = "text" /\ ret[d].status \in ValidStatus \ {"SUCCESS"}) => ret[d].res = "OK"

(* A circuit that works on a command, or has worked on one, was given it   *)
(* by some device, and that device has not given it another since.         *)
WorkOwned ==
  \A a \in Present :
    circuit[a].state \in {"busy", "done", "refused"} =>
      circuit[a].of # 0 /\ \E e \in Device : mine[e][a] = circuit[a].of

I2cInv == I2cTypeOK /\ WorkOwned /\ \A d \in Device : DeviceInv(d)

LEMMA InvInit == Init => I2cInv
<1> SUFFICES ASSUME Init PROVE I2cInv
  OBVIOUS
<1>1. I2cTypeOK
  BY TypeInit
<1>2. \A d \in Device : DeviceInv(d)
  BY Names DEF Init, DeviceInv, CallValid, Idle, NoReturn
<1>3. WorkOwned
  BY DEF Init, WorkOwned, Blank
<1> QED
  BY <1>1, <1>2, <1>3 DEF I2cInv

(* A step of a device leaves the others' calls, addresses, statuses and    *)
(* returns alone.                                                          *)
DeviceStep(d) ==
  \/ \E a \in Addr : SetAddress(d, a)
  \/ Send(d)
  \/ \E o \in ReadOps : \E c \in Caps : BeginRead(d, o, c) \/ RefuseRead(d, o, c)
  \/ CallStep(d)

(* The transport stays what it is. *)
LEMMA SameTransport ==
  ASSUME [Next]_vars
  PROVE  transport' = transport
  BY DEF Next, Finish, Restart, SetAddress, Send, Start, BeginRead, RefuseRead, Return, CallStep,
         Select, SelectFails, Write, WriteFails, Read, ReadFails, WireReadsNothing,
         NoAnswer, TransferFails, Fault, NoFault, vars, busVars

(* A call that fails in its transfer, one way or another. *)
LEMMA FailsSteps ==
  ASSUME NEW d \in Device,
         SelectFails(d) \/ WriteFails(d) \/ ReadFails(d) \/ WireReadsNothing(d)
  PROVE  \E res \in {"TRANSPORT", "PROTOCOL"} : TransferFails(d, res)
  BY DEF SelectFails, WriteFails, ReadFails, WireReadsNothing

LEMMA OthersAlone ==
  ASSUME I2cTypeOK, NEW d \in Device, DeviceStep(d), NEW e \in Device \ {d}
  PROVE  /\ call'[e] = call[e] /\ latest'[e] = latest[e] /\ slave'[e] = slave[e]
         /\ address'[e] = address[e] /\ last'[e] = last[e] /\ fresh'[e] = fresh[e]
         /\ ret'[e] = ret[e]
<1> USE DEF I2cTypeOK
<1>1. ASSUME NEW a \in Addr, SetAddress(d, a) PROVE UNCHANGED <<call, latest, slave, last, fresh, ret>>
  BY <1>1 DEF SetAddress, historyVars, busVars
<1>2. CASE Send(d)
  BY <1>2 DEF Send, Start
<1>3. ASSUME NEW o \in ReadOps, NEW c \in Caps, BeginRead(d, o, c) \/ RefuseRead(d, o, c)
      PROVE  /\ call'[e] = call[e] /\ ret'[e] = ret[e]
             /\ UNCHANGED <<latest, slave, address, last, fresh>>
  BY <1>3 DEF BeginRead, RefuseRead, Start, Return, historyVars, busVars
<1>4. CASE Select(d)
  BY <1>4 DEF Select, historyVars, busVars
<1>5. ASSUME NEW res \in {"TRANSPORT", "PROTOCOL"}, TransferFails(d, res)
      PROVE  /\ call'[e] = call[e] /\ latest'[e] = latest[e] /\ slave'[e] = slave[e]
             /\ address'[e] = address[e] /\ last'[e] = last[e] /\ fresh'[e] = fresh[e]
             /\ ret'[e] = ret[e]
  BY <1>5 DEF TransferFails, Return
<1>6. CASE Write(d)
  BY <1>6 DEF Write, Return
<1>7. CASE Read(d)
  BY <1>7 DEF Read, Return
<1>8. ASSUME NEW a \in Addr, SetAddress(d, a) PROVE address'[e] = address[e]
  BY <1>8 DEF SetAddress
<1> HIDE DEF I2cTypeOK
<1> QED
  BY <1>1, <1>2, <1>3, <1>4, <1>5, <1>6, <1>7, <1>8, FailsSteps DEF DeviceStep, CallStep

(* A text read that reports a status other than success hands out nothing, *)
(* which fits any buffer.                                                  *)
LEMMA TextOutcome ==
  ASSUME I2cTypeOK, NEW a \in Present, NEW c \in 0 .. MaxText, c # 0,
         StatusByte(a) \in ValidStatus \ {"SUCCESS"}
  PROVE  Outcome("text", c, a) = "OK"
<1>1. StatusByte(a) # "UNKNOWN" /\ circuit[a].state # "done"
  BY DEF StatusByte, ValidStatus
<1>2. PayloadLen("text", c, a) = 0
  BY <1>1, I2cAssumption DEF PayloadLen, TextIn, FrameLen, Delivered, WireDelivers
<1>3. ~TooLong("text", c, a)
  BY <1>2, I2cAssumption DEF TooLong
<1> QED
  BY <1>1, <1>3 DEF Outcome

LEMMA OwnStep ==
  ASSUME I2cTypeOK, NEW d \in Device, DeviceInv(d), DeviceStep(d), transport' = transport
  PROVE  DeviceInv(d)'
<1> USE DEF DeviceInv, CallValid, FillsWire
<1>1. ASSUME NEW a \in Addr, SetAddress(d, a) PROVE DeviceInv(d)'
  BY <1>1 DEF SetAddress, historyVars, busVars, IsIdle, Idle, I2cTypeOK
<1>2. CASE Send(d)
  BY <1>2, Names, I2cAssumption DEF Send, Start, NoReturn, I2cTypeOK, CmdNo
<1>3. ASSUME NEW o \in ReadOps, NEW c \in Caps, BeginRead(d, o, c) PROVE DeviceInv(d)'
  BY <1>3, Names DEF BeginRead, ValidCap, Start, NoReturn, historyVars, busVars, I2cTypeOK
<1>4. ASSUME NEW o \in ReadOps, NEW c \in Caps, RefuseRead(d, o, c) PROVE DeviceInv(d)'
  BY <1>4, Names DEF RefuseRead, Return, Idle, Nothing, ValidStatus, historyVars, busVars, I2cTypeOK
<1>5. CASE Select(d)
  BY <1>5 DEF Select, historyVars, busVars, I2cTypeOK
<1>6. ASSUME NEW res \in {"TRANSPORT", "PROTOCOL"}, TransferFails(d, res) PROVE DeviceInv(d)'
  BY <1>6, Names DEF TransferFails, Return, Idle, Nothing, ValidStatus, I2cTypeOK
<1>7. CASE Write(d)
  BY <1>7, Names DEF Write, Return, Idle, Nothing, ValidStatus, I2cTypeOK
<1>8. CASE Read(d)
  <2> DEFINE o == call[d].op
             c == call[d].cap
             a == slave[d]
             n == IF Outcome(o, c, a) = "OK" THEN PayloadLen(o, c, a) ELSE 0
             r == [op |-> o, res |-> Outcome(o, c, a), status |-> StatusByte(a),
                   of |-> circuit[a].of, len |-> n, whole |-> n = TextIn(a)]
  <2>1. o \in ReadOps /\ c \in 0 .. MaxText /\ c # 0 /\ a \in Present
    BY <1>8 DEF Read, I2cTypeOK
  <2>2. ret'[d] = r /\ call'[d] = Idle /\ fresh'[d]
    BY <1>8 DEF Read, Return, I2cTypeOK
  <2>3. CallValid(d)'
    BY <2>2, Names DEF Idle
  <2>4. o \in {"text", "typed"} /\ Outcome(o, c, a) = "OK" =>
          n = TextIn(a) \/ (transport = "wire" /\ n + 1 = WireBuffer)
    BY <2>1, PayloadFits
  <2>5. o = "text" /\ StatusByte(a) \in ValidStatus \ {"SUCCESS"} => Outcome(o, c, a) = "OK"
    BY <2>1, TextOutcome
  <2>6. ASSUME ret'[d].op \in {"text", "typed"}, ret'[d].res = "OK"
        PROVE  ret'[d].whole \/ FillsWire(d)'
    <3>1. n = TextIn(a) \/ FillsWire(d)'
      BY <2>2, <2>4, <2>6
    <3>2. r.whole = (n = TextIn(a))
      BY Zenon
    <3> QED
      BY <2>2, <3>1, <3>2, Zenon
  <2>7. (ret'[d].op = "text" /\ ret'[d].status \in ValidStatus \ {"SUCCESS"}) => ret'[d].res = "OK"
    BY <2>2, <2>5
  <2> QED
    BY <2>2, <2>3, <2>6, <2>7
<1> QED
  BY <1>1, <1>2, <1>3, <1>4, <1>5, <1>6, <1>7, <1>8, FailsSteps DEF DeviceStep, CallStep

(* A circuit's work changes hands only when it takes a command.            *)
LEMMA WorkStep == I2cTypeOK /\ (\A d \in Device : CallValid(d)) /\ WorkOwned /\ [Next]_vars => WorkOwned'
<1> SUFFICES ASSUME I2cTypeOK, \A d \in Device : CallValid(d), WorkOwned, [Next]_vars
             PROVE  WorkOwned'
  OBVIOUS
<1>1. ASSUME NEW b \in Present, Finish(b) PROVE WorkOwned'
  BY <1>1 DEF Finish, WorkOwned, I2cTypeOK, historyVars, busVars
<1>2. ASSUME NEW b \in Present, Restart(b) PROVE WorkOwned'
  BY <1>2 DEF Restart, Blank, WorkOwned, I2cTypeOK, historyVars, busVars
<1>3. ASSUME NEW d \in Device, slave[d] \in Present, slave[d] = address[d], latest[d] # 0,
             Takes(slave[d], latest[d]), mine' = [mine EXCEPT ![d][address[d]] = latest[d]]
      PROVE  WorkOwned'
  <2> SUFFICES ASSUME NEW a \in Present, circuit'[a].state \in {"busy", "done", "refused"}
               PROVE  circuit'[a].of # 0 /\ \E e \in Device : mine'[e][a] = circuit'[a].of
    BY DEF WorkOwned
  <2>1. CASE a = slave[d]
    BY <1>3, <2>1, I2cAssumption DEF Takes, I2cTypeOK
  <2>2. CASE a # slave[d]
    BY <1>3, <2>2, I2cAssumption DEF Takes, WorkOwned, I2cTypeOK
  <2> QED
    BY <2>1, <2>2
<1>4. ASSUME NEW d \in Device, Write(d) \/ WriteFails(d) PROVE WorkOwned'
  <2>1. \/ UNCHANGED <<circuit, mine>>
        \/ slave[d] \in Present /\ Takes(slave[d], latest[d])
           /\ mine' = [mine EXCEPT ![d][address[d]] = latest[d]]
    BY <1>4 DEF Write, WriteFails
  <2>2. slave[d] = address[d] /\ latest[d] # 0
    BY <1>4 DEF Write, WriteFails, CallValid
  <2> QED
    BY <1>3, <2>1, <2>2 DEF WorkOwned
<1>5. ASSUME NEW d \in Device, Read(d) PROVE WorkOwned'
  <2>1. UNCHANGED mine /\ slave[d] \in Present
        /\ (UNCHANGED circuit \/ circuit' = [circuit EXCEPT ![slave[d]] = Blank("empty")])
    BY <1>5 DEF Read
  <2> SUFFICES ASSUME NEW a \in Present, circuit'[a].state \in {"busy", "done", "refused"}
               PROVE  circuit'[a].of # 0 /\ \E e \in Device : mine'[e][a] = circuit'[a].of
    BY DEF WorkOwned
  <2>2. circuit'[a] = circuit[a]
    BY <2>1 DEF Blank, I2cTypeOK
  <2> QED
    BY <2>1, <2>2 DEF WorkOwned
<1>6. CASE UNCHANGED <<circuit, mine>>
  BY <1>6 DEF WorkOwned
<1> QED
  BY <1>1, <1>2, <1>4, <1>5, <1>6
  DEF Next, CallStep, SetAddress, Send, BeginRead, RefuseRead, Select, SelectFails,
      ReadFails, WireReadsNothing, NoAnswer, vars, historyVars, busVars

(* A step that is no device's is a circuit's, or none. *)
LEMMA RestStep ==
  ASSUME [Next]_vars, \A d \in Device : ~DeviceStep(d)
  PROVE  UNCHANGED <<deviceVars, historyVars>>
  BY DEF Next, DeviceStep, Finish, Restart, vars

LEMMA InvStep == I2cInv /\ [Next]_vars => I2cInv'
<1> SUFFICES ASSUME I2cInv, [Next]_vars PROVE I2cInv'
  OBVIOUS
<1> USE DEF I2cInv
<1>1. I2cTypeOK' /\ WorkOwned'
  BY TypeStep, WorkStep DEF DeviceInv
<1>2. ASSUME NEW e \in Device PROVE DeviceInv(e)'
  <2>1. ASSUME NEW d \in Device, DeviceStep(d), d # e PROVE DeviceInv(e)'
    BY <2>1, OthersAlone, SameTransport DEF DeviceInv, CallValid, FillsWire
  <2>2. CASE DeviceStep(e)
    BY <2>2, OwnStep, SameTransport
  <2>3. CASE UNCHANGED <<deviceVars, historyVars>>
    BY <2>3, SameTransport DEF deviceVars, historyVars, busVars, DeviceInv, CallValid, FillsWire
  <2> QED
    BY <2>1, <2>2, <2>3, RestStep
<1> QED
  BY <1>1, <1>2

LEMMA InvAlways == Spec => []I2cInv
  BY InvInit, InvStep, PTL DEF Spec

-----------------------------------------------------------------------------
(***************************************************************************)
(* The theorems.                                                           *)
(***************************************************************************)

(* src/ezo_i2c.c keeps its types: a read in progress has a buffer that the *)
(* frame of ezo_read_response has room for.                                *)
THEOREM I2cTypeCorrect == Spec => []I2cTypeOK
<1>1. I2cInv => I2cTypeOK
  BY DEF I2cInv
<1> QED
  BY <1>1, InvAlways, PTL

(* A text ezo_read_response hands out is whole, or fills Wire's buffer.    *)
THEOREM TextsWhole == Spec => []TextIsWhole
<1>1. I2cInv => TextIsWhole
  BY DEF I2cInv, DeviceInv, TextIsWhole
<1> QED
  BY <1>1, InvAlways, PTL

(* The status ezo_device_get_last_status reports was read after the latest *)
(* command was sent.                                                       *)
THEOREM StatusCurrent == Spec => []StatusIsCurrent
<1>1. I2cInv => StatusIsCurrent
  BY DEF I2cInv, DeviceInv, StatusIsCurrent
<1> QED
  BY <1>1, InvAlways, PTL

(* A status other than success is no error of ezo_read_response.           *)
THEOREM StatusReported == Spec => []TextReportsStatus
<1>1. I2cInv => TextReportsStatus
  BY DEF I2cInv, DeviceInv, TextReportsStatus, ReportsStatus
<1> QED
  BY <1>1, InvAlways, PTL

(* A typed read that succeeds has the reply to the latest command its      *)
(* device got through to the circuit at its address, however many devices  *)
(* change their addresses on the bus between any two system calls.         *)
THEOREM RepliesOwn == Spec => TypedReadIsOwn
<1> DEFINE Own(d) ==
             (call[d].op = "typed" /\ ret'[d] # ret[d] /\ ret'[d].res = "OK" /\ Exclusive(d))
             => ret'[d].of = Asked(d) /\ ret'[d].status = "SUCCESS"
<1>1. ASSUME I2cInv, [Next]_vars, NEW e \in Device PROVE Own(e)
  <2> USE <1>1 DEF I2cInv
  <2> SUFFICES ASSUME call[e].op = "typed", ret'[e] # ret[e], ret'[e].res = "OK", Exclusive(e)
               PROVE  ret'[e].of = Asked(e) /\ ret'[e].status = "SUCCESS"
    OBVIOUS
  <2>1. Read(e)
    <3>1. PICK d \in Device : DeviceStep(d)
      BY DEF Next, DeviceStep, Finish, Restart, vars, deviceVars
    <3>2. d = e
      BY <3>1, OthersAlone
    <3>3. ~IsIdle(e)
      BY DEF IsIdle, Idle
    <3>4. CallStep(e)
      BY <3>1, <3>2, <3>3 DEF DeviceStep, SetAddress, Send, BeginRead, RefuseRead, MayCall
    <3>5. \A res \in {"TRANSPORT", "PROTOCOL"} : ~TransferFails(e, res)
      BY DEF TransferFails, Return, Nothing, I2cTypeOK
    <3> QED
      BY <3>4, <3>5, FailsSteps DEF CallStep, Select, Write
  <2> DEFINE a == slave[e]
  <2>2. a \in Present /\ a = address[e]
    BY <2>1 DEF Read, DeviceInv, CallValid
  <2>3. /\ ret'[e].res = Outcome("typed", call[e].cap, a)
        /\ ret'[e].status = StatusByte(a) /\ ret'[e].of = circuit[a].of
    BY <2>1 DEF Read, Return, I2cTypeOK
  <2>4. StatusByte(a) = "SUCCESS"
    BY <2>3 DEF Outcome
  <2>5. circuit[a].state = "done"
    BY <2>4 DEF StatusByte
  <2>6. PICK d \in Device : circuit[a].of # 0 /\ mine[d][a] = circuit[a].of
    BY <2>2, <2>5 DEF WorkOwned
  <2>7. d = e
    BY <2>2, <2>6 DEF Exclusive
  <2> QED
    BY <2>2, <2>3, <2>4, <2>6, <2>7 DEF Asked
<1>2. I2cInv /\ [Next]_vars => [\A d \in Device : Own(d)]_vars
  BY <1>1
<1>3. Spec => [][\A d \in Device : Own(d)]_vars
  BY <1>2, InvAlways, PTL DEF Spec
<1> QED
  BY <1>3 DEF TypedReadIsOwn
=============================================================================
