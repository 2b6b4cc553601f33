------------------------- MODULE EzoPosixSerialProofs -------------------------
(***************************************************************************)
(* Proofs about the serial adapter, for every number and length of writes, *)
(* however the kernel cuts them up.                                        *)
(***************************************************************************)
EXTENDS EzoPosixSerialProps, SequenceTheorems, TLAPS

Writes == [len : TxLens, res : {"running", "OK", "TRANSPORT"}]
WireByte == [call : 1 .. MaxWrites, i : Nat \ {0}]

(* The write in progress is the latest one, it has not been answered, and  *)
(* the line's last byte is the last that this write has handed over.       *)
WriteInProgress ==
  /\ calls # <<>> /\ calls[Len(calls)].res = "running"
  /\ written \in 0 .. TxLen
  /\ at = "drain" => written = TxLen
  /\ IF written = 0 THEN \A j \in DOMAIN wire : wire[j].call # Len(calls)
     ELSE wire # <<>> /\ wire[Len(wire)] = [call |-> Len(calls), i |-> written]

SerialInv ==
  /\ SerialTypeOK
  /\ Len(calls) <= MaxWrites
  /\ WritesWholeOrPrefix
  /\ at \in {"write", "drain"} => WriteInProgress

-----------------------------------------------------------------------------
LEMMA SerialInit == Init => SerialInv
<1> SUFFICES ASSUME Init PROVE SerialInv
  OBVIOUS
<1> USE SerialAssumption DEF Init
<1>1. calls \in Seq(Writes) /\ wire \in Seq(WireByte)
  BY DEF Writes
<1>2. /\ rx \in 0 .. arrived /\ arrived \in 0 .. MaxArrivals /\ signals \in 0 .. MaxSignals
      /\ at \notin {"read", "write", "drain"} /\ timeout \in Timeouts
  OBVIOUS
<1>3. hung \in BOOLEAN
  BY Zenon
<1>4. SerialTypeOK
  BY <1>1, <1>2, <1>3, Zenon DEF SerialTypeOK, Writes, WireByte
<1> QED
  BY <1>4 DEF SerialInv, WritesWholeOrPrefix

(* A new write leaves the bytes on the wire where they are: they belong to *)
(* the writes before it.                                                   *)
LEMMA StartWriteStep ==
  ASSUME SerialInv, NEW n \in TxLens, StartWrite(n)
  PROVE  SerialInv'
<1> DEFINE new == [len |-> n, res |-> "running"]
<1> USE SerialAssumption
<1>1. calls \in Seq(Writes) /\ wire \in Seq(WireByte) /\ new \in Writes
  BY DEF SerialInv, SerialTypeOK, Writes, WireByte
<1>2. /\ calls' \in Seq(Writes) /\ Len(calls') = Len(calls) + 1
      /\ calls'[Len(calls')] = new
      /\ \A c \in DOMAIN calls : calls'[c] = calls[c] /\ c < Len(calls')
      /\ \A c \in DOMAIN calls' : c \in DOMAIN calls \/ c = Len(calls')
      /\ DOMAIN calls \subseteq DOMAIN calls'
      /\ Len(calls') <= MaxWrites
  BY <1>1 DEF StartWrite
<1>3. at' \in {"write", "drain"} /\ written' = 0 /\ (at' = "drain" <=> n = 0)
  BY DEF StartWrite
<1>4. SerialTypeOK'
  BY <1>1, <1>2, <1>3 DEF SerialInv, SerialTypeOK, StartWrite, Writes, WireByte, TxLen
<1>5. WritesWholeOrPrefix'
  <2>1. ASSUME NEW j \in DOMAIN wire PROVE InPlace(j)'
    BY <1>2 DEF SerialInv, WritesWholeOrPrefix, InPlace, StartWrite
  <2>2. ASSUME NEW c \in DOMAIN calls', calls'[c].res = "OK" PROVE LastByteSent(c)'
    BY <1>2, <2>2 DEF SerialInv, WritesWholeOrPrefix, LastByteSent, StartWrite
  <2> QED
    BY <2>1, <2>2 DEF WritesWholeOrPrefix, StartWrite
<1>6. WriteInProgress'
  <2>1. \A j \in DOMAIN wire : wire[j].call < Len(calls')
    BY <1>1, <1>2 DEF SerialInv, WritesWholeOrPrefix, InPlace
  <2> QED
    BY <1>1, <1>2, <1>3, <2>1 DEF WriteInProgress, StartWrite, TxLen
<1> QED
  BY <1>2, <1>4, <1>5, <1>6 DEF SerialInv

(* The bytes write(2) took follow the last one of the same write, or open it. *)
LEMMA WriteSomeStep ==
  ASSUME SerialInv, NEW n \in 1 .. TxLen, WriteSome(n)
  PROVE  SerialInv'
<1> USE SerialAssumption
<1>1. /\ calls \in Seq(Writes) /\ wire \in Seq(WireByte) /\ calls # <<>>
      /\ written \in 0 .. TxLen /\ TxLen \in Nat /\ n \in 1 .. TxLen - written
  <2>1. calls \in Seq(Writes) /\ wire \in Seq(WireByte) /\ calls # <<>> /\ written \in 0 .. TxLen
    BY DEF SerialInv, SerialTypeOK, Writes, WireByte, WriteSome, WriteInProgress
  <2>2. calls[Len(calls)] \in Writes
    BY <2>1
  <2>3. TxLen \in Nat
    BY <2>2 DEF TxLen, Writes
  <2> QED
    BY <2>1, <2>3 DEF WriteSome
<1>2. Len(calls) \in 1 .. MaxWrites /\ Len(calls) \in DOMAIN calls
  BY <1>1 DEF SerialInv
<1>3. Sent(written, n) \in Seq(WireByte) /\ Len(Sent(written, n)) = n
  BY <1>1, <1>2 DEF Sent, WireByte
<1>4. /\ wire' \in Seq(WireByte) /\ Len(wire') = Len(wire) + n
      /\ \A j \in DOMAIN wire : wire'[j] = wire[j]
      /\ \A k \in 1 .. n : wire'[Len(wire) + k] = [call |-> Len(calls), i |-> written + k]
  <2>1. wire' = wire \o Sent(written, n)
    BY DEF WriteSome
  <2>2. \A k \in 1 .. n : Sent(written, n)[k] = [call |-> Len(calls), i |-> written + k]
    BY DEF Sent
  <2>3. n \in Nat /\ Len(wire) \in Nat
    BY <1>1
  <2>4. wire' \in Seq(WireByte) /\ Len(wire') = Len(wire) + n
    <3>1. wire' \in Seq(WireByte)
      BY <1>1, <1>3, <2>1
    <3>2. Len(wire') = Len(wire) + Len(Sent(written, n))
      BY <1>1, <1>3, <2>1, ConcatProperties, Zenon
    <3> QED
      BY <1>3, <3>1, <3>2
  <2>5. \A j \in DOMAIN wire : wire'[j] = wire[j]
    BY <1>1, <1>3, <2>1
  <2>6. \A k \in 1 .. n : wire'[Len(wire) + k] = Sent(written, n)[k]
    BY <1>1, <1>3, <2>1, <2>3
  <2> QED
    BY <2>2, <2>4, <2>5, <2>6
<1>5. /\ written' = written + n /\ calls' = calls /\ TxLen' = TxLen
      /\ at' \in {"write", "drain"} /\ (at' = "drain" => written' = TxLen)
  <2>1. written' = written + n /\ calls' = calls /\ at' = IF written' < TxLen THEN "write" ELSE "drain"
    BY DEF WriteSome
  <2>2. TxLen' = TxLen
    BY <2>1 DEF TxLen
  <2>3. written' \in Nat /\ written' <= TxLen
    BY <1>1, <2>1
  <2> QED
    BY <1>1, <2>1, <2>2, <2>3
<1>6. SerialTypeOK'
  BY <1>1, <1>4, <1>5 DEF SerialInv, SerialTypeOK, WriteSome, WireByte
<1>7. WritesWholeOrPrefix'
  <2>1. ASSUME NEW j \in DOMAIN wire' PROVE InPlace(j)'
    <3>1. CASE j \in DOMAIN wire
      <4>1. j > 1 => j - 1 \in DOMAIN wire
        BY <1>1, <3>1
      <4> QED
        BY <3>1, <4>1, <1>4, <1>5 DEF SerialInv, WritesWholeOrPrefix, InPlace
    <3>2. CASE j = Len(wire) + 1 /\ written = 0
      <4>1. wire'[j] = [call |-> Len(calls), i |-> 1]
        BY <1>1, <1>4, <3>2
      <4>2. ASSUME j > 1 PROVE wire'[j - 1].call < Len(calls)
        <5>1. j - 1 \in DOMAIN wire /\ wire'[j - 1] = wire[j - 1]
          BY <1>1, <1>4, <3>2, <4>2
        <5>2. wire[j - 1].call \in DOMAIN calls /\ wire[j - 1].call # Len(calls)
          BY <5>1, <3>2 DEF SerialInv, WritesWholeOrPrefix, InPlace, WriteInProgress, WriteSome
        <5> QED
          BY <1>1, <5>1, <5>2
      <4> QED
        BY <1>1, <1>2, <1>5, <4>1, <4>2 DEF InPlace, TxLen
    <3>3. CASE j = Len(wire) + 1 /\ written > 0
      <4>1. wire'[j] = [call |-> Len(calls), i |-> written + 1]
        BY <1>1, <1>4, <3>3
      <4>2. j > 1 /\ wire'[j - 1] = [call |-> Len(calls), i |-> written]
        BY <1>1, <1>4, <3>3 DEF SerialInv, WriteInProgress, WriteSome
      <4> QED
        BY <1>1, <1>2, <1>5, <4>1, <4>2 DEF InPlace, TxLen
    <3>4. CASE j > Len(wire) + 1
      <4>1. PICK k \in 2 .. n : j = Len(wire) + k
        <5>1. j \in 1 .. Len(wire) + n
          BY <1>4, <2>1
        <5>2. j - Len(wire) \in 2 .. n /\ j = Len(wire) + (j - Len(wire))
          BY <1>1, <3>4, <5>1
        <5> QED
          BY <5>2
      <4>2. /\ wire'[j] = [call |-> Len(calls), i |-> written + k]
            /\ wire'[j - 1] = [call |-> Len(calls), i |-> written + (k - 1)]
        <5>1. k \in 1 .. n /\ k - 1 \in 1 .. n /\ j - 1 = Len(wire) + (k - 1)
          BY <1>1, <4>1
        <5> QED
          BY <1>4, <4>1, <5>1
      <4>3. j > 1 /\ written + k <= TxLen
        BY <1>1, <3>4
      <4>4. wire'[j].i = wire'[j - 1].i + 1 /\ wire'[j].call = wire'[j - 1].call
        BY <1>1, <4>2
      <4> QED
        BY <1>2, <1>5, <4>2, <4>3, <4>4 DEF InPlace, TxLen
    <3> QED
      BY <1>1, <1>4, <3>1, <3>2, <3>3, <3>4
  <2>2. ASSUME NEW c \in DOMAIN calls', calls'[c].res = "OK" PROVE LastByteSent(c)'
    <3>1. LastByteSent(c) /\ calls'[c] = calls[c]
      BY <1>5, <2>2 DEF SerialInv, WritesWholeOrPrefix
    <3>2. DOMAIN wire \subseteq DOMAIN wire'
      BY <1>1, <1>4
    <3> QED
      BY <1>4, <3>1, <3>2 DEF LastByteSent
  <2> QED
    BY <2>1, <2>2 DEF WritesWholeOrPrefix
<1>8. WriteInProgress'
  <2>1. wire' # <<>> /\ wire'[Len(wire')] = [call |-> Len(calls), i |-> written']
    BY <1>1, <1>4, <1>5
  <2>2. written' \in 0 .. TxLen /\ written' # 0
    BY <1>1, <1>5
  <2> QED
    BY <1>1, <1>5, <2>1, <2>2 DEF SerialInv, WriteInProgress, WriteSome, TxLen
<1> QED
  BY <1>5, <1>6, <1>7, <1>8 DEF SerialInv

(* The answer to the write in progress: success only once it has handed    *)
(* everything over.                                                        *)
LEMMA WriteReturnsStep ==
  ASSUME SerialInv, at \in {"write", "drain"}, NEW r \in {"OK", "TRANSPORT"},
         r = "OK" => at = "drain", WriteReturns(r),
         UNCHANGED <<timeout, written, wire, rx, arrived, signals, hung>>
  PROVE  SerialInv'
<1>1. /\ calls \in Seq(Writes) /\ wire \in Seq(WireByte) /\ calls # <<>>
      /\ Len(calls) \in DOMAIN calls
  BY DEF SerialInv, SerialTypeOK, Writes, WireByte, WriteInProgress
<1>2. /\ calls' \in Seq(Writes) /\ Len(calls') = Len(calls) /\ DOMAIN calls' = DOMAIN calls
      /\ \A c \in DOMAIN calls : calls'[c].len = calls[c].len
      /\ \A c \in DOMAIN calls : c # Len(calls) => calls'[c] = calls[c]
      /\ calls'[Len(calls)].res = r
  <2>0. calls[Len(calls)] \in Writes
    BY <1>1
  <2>1. calls' = [calls EXCEPT ![Len(calls)] =
                    [len |-> calls[Len(calls)].len, res |-> r]]
    <3>1. [calls[Len(calls)] EXCEPT !.res = r] = [len |-> calls[Len(calls)].len, res |-> r]
      BY <2>0 DEF Writes
    <3> QED
      BY <3>1 DEF WriteReturns
  <2>2. [len |-> calls[Len(calls)].len, res |-> r] \in Writes
    BY <2>0 DEF Writes
  <2> QED
    BY <1>1, <2>1, <2>2
<1>3. SerialTypeOK'
  BY <1>1, <1>2 DEF SerialInv, SerialTypeOK, Writes, WireByte, WriteReturns
<1>4. ASSUME r = "OK" PROVE LastByteSent(Len(calls))
  <2>1. WriteInProgress /\ written = TxLen
    BY <1>4 DEF SerialInv, WriteInProgress
  <2>2. TxLen > 0 => wire # <<>> /\ wire[Len(wire)] = [call |-> Len(calls), i |-> TxLen]
    BY <2>1 DEF WriteInProgress
  <2>3. wire # <<>> => Len(wire) \in DOMAIN wire
    BY <1>1
  <2> QED
    BY <2>2, <2>3 DEF LastByteSent, TxLen
<1>5. WritesWholeOrPrefix'
  <2>1. ASSUME NEW j \in DOMAIN wire PROVE InPlace(j)'
    BY <1>2 DEF SerialInv, WritesWholeOrPrefix, InPlace
  <2>2. ASSUME NEW c \in DOMAIN calls, calls'[c].res = "OK" PROVE LastByteSent(c)
    BY <1>1, <1>2, <1>4, <2>2 DEF SerialInv, WritesWholeOrPrefix
  <2> QED
    BY <1>2, <2>1, <2>2 DEF WritesWholeOrPrefix, LastByteSent
<1> QED
  BY <1>2, <1>3, <1>5 DEF SerialInv, WriteReturns

LEMMA SerialStep == SerialInv /\ [Next]_vars => SerialInv'
<1> SUFFICES ASSUME SerialInv, [Next]_vars PROVE SerialInv'
  OBVIOUS
<1> USE SerialAssumption
<1>1. CASE Arrive \/ HangUp \/ Interrupted
  <2>1. /\ UNCHANGED <<timeout, at, written, calls, wire>>
        /\ rx' \in 0 .. arrived' /\ arrived' \in 0 .. MaxArrivals
        /\ signals' \in 0 .. MaxSignals /\ (rx > 0 => rx' > 0)
    BY <1>1 DEF Arrive, HangUp, Interrupted, SerialInv, SerialTypeOK
  <2>2. hung' \in BOOLEAN
    BY <1>1, Zenon DEF Arrive, HangUp, Interrupted, SerialInv, SerialTypeOK
  <2> QED
    BY <2>1, <2>2 DEF SerialInv, SerialTypeOK, WritesWholeOrPrefix, InPlace, LastByteSent,
                      WriteInProgress, TxLen
<1>2. ASSUME NEW n \in TxLens, StartWrite(n) PROVE SerialInv'
  BY <1>2, StartWriteStep
<1>3. CASE StartRead \/ DiscardInput \/ PollReady \/ PollTimesOut \/ PollFails \/ ReadByte
  <2>1. /\ UNCHANGED <<timeout, written, calls, wire, arrived, signals, hung>>
        /\ at' \in {"idle", "poll", "read"} /\ rx' \in 0 .. arrived
        /\ at' = "read" => rx' > 0
    BY <1>3 DEF StartRead, DiscardInput, PollReady, PollTimesOut, PollFails, ReadByte,
                SerialInv, SerialTypeOK
  <2> QED
    BY <2>1 DEF SerialInv, SerialTypeOK, WritesWholeOrPrefix, InPlace, LastByteSent
<1>4. ASSUME NEW n \in 1 .. TxLen, WriteSome(n) PROVE SerialInv'
  BY <1>4, WriteSomeStep
<1>5. CASE WriteFails
  BY <1>5, WriteReturnsStep DEF WriteFails
<1>6. CASE Drain
  BY <1>6, WriteReturnsStep DEF Drain
<1>7. CASE UNCHANGED vars
  BY <1>7 DEF vars, SerialInv, SerialTypeOK, WritesWholeOrPrefix, InPlace, LastByteSent,
              WriteInProgress, TxLen
<1> QED
  BY <1>1, <1>2, <1>3, <1>4, <1>5, <1>6, <1>7 DEF Next, AdapterStep

LEMMA SerialInvHolds == Spec => []SerialInv
  BY SerialInit, SerialStep, PTL DEF Spec

(* The types of the adapter's state hold in every behaviour: in particular *)
(* `written` stays within the buffer and read(2) follows an input that is  *)
(* there.                                                                  *)
THEOREM SerialTypeCorrect == Spec => []SerialTypeOK
<1>1. SerialInv => SerialTypeOK
  BY DEF SerialInv
<1> QED
  BY <1>1, SerialInvHolds, PTL

(* The bytes on the wire are the callers' buffers in order and without     *)
(* gaps, all of a buffer when its write succeeds, for every way to cut     *)
(* writes up and every number of signals and failures.                     *)
THEOREM WritesAreWhole == Spec => []WritesWholeOrPrefix
<1>1. SerialInv => WritesWholeOrPrefix
  BY DEF SerialInv
<1> QED
  BY <1>1, SerialInvHolds, PTL
=============================================================================
