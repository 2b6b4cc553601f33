---------------------------- MODULE EzoUartProofs ----------------------------
(***************************************************************************)
(* Proofs about the UART core, for every buffer size, line length, set of  *)
(* lines and number of lines.                                              *)
(***************************************************************************)
EXTENDS EzoUartProps, SequenceTheorems, TLAPS

-----------------------------------------------------------------------------
(***************************************************************************)
(* Lines and bytes.                                                        *)
(***************************************************************************)

(* A line has a length, and only the empty line has length 0. *)
LEMMA CharsType ==
  ASSUME NEW k \in LineKinds
  PROVE  Chars(k) \in Nat /\ (Chars(k) = 0 <=> k = "EMPTY")
  BY UartAssumption DEF Chars, LineKinds, ControlKinds, Kinds

(* The bytes of a line: its characters and a carriage return. *)
LEMMA BytesType ==
  ASSUME NEW l \in Line
  PROVE  /\ Bytes(l) \in Seq(Byte)
         /\ Len(Bytes(l)) = Chars(l.kind) + 1
         /\ \A j \in 1 .. Len(Bytes(l)) : Bytes(l)[j] = [line |-> l, i |-> j]
<1>1. l.kind \in LineKinds
  BY DEF Line
<1>2. Chars(l.kind) + 1 \in Nat
  BY <1>1, CharsType
<1>3. \A j \in 1 .. Chars(l.kind) + 1 : [line |-> l, i |-> j] \in Byte
  BY <1>2 DEF Byte
<1> QED
  BY <1>2, <1>3 DEF Bytes

(* What ezo_uart_classify_response returns for a line that is not empty. *)
LEMMA ClassifyType ==
  ASSUME NEW s \in Seq(Byte), s # <<>>
  PROVE  Classify(s) \in ControlKinds \cup {"DATA"}
<1>1. s[1] \in Byte /\ Len(s) \in Nat \ {0}
  BY EmptySeq, ElementOfSeq
<1>2. s[1].line.kind \in LineKinds /\ s[1].line.ending \in ControlKinds \cup {"DATA"}
  BY <1>1, UartAssumption DEF Byte, Line
<1>3. IsWhole(s) => s[1].line.kind # "EMPTY"
  BY <1>1, <1>2, CharsType DEF IsWhole
<1> QED
  BY <1>2, <1>3 DEF Classify, LineKinds

-----------------------------------------------------------------------------
(* Members of the sets of names, so that these need not be expanded. *)
LEMMA Names ==
  /\ "UNKNOWN" \in Kinds /\ ControlKinds \cup {"DATA"} \subseteq Kinds
  /\ ReadOps \subseteq Ops /\ {"send", "discard"} \subseteq Ops
  /\ "none" \notin ReadOps
  /\ {"OK", "INVALID_ARGUMENT", "TRANSPORT", "PROTOCOL", "BUFFER_TOO_SMALL"} = Results
  BY DEF Kinds, ControlKinds, Ops, ReadOps, Results

(***************************************************************************)
(* Types.                                                                  *)
(***************************************************************************)
LEMMA TypeInit == Init => TypeOK
<1> SUFFICES ASSUME Init PROVE TypeOK
  OBVIOUS
<1>1. CallTypeOK
  BY UartAssumption, Names DEF Init, CallTypeOK, Reading
<1>2. over \in BOOLEAN
  BY DEF Init
<1>3. LinkTypeOK
  BY UartAssumption DEF Init, LinkTypeOK
<1> QED
  BY <1>1, <1>2, <1>3 DEF TypeOK

(* Bytes get into the queues whole lines at a time and leave one at a time, *)
(* or all that have arrived at once.                                       *)
LEMMA LinkTypeStep == LinkTypeOK /\ [Next]_vars => LinkTypeOK'
<1> SUFFICES ASSUME LinkTypeOK, [Next]_vars PROVE LinkTypeOK'
  OBVIOUS
<1> USE UartAssumption DEF LinkTypeOK, linkVars
<1>1. ASSUME NEW k \in Emittable, NEW e \in EndingsOf(k), Emit(k, e) PROVE LinkTypeOK'
  <2>1. [no |-> emitted + 1, kind |-> k, ending |-> e] \in Line
    BY <1>1 DEF Emit, Line, LineKinds, EndingsOf
  <2>2. Bytes([no |-> emitted + 1, kind |-> k, ending |-> e]) \in Seq(Byte)
    BY <2>1, BytesType
  <2> QED
    BY <1>1, <2>2 DEF Emit
<1>2. CASE Arrive
  BY <1>2 DEF Arrive
<1>3. CASE Discard
  <2>1. CASE rx' = <<>>
    BY <1>3, <2>1 DEF Discard
  <2>2. CASE rx' = rx
    BY <1>3, <2>2 DEF Discard
  <2> QED
    BY <1>3, <2>1, <2>2 DEF Discard
<1>4. CASE TakeByte
  BY <1>4 DEF TakeByte
<1>5. CASE UNCHANGED linkVars
  BY <1>5
<1> QED
  BY <1>1, <1>2, <1>3, <1>4, <1>5
  DEF Next, DriverStep, BeginRead, RefuseRead, Send, StoreByte, DropByte,
      EndOfNothing, EndOfLongLine, EndOfLine, BeginReadOk, TimeOut, ReadFault, vars

LEMMA OverflowedTypeStep == TypeOK /\ [Next]_vars => over' \in BOOLEAN
  BY Zenon
  DEF TypeOK, Next, DriverStep, Emit, Arrive, BeginRead, RefuseRead, Send, Discard,
      StoreByte, DropByte, EndOfNothing, EndOfLongLine, EndOfLine, BeginReadOk,
      TimeOut, ReadFault, Fail, EnterReadLine, vars, callVars

LEMMA CallTypeStep == TypeOK /\ [Next]_vars => CallTypeOK'
<1> SUFFICES ASSUME TypeOK, [Next]_vars PROVE CallTypeOK'
  OBVIOUS
<1> USE UartAssumption, Names DEF TypeOK, CallTypeOK, Reading
<1>1. CASE UNCHANGED <<lastKind, callVars, ret>>
  BY <1>1 DEF callVars
<1>2. ASSUME NEW o \in ReadOps, NEW c \in CapsOf(o), BeginRead(o, c) PROVE CallTypeOK'
  <2>1. c \in Nat
    BY DEF CapsOf
  <2> QED
    BY <1>2, <2>1 DEF BeginRead, ValidCap, EnterReadLine
<1>3. ASSUME NEW o \in ReadOps, NEW c \in CapsOf(o), RefuseRead(o, c) PROVE CallTypeOK'
  BY <1>3 DEF RefuseRead, callVars
<1>4. CASE Send
  BY <1>4 DEF Send, callVars
<1>5. CASE Discard
  BY <1>5 DEF Discard, callVars
<1>6. CASE StoreByte
  BY <1>6 DEF StoreByte, TakeByte, LinkTypeOK
<1>7. CASE DropByte
  BY <1>7 DEF DropByte
<1>8. ASSUME op # "none", NEW r \in Results, Fail(r) PROVE CallTypeOK'
  BY <1>8 DEF Fail, Return
<1>9. CASE EndOfLine
  <2>1. lastKind' \in Kinds
    BY <1>9, ClassifyType DEF EndOfLine
  <2> QED
    BY <1>9, <2>1 DEF EndOfLine, TakeByte, Return
<1>10. CASE BeginReadOk
  BY <1>10 DEF BeginReadOk, EnterReadLine
<1>11. CASE EndOfNothing \/ EndOfLongLine \/ TimeOut \/ ReadFault
  BY <1>8, <1>11 DEF EndOfNothing, EndOfLongLine, TakeByte, TimeOut, ReadFault
<1> QED
  BY <1>1, <1>2, <1>3, <1>4, <1>5, <1>6, <1>7, <1>9, <1>10, <1>11
  DEF Next, DriverStep, Emit, Arrive, vars

LEMMA TypeStep == TypeOK /\ [Next]_vars => TypeOK'
  BY LinkTypeStep, OverflowedTypeStep, CallTypeStep DEF TypeOK

(* Type correctness, and with it the bound on the buffer: whatever arrives, *)
(* ezo_uart_read_line never stores past the NUL's place in buffer_len.     *)
THEOREM TypeCorrect == Spec => []TypeOK
  BY TypeInit, TypeStep, PTL DEF Spec
-----------------------------------------------------------------------------
(***************************************************************************)
(* Framed byte streams.                                                    *)
(***************************************************************************)

(* Taking the first byte off the input queue takes it off what is pending. *)
LEMMA ConcatTail ==
  ASSUME NEW s \in Seq(Byte), NEW t \in Seq(Byte), s # <<>>
  PROVE  /\ s \o t \in Seq(Byte) /\ s \o t # <<>> /\ (s \o t)[1] = Head(s)
         /\ Tail(s) \o t \in Seq(Byte) /\ Len(Tail(s) \o t) = Len(s \o t) - 1
         /\ \A i \in 1 .. Len(Tail(s) \o t) : (Tail(s) \o t)[i] = (s \o t)[i + 1]
<1>1. /\ Tail(s) \in Seq(Byte) /\ Len(Tail(s)) = Len(s) - 1
      /\ Len(s) \in Nat \ {0} /\ Len(t) \in Nat
      /\ \A i \in 1 .. Len(Tail(s)) : Tail(s)[i] = s[i + 1]
  BY HeadTailProperties, EmptySeq, LenProperties
<1>2. /\ s \o t \in Seq(Byte) /\ Len(s \o t) = Len(s) + Len(t)
      /\ \A i \in 1 .. Len(s) + Len(t) :
           (s \o t)[i] = IF i <= Len(s) THEN s[i] ELSE t[i - Len(s)]
  BY ConcatProperties
<1>3. /\ Tail(s) \o t \in Seq(Byte) /\ Len(Tail(s) \o t) = Len(s) - 1 + Len(t)
      /\ \A i \in 1 .. Len(s) - 1 + Len(t) :
           (Tail(s) \o t)[i] = IF i <= Len(s) - 1 THEN Tail(s)[i] ELSE t[i - (Len(s) - 1)]
  BY <1>1, ConcatProperties
<1>4. s \o t # <<>> /\ (s \o t)[1] = Head(s)
  BY <1>1, <1>2, EmptySeq
<1> QED
  BY <1>1, <1>2, <1>3, <1>4

(* What is left of a framed stream after bytes were taken off its front is *)
(* framed.                                                                 *)
LEMMA FramedSuffix ==
  ASSUME NEW s \in Seq(Byte), NEW t \in Seq(Byte), NEW n \in Nat, NEW d \in Nat,
         FramedUpTo(s, n), Len(t) = Len(s) - d,
         \A i \in 1 .. Len(t) : t[i] = s[i + d]
  PROVE  FramedUpTo(t, n)
<1>1. Len(s) \in Nat /\ Len(t) \in Nat
  BY LenProperties
<1>2. Chained(t)
  BY <1>1 DEF FramedUpTo, Chained
<1>3. ASSUME t # <<>> PROVE IsCR(t[Len(t)]) /\ t[Len(t)].line.no = n
  <2>1. Len(t) >= 1 /\ s # <<>>
    BY <1>1, <1>3, EmptySeq
  <2>2. t[Len(t)] = s[Len(s)]
    BY <1>1, <2>1
  <2> QED
    BY <2>1, <2>2 DEF FramedUpTo
<1> QED
  BY <1>2, <1>3 DEF FramedUpTo

(* Putting the next line behind a framed stream keeps it framed. *)
LEMMA FramedLine ==
  ASSUME NEW s \in Seq(Byte), NEW n \in Nat, FramedUpTo(s, n),
         NEW l \in Line, l.no = n + 1
  PROVE  /\ FramedUpTo(s \o Bytes(l), n + 1)
         /\ s \o Bytes(l) # <<>>
         /\ (s \o Bytes(l))[1] = IF s = <<>> THEN [line |-> l, i |-> 1] ELSE s[1]
<1> DEFINE t == Bytes(l)
           c == Chars(l.kind)
<1>1. c \in Nat /\ Len(s) \in Nat
  BY CharsType, LenProperties DEF Line
<1>2. t \in Seq(Byte) /\ Len(t) = c + 1 /\ \A j \in 1 .. c + 1 : t[j] = [line |-> l, i |-> j]
  BY BytesType
<1> HIDE DEF t, c
<1>3. /\ s \o t \in Seq(Byte) /\ Len(s \o t) = Len(s) + c + 1
      /\ \A j \in 1 .. Len(s) + c + 1 :
           (s \o t)[j] = IF j <= Len(s) THEN s[j] ELSE [line |-> l, i |-> j - Len(s)]
  <2>1. /\ s \o t \in Seq(Byte) /\ Len(s \o t) = Len(s) + Len(t)
        /\ \A j \in 1 .. Len(s) + Len(t) :
             (s \o t)[j] = IF j <= Len(s) THEN s[j] ELSE t[j - Len(s)]
    BY <1>2, ConcatProperties
  <2> QED
    BY <1>1, <1>2, <2>1
<1>4. s \o t # <<>> /\ (s \o t)[1] = IF s = <<>> THEN [line |-> l, i |-> 1] ELSE s[1]
  <2>1. s \o t # <<>>
    BY <1>1, <1>3
  <2>2. CASE s = <<>>
    <3>1. Len(s) = 0
      BY <2>2
    <3> QED
      BY <1>1, <1>3, <2>1, <2>2, <3>1
  <2>3. CASE s # <<>>
    <3>1. Len(s) >= 1
      BY <1>1, <2>3, EmptySeq
    <3> QED
      BY <1>1, <1>3, <2>1, <2>3, <3>1
  <2> QED
    BY <2>2, <2>3
<1>5. ASSUME NEW j \in 1 .. Len(s \o t) - 1 PROVE Follows((s \o t)[j], (s \o t)[j + 1])
  <2>1. CASE j < Len(s)
    BY <1>1, <1>3, <2>1 DEF FramedUpTo, Chained
  <2>2. CASE j = Len(s)
    <3>1. s # <<>> /\ (s \o t)[j] = s[Len(s)] /\ (s \o t)[j + 1] = [line |-> l, i |-> 1]
      BY <1>1, <1>3, <2>2, EmptySeq
    <3> QED
      BY <3>1 DEF FramedUpTo, Follows
  <2>3. CASE j > Len(s)
    <3>1. j \in Nat /\ j + 1 <= Len(s) + c + 1 /\ (j + 1) - Len(s) = j - Len(s) + 1
      BY <1>1, <1>3, <2>3
    <3>2. (s \o t)[j] = [line |-> l, i |-> j - Len(s)]
      BY <1>1, <1>3, <2>3, <3>1
    <3>3. (s \o t)[j + 1] = [line |-> l, i |-> j - Len(s) + 1]
      BY <1>1, <1>3, <2>3, <3>1
    <3> QED
      BY <1>1, <3>1, <3>2, <3>3 DEF Follows, IsCR, c
  <2> QED
    BY <1>1, <2>1, <2>2, <2>3
<1>6. IsCR((s \o t)[Len(s \o t)]) /\ (s \o t)[Len(s \o t)].line.no = n + 1
  <2>1. (s \o t)[Len(s \o t)] = [line |-> l, i |-> c + 1]
    BY <1>1, <1>3
  <2> QED
    BY <2>1 DEF IsCR, c
<1> QED
  BY <1>4, <1>5, <1>6 DEF FramedUpTo, Chained, t

-----------------------------------------------------------------------------
(***************************************************************************)
(* What each step does to the bytes that are pending.                      *)
(***************************************************************************)
LEMMA PendingType ==
  ASSUME LinkTypeOK
  PROVE  Pending \in Seq(Byte) /\ emitted \in Nat
  BY UartAssumption, ConcatProperties DEF LinkTypeOK, Pending

LEMMA WireEmit ==
  ASSUME LinkTypeOK, WireFramed, NEW k \in Emittable, NEW e \in EndingsOf(k), Emit(k, e)
  PROVE  /\ WireFramed' /\ Pending' # <<>>
         /\ IF Pending = <<>> THEN Pending'[1].i = 1 /\ Pending'[1].line.no = emitted + 1
            ELSE Pending'[1] = Pending[1]
<1> DEFINE l == [no |-> emitted + 1, kind |-> k, ending |-> e]
<1>1. l \in Line /\ l.no = emitted + 1
  BY UartAssumption DEF Emit, LinkTypeOK, Line, LineKinds, EndingsOf
<1> HIDE DEF l
<1>2. Pending' = Pending \o Bytes(l)
  <2>1. rx \in Seq(Byte) /\ air \in Seq(Byte) /\ Bytes(l) \in Seq(Byte)
    BY <1>1, BytesType DEF LinkTypeOK
  <2>2. rx \o (air \o Bytes(l)) = (rx \o air) \o Bytes(l)
    BY <2>1, ConcatAssociative
  <2> QED
    BY <2>2 DEF Emit, Pending, l
<1>3. /\ FramedUpTo(Pending \o Bytes(l), emitted + 1)
      /\ Pending \o Bytes(l) # <<>>
      /\ (Pending \o Bytes(l))[1] =
           IF Pending = <<>> THEN [line |-> l, i |-> 1] ELSE Pending[1]
  BY <1>1, PendingType, FramedLine DEF WireFramed
<1>4. emitted' = emitted + 1
  BY DEF Emit
<1> QED
  BY <1>1, <1>2, <1>3, <1>4 DEF WireFramed

LEMMA WireArrive ==
  ASSUME LinkTypeOK, Arrive
  PROVE  Pending' = Pending /\ emitted' = emitted
<1> DEFINE b == Head(air)
<1>1. /\ rx \in Seq(Byte) /\ air \in Seq(Byte) /\ air # <<>>
      /\ b \in Byte /\ Tail(air) \in Seq(Byte) /\ <<b>> \in Seq(Byte)
  BY HeadTailProperties DEF LinkTypeOK, Arrive
<1>2. air = <<b>> \o Tail(air)
  <2>1. Len(air) \in Nat \ {0} /\ 1 \in 1 .. Len(air) /\ Len(air) \in 1 .. Len(air)
    BY <1>1, EmptySeq
  <2>2. SubSeq(air, 1, Len(air)) = <<air[1]>> \o SubSeq(air, 2, Len(air))
    BY <1>1, <2>1, SubSeqRecursiveFirst
  <2> QED
    BY <1>1, <2>2, SubSeqFull, TailIsSubSeq
<1>3. Append(rx, b) \o Tail(air) = rx \o air
  <2>1. Append(rx, b) = rx \o <<b>>
    BY <1>1, AppendIsConcat
  <2>2. (rx \o <<b>>) \o Tail(air) = rx \o (<<b>> \o Tail(air))
    BY <1>1, ConcatAssociative
  <2> QED
    BY <1>2, <2>1, <2>2
<1> QED
  BY <1>3 DEF Arrive, Pending

LEMMA WireTake ==
  ASSUME LinkTypeOK, WireFramed, TakeByte
  PROVE  /\ Pending # <<>> /\ Pending[1] = Head(rx) /\ Head(rx) \in Byte
         /\ WireFramed' /\ emitted' = emitted
         /\ Pending' # <<>> => Follows(Pending[1], Pending'[1])
         /\ Pending' = <<>> => IsCR(Pending[1]) /\ Pending[1].line.no = emitted
<1>1. rx \in Seq(Byte) /\ air \in Seq(Byte) /\ rx # <<>> /\ Pending' = Tail(rx) \o air
      /\ emitted' = emitted
  BY DEF LinkTypeOK, TakeByte, Pending
<1>2. /\ Pending # <<>> /\ Pending[1] = Head(rx)
      /\ Pending' \in Seq(Byte) /\ Len(Pending') = Len(Pending) - 1
      /\ \A i \in 1 .. Len(Pending') : Pending'[i] = Pending[i + 1]
  BY <1>1, ConcatTail DEF Pending
<1>3. Pending \in Seq(Byte) /\ emitted \in Nat /\ Len(Pending) \in Nat /\ Len(Pending') \in Nat
  BY <1>2, PendingType, LenProperties
<1>4. FramedUpTo(Pending', emitted)
  BY <1>2, <1>3, FramedSuffix DEF WireFramed
<1>5. ASSUME Pending' # <<>> PROVE Follows(Pending[1], Pending'[1])
  <2>1. Len(Pending') >= 1
    BY <1>2, <1>3, <1>5, EmptySeq
  <2> QED
    BY <1>2, <1>3, <2>1 DEF WireFramed, FramedUpTo, Chained
<1>6. ASSUME Pending' = <<>> PROVE IsCR(Pending[1]) /\ Pending[1].line.no = emitted
  <2>1. Len(Pending) = 1
    BY <1>2, <1>3, <1>6
  <2> QED
    BY <1>2, <2>1 DEF WireFramed, FramedUpTo
<1>7. Head(rx) \in Byte
  BY <1>1, HeadTailProperties
<1> QED
  BY <1>1, <1>2, <1>4, <1>5, <1>6, <1>7 DEF WireFramed

LEMMA WireDiscard ==
  ASSUME LinkTypeOK, WireFramed, Discard
  PROVE  WireFramed'
<1>1. rx \in Seq(Byte) /\ air \in Seq(Byte) /\ Len(rx) \in Nat /\ Len(air) \in Nat
      /\ emitted \in Nat
  BY LenProperties, UartAssumption DEF LinkTypeOK
<1>2. CASE rx' = rx
  BY <1>2 DEF Discard, WireFramed, Pending
<1>3. CASE rx' = <<>>
  <2>1. Pending' = air /\ emitted' = emitted
    BY <1>1, <1>3, ConcatEmptySeq DEF Discard, Pending
  <2>2. /\ Pending \in Seq(Byte) /\ Len(Pending) = Len(rx) + Len(air)
        /\ \A i \in 1 .. Len(rx) + Len(air) :
             Pending[i] = IF i <= Len(rx) THEN rx[i] ELSE air[i - Len(rx)]
    BY <1>1, ConcatProperties DEF Pending
  <2>3. Len(air) = Len(Pending) - Len(rx)
        /\ \A i \in 1 .. Len(air) : air[i] = Pending[i + Len(rx)]
    BY <1>1, <2>2
  <2>4. FramedUpTo(air, emitted)
    BY <1>1, <2>2, <2>3, FramedSuffix DEF WireFramed
  <2> QED
    BY <2>1, <2>4 DEF WireFramed
<1> QED
  BY <1>2, <1>3 DEF Discard

(* Steps that take no byte, emit none and discard none. *)
LEMMA WireSame ==
  ASSUME UNCHANGED linkVars
  PROVE  Pending' = Pending /\ emitted' = emitted
  BY DEF linkVars, Pending

-----------------------------------------------------------------------------
(***************************************************************************)
(* The text of a line.                                                     *)
(***************************************************************************)

(* A character that follows the text stored so far extends it. *)
LEMMA AppendRun ==
  ASSUME NEW s \in Seq(Byte), IsRun(s), NEW b \in Byte, ~IsCR(b),
         s # <<>> => Follows(s[Len(s)], b)
  PROVE  /\ IsRun(Append(s, b)) /\ Append(s, b) # <<>>
         /\ Append(s, b)[Len(Append(s, b))] = b
         /\ Append(s, b)[1] = IF s = <<>> THEN b ELSE s[1]
<1>1. /\ Len(s) \in Nat /\ Append(s, b) # <<>> /\ Len(Append(s, b)) = Len(s) + 1
      /\ \A i \in 1 .. Len(s) : Append(s, b)[i] = s[i]
      /\ Append(s, b)[Len(s) + 1] = b
  BY AppendProperties, LenProperties
<1>2. b.i \in Nat
  BY DEF Byte
<1>3. CASE s = <<>>
  <2>1. Len(s) = 0
    BY <1>3
  <2> QED
    BY <1>1, <1>2, <1>3, <2>1 DEF IsRun
<1>4. CASE s # <<>>
  <2>1. Len(s) >= 1 /\ s[1] \in Byte
    BY <1>1, <1>4, EmptySeq, ElementOfSeq
  <2>2. b.line = s[1].line /\ b.i = s[1].i + Len(s)
    BY <1>1, <1>4, <2>1 DEF IsRun, Follows, Byte
  <2> QED
    BY <1>1, <1>4, <2>1, <2>2 DEF IsRun
<1> QED
  BY <1>3, <1>4

(* When the carriage return comes, the text is complete to its end, and    *)
(* ezo_uart_classify_response takes it for the token that it spells, if it *)
(* spells one.                                                             *)
LEMMA TextOfLine ==
  ASSUME NEW s \in Seq(Byte), s # <<>>, IsRun(s),
         NEW c \in Byte, IsCR(c), Follows(s[Len(s)], c)
  PROVE  /\ IsTail(s) /\ c.line = s[1].line
         /\ \A k \in ControlKinds : Classify(s) = k <=> Spells(s, k)
         /\ s[1].i = 1 => s[1].line.kind = Classify(s)
<1>1. Len(s) \in Nat \ {0} /\ s[1] \in Byte /\ s[Len(s)] \in Byte
  BY EmptySeq, ElementOfSeq
<1>2. /\ ~IsCR(s[Len(s)]) /\ s[Len(s)].line = s[1].line
      /\ s[Len(s)].i = s[1].i + Len(s) - 1
  BY <1>1 DEF IsRun
<1>3. c = [line |-> s[1].line, i |-> s[Len(s)].i + 1]
  BY <1>2 DEF Follows
<1>4. Chars(s[1].line.kind) \in Nat /\ s[1].line.kind \in LineKinds
      /\ (Chars(s[1].line.kind) = 0 <=> s[1].line.kind = "EMPTY")
  BY <1>1, CharsType DEF Byte, Line
<1>5. s[Len(s)].i = Chars(s[1].line.kind)
  BY <1>1, <1>3, <1>4 DEF IsCR, Byte
<1>6. s[1].i = 1 => IsWhole(s) /\ s[1].line.kind \in ControlKinds \cup {"DATA"}
  BY <1>1, <1>2, <1>4, <1>5 DEF IsWhole, LineKinds
<1>7. "DATA" \notin ControlKinds
  BY DEF ControlKinds
<1>8. CASE s[1].i = 1
  <2>1. Classify(s) = s[1].line.kind
    BY <1>6, <1>8 DEF Classify
  <2> QED
    BY <1>3, <1>5, <1>8, <2>1 DEF IsTail, Spells
<1>9. CASE s[1].i # 1
  <2>1. Classify(s) = IF Len(s) = Chars(s[1].line.ending) THEN s[1].line.ending ELSE "DATA"
    BY <1>9 DEF Classify, IsWhole
  <2>2. \A k \in ControlKinds : Classify(s) = k <=> Spells(s, k)
    BY <1>7, <1>9, <2>1 DEF Spells
  <2> QED
    BY <1>3, <1>5, <1>9, <2>2 DEF IsTail
<1> QED
  BY <1>8, <1>9

-----------------------------------------------------------------------------
(***************************************************************************)
(* The framing invariant, one part at a time.                              *)
(***************************************************************************)
LEMMA WireFramedStep ==
  ASSUME LinkTypeOK, WireFramed, [Next]_vars
  PROVE  WireFramed'
<1>1. CASE UNCHANGED linkVars
  BY <1>1, WireSame DEF WireFramed
<1>2. CASE TakeByte
  BY <1>2, WireTake
<1>3. CASE Arrive
  BY <1>3, WireArrive DEF WireFramed
<1>4. CASE Discard
  BY <1>4, WireDiscard
<1>5. ASSUME NEW k \in Emittable, NEW e \in EndingsOf(k), Emit(k, e) PROVE WireFramed'
  BY <1>5, WireEmit
<1> QED
  BY <1>1, <1>2, <1>3, <1>4, <1>5
  DEF Next, DriverStep, BeginRead, RefuseRead, Send, StoreByte, DropByte,
      EndOfNothing, EndOfLongLine, EndOfLine, BeginReadOk, TimeOut, ReadFault, vars

LEMMA ReadFramedStep ==
  ASSUME TypeOK, WireFramed, ReadFramed, [Next]_vars
  PROVE  ReadFramed'
<1> USE DEF TypeOK
<1>1. CASE UNCHANGED vars
  BY <1>1 DEF vars, callVars, linkVars, ReadFramed, Reading, Pending
<1>2. ASSUME NEW k \in Emittable, NEW e \in EndingsOf(k), Emit(k, e) PROVE ReadFramed'
  BY <1>2, WireEmit DEF Emit, callVars, ReadFramed, Reading
<1>3. CASE Arrive
  BY <1>3, WireArrive DEF Arrive, callVars, ReadFramed, Reading
<1>4. CASE buf' = <<>> /\ lastKind' = "UNKNOWN"
  BY <1>4 DEF ReadFramed, IsRun
<1>5. CASE ~Reading'
  BY <1>5 DEF ReadFramed
<1>6. CASE StoreByte
  <2>1. /\ Head(rx) \in Byte /\ ~IsCR(Head(rx)) /\ Head(rx) = Pending[1]
        /\ Pending' # <<>> /\ Follows(Head(rx), Pending'[1])
    BY <1>6, WireTake DEF StoreByte
  <2>2. /\ IsRun(Append(buf, Head(rx))) /\ Append(buf, Head(rx)) # <<>>
        /\ Append(buf, Head(rx))[Len(Append(buf, Head(rx)))] = Head(rx)
    BY <1>6, <2>1, AppendRun DEF StoreByte, TakeByte, ReadFramed, CallTypeOK
  <2> QED
    BY <1>6, <2>1, <2>2 DEF StoreByte, TakeByte, ReadFramed
<1>7. CASE DropByte
  BY <1>7 DEF DropByte, TakeByte, ReadFramed, Reading
<1>8. CASE EndOfLine
  BY <1>5, <1>8 DEF EndOfLine, Return, Reading
<1>9. ASSUME NEW o \in ReadOps, NEW c \in CapsOf(o), BeginRead(o, c) PROVE ReadFramed'
  BY <1>4, <1>9 DEF BeginRead, EnterReadLine
<1>10. CASE BeginReadOk
  BY <1>4, <1>10 DEF BeginReadOk, EnterReadLine
<1> QED
  BY <1>1, <1>2, <1>3, <1>5, <1>6, <1>7, <1>8, <1>9, <1>10
  DEF Next, DriverStep, RefuseRead, Send, Discard, EndOfNothing, EndOfLongLine,
      TimeOut, ReadFault, Fail, Return, callVars, Reading

(* What the end of a line that fits leaves behind. *)
LEMMA EndOfLineText ==
  ASSUME TypeOK, WireFramed, ReadFramed, EndOfLine
  PROVE  /\ IsTail(buf) /\ buf' = buf /\ buf # <<>>
         /\ \A k \in ControlKinds : lastKind' = k <=> Spells(buf, k)
         /\ buf[1].i = 1 => buf[1].line.kind = lastKind'
         /\ lastKind' = "DATA" => IsPayload(buf)
         /\ IF Pending' = <<>> THEN buf[1].line.no = emitted'
            ELSE Pending'[1].i = 1 /\ Pending'[1].line.no = buf[1].line.no + 1
<1>1. /\ Reading /\ buf \in Seq(Byte) /\ buf # <<>> /\ ~over
      /\ TakeByte /\ IsCR(Head(rx)) /\ LinkTypeOK
      /\ buf' = buf /\ lastKind' = Classify(buf)
  BY DEF EndOfLine, TakeByte, TypeOK, CallTypeOK
<1>2. /\ Head(rx) \in Byte /\ Head(rx) = Pending[1] /\ emitted' = emitted
      /\ Pending' # <<>> => Follows(Head(rx), Pending'[1])
      /\ Pending' = <<>> => Head(rx).line.no = emitted
  BY <1>1, WireTake
<1>3. IsRun(buf) /\ Follows(buf[Len(buf)], Head(rx))
  BY <1>1, <1>2 DEF ReadFramed
<1>4. /\ IsTail(buf) /\ Head(rx).line = buf[1].line
      /\ \A k \in ControlKinds : Classify(buf) = k <=> Spells(buf, k)
      /\ buf[1].i = 1 => buf[1].line.kind = Classify(buf)
  BY <1>1, <1>2, <1>3, TextOfLine
<1>5. lastKind' = "DATA" => IsPayload(buf)
  BY <1>1, <1>4 DEF IsPayload, ControlKinds
<1> QED
  BY <1>1, <1>2, <1>4, <1>5 DEF Follows

LEMMA AckFramedStep ==
  ASSUME TypeOK, WireFramed, ReadFramed, AckFramed, [Next]_vars
  PROVE  AckFramed'
<1>1. CASE UNCHANGED vars
  BY <1>1 DEF vars, callVars, linkVars, AckFramed, Pending
<1>2. ASSUME NEW k \in Emittable, NEW e \in EndingsOf(k), Emit(k, e) PROVE AckFramed'
  BY <1>2, WireEmit DEF TypeOK, Emit, callVars, AckFramed
<1>3. CASE Arrive
  BY <1>3, WireArrive DEF TypeOK, Arrive, callVars, AckFramed
<1>4. CASE step' = "first"
  BY <1>4 DEF AckFramed
<1>5. CASE op = "none" /\ UNCHANGED callVars
  BY <1>4, <1>5 DEF TypeOK, CallTypeOK, callVars
<1>6. CASE StoreByte
  <2>1. /\ LinkTypeOK /\ TakeByte /\ buf \in Seq(Byte) /\ ~over
        /\ UNCHANGED <<op, step, data>> /\ buf' = Append(buf, Head(rx))
    BY <1>6 DEF StoreByte, TypeOK, CallTypeOK
  <2>2. Head(rx) \in Byte /\ Head(rx) = Pending[1] /\ Pending # <<>>
    BY <2>1, WireTake
  <2>3. buf' # <<>> /\ buf'[1] = IF buf = <<>> THEN Pending[1] ELSE buf[1]
    <3>1. /\ Append(buf, Head(rx)) # <<>> /\ Len(buf) \in Nat
          /\ \A i \in 1 .. Len(buf) : Append(buf, Head(rx))[i] = buf[i]
          /\ Append(buf, Head(rx))[Len(buf) + 1] = Head(rx)
      BY <2>1, <2>2, AppendProperties, LenProperties
    <3>2. CASE buf = <<>>
      <4>1. Len(buf) = 0
        BY <3>2
      <4> QED
        BY <2>1, <2>2, <3>1, <3>2, <4>1
    <3>3. CASE buf # <<>>
      <4>1. Len(buf) >= 1
        BY <2>1, <3>1, <3>3, EmptySeq
      <4> QED
        BY <2>1, <3>1, <3>3, <4>1
    <3> QED
      BY <3>2, <3>3
  <2>4. step # "between"
    BY <2>1 DEF TakeByte, Reading
  <2>5. ASSUME step # "first"
        PROVE  /\ op = "typed" /\ IsPayload(data)
               /\ buf'[1].i = 1 /\ buf'[1].line.no = data[1].line.no + 1
    BY <2>1, <2>2, <2>3, <2>4, <2>5 DEF AckFramed, CallTypeOK, TypeOK
  <2> QED
    BY <2>1, <2>3, <2>4, <2>5 DEF AckFramed, CallTypeOK, TypeOK
<1>7. CASE DropByte
  <2>1. over' /\ step # "between" /\ UNCHANGED <<op, step, buf, data>>
    BY <1>7 DEF DropByte, TakeByte, Reading
  <2> QED
    BY <2>1 DEF AckFramed, CallTypeOK, TypeOK
<1>8. CASE EndOfLine
  <2>1. CASE step' = "between"
    <3>1. op = "typed" /\ op' = op /\ data' = buf /\ lastKind' = "DATA"
      BY <1>8, <2>1 DEF EndOfLine, Return, Accept, TakeByte, Reading
    <3> QED
      BY <1>8, <2>1, <3>1, EndOfLineText DEF AckFramed
  <2>2. CASE step' # "between"
    <3>1. step' = "first"
      BY <1>8, <2>2 DEF EndOfLine, Return
    <3> QED
      BY <1>4, <3>1
  <2> QED
    BY <2>1, <2>2
<1>9. ASSUME NEW o \in ReadOps, NEW c \in CapsOf(o), BeginRead(o, c) PROVE AckFramed'
  BY <1>4, <1>9 DEF BeginRead
<1>10. CASE BeginReadOk
  <2>1. Pending' = Pending /\ emitted' = emitted
    BY <1>10, WireSame DEF BeginReadOk
  <2>2. /\ step = "between" /\ step' = "second" /\ buf' = <<>>
        /\ op' = op /\ data' = data
    BY <1>10 DEF BeginReadOk, EnterReadLine
  <2>3. /\ op = "typed" /\ IsPayload(data)
        /\ IF Pending = <<>> THEN data[1].line.no = emitted
           ELSE Pending[1].i = 1 /\ Pending[1].line.no = data[1].line.no + 1
    BY <2>2 DEF AckFramed
  <2> QED
    BY <2>1, <2>2, <2>3 DEF AckFramed
<1>11. ASSUME NEW r \in Results, Return(r) PROVE AckFramed'
  <2>1. step' = "first"
    BY <1>11 DEF Return
  <2> QED
    BY <1>4, <2>1
<1> QED
  BY <1>1, <1>2, <1>3, <1>5, <1>6, <1>7, <1>8, <1>9, <1>10, <1>11, Names
  DEF Next, DriverStep, RefuseRead, Send, Discard, EndOfNothing, EndOfLongLine,
      TimeOut, ReadFault, Fail

-----------------------------------------------------------------------------
(***************************************************************************)
(* The properties, as steps of the invariant.                              *)
(***************************************************************************)
LEMMA LineIntegrityStep ==
  ASSUME TypeOK, WireFramed, ReadFramed, LineIntegrity, [Next]_vars
  PROVE  LineIntegrity'
<1>1. CASE op' = op /\ lastKind' = lastKind /\ buf' = buf
  BY <1>1 DEF LineIntegrity
<1>2. CASE lastKind' = "UNKNOWN"
  BY <1>2 DEF LineIntegrity
<1>3. CASE op' # "none"
  BY <1>3 DEF LineIntegrity
<1>4. CASE EndOfLine
  <2>1. /\ IsTail(buf) /\ buf' = buf
        /\ \A k \in ControlKinds : lastKind' = k <=> Spells(buf, k)
    BY <1>4, EndOfLineText
  <2> QED
    BY <2>1 DEF LineIntegrity
<1>5. ASSUME Reading, NEW r \in Results, Fail(r) PROVE LineIntegrity'
  BY <1>2, <1>5 DEF Fail, ReadFramed
<1>6. CASE EndOfNothing \/ EndOfLongLine \/ TimeOut \/ ReadFault
  BY <1>5, <1>6, Names DEF EndOfNothing, EndOfLongLine, TakeByte, TimeOut, ReadFault
<1>7. CASE StoreByte \/ DropByte
  BY <1>3, <1>7 DEF StoreByte, DropByte, TakeByte, Reading
<1>8. CASE BeginReadOk
  BY <1>2, <1>8 DEF BeginReadOk, EnterReadLine
<1>9. ASSUME NEW o \in ReadOps, NEW c \in CapsOf(o), BeginRead(o, c) PROVE LineIntegrity'
  BY <1>2, <1>9 DEF BeginRead, EnterReadLine
<1> QED
  BY <1>1, <1>2, <1>4, <1>6, <1>7, <1>8, <1>9
  DEF Next, DriverStep, Emit, Arrive, RefuseRead, Send, Discard, vars, callVars

LEMMA BoundaryStep ==
  ASSUME TypeOK, WireFramed, BoundaryAfterLine, [Next]_vars
  PROVE  BoundaryAfterLine'
<1> USE DEF BoundaryAfterLine
<1>1. CASE op' # "none"
  BY <1>1
<1>2. CASE ret'.op \notin ReadOps \/ ret'.res \notin {"OK", "BUFFER_TOO_SMALL"}
  BY <1>2
<1>3. CASE op' = op /\ ret' = ret /\ Pending' = Pending
  BY <1>3
<1>4. ASSUME NEW k \in Emittable, NEW e \in EndingsOf(k), Emit(k, e) PROVE BoundaryAfterLine'
  BY <1>4, WireEmit DEF Emit, callVars, TypeOK
<1>5. CASE TakeByte /\ IsCR(Head(rx))
  BY <1>5, WireTake DEF Follows, TypeOK
<1>6. CASE EndOfNothing \/ EndOfLongLine \/ EndOfLine
  BY <1>5, <1>6 DEF EndOfNothing, EndOfLongLine, EndOfLine
<1>7. CASE TimeOut \/ ReadFault
  BY <1>2, <1>7 DEF TimeOut, ReadFault, Fail, Return
<1>8. CASE StoreByte \/ DropByte
  BY <1>1, <1>8 DEF StoreByte, DropByte, TakeByte, Reading
<1>9. CASE BeginReadOk
  <2>1. op' = op /\ ret' = ret
    BY <1>9 DEF BeginReadOk
  <2> QED
    BY <1>3, <1>9, <2>1, WireSame DEF BeginReadOk
<1>10. ASSUME NEW o \in ReadOps, NEW c \in CapsOf(o), BeginRead(o, c)
       PROVE  BoundaryAfterLine'
  BY <1>1, <1>10, Names DEF BeginRead
<1>11. ASSUME NEW o \in ReadOps, NEW c \in CapsOf(o), RefuseRead(o, c)
       PROVE  BoundaryAfterLine'
  BY <1>2, <1>11 DEF RefuseRead
<1>12. CASE Send \/ Discard
  <2>1. ret'.op \notin ReadOps
    BY <1>12 DEF Send, Discard, ReadOps
  <2> QED
    BY <1>2, <2>1
<1>13. CASE Arrive
  BY <1>3, <1>13, WireArrive DEF Arrive, callVars, TypeOK
<1>14. CASE UNCHANGED vars
  BY <1>3, <1>14, WireSame DEF vars, callVars
<1> QED
  BY <1>4, <1>6, <1>7, <1>8, <1>9, <1>10, <1>11, <1>12, <1>13, <1>14
  DEF Next, DriverStep

LEMMA AcknowledgedStep ==
  ASSUME TypeOK, WireFramed, ReadFramed, AckFramed, TypedIsAcknowledged, [Next]_vars
  PROVE  TypedIsAcknowledged'
<1> USE DEF TypedIsAcknowledged
<1>1. CASE op' # "none"
  BY <1>1
<1>2. CASE ret'.op # "typed" \/ ret'.res # "OK"
  BY <1>2
<1>3. CASE UNCHANGED <<op, ret, lastKind, buf, data>>
  BY <1>3
<1>4. CASE EndOfLine
  <2>1. CASE op' = "none" /\ ret'.op = "typed" /\ ret'.res = "OK"
    <3>1. /\ op = "typed" /\ step = "second" /\ lastKind' = "OK"
          /\ data' = data /\ buf' = buf /\ buf # <<>> /\ ~over
      BY <1>4, <2>1 DEF EndOfLine, Return, Accept, TakeByte, Reading, TypeOK, CallTypeOK
    <3>2. IsPayload(data) /\ buf[1].i = 1 /\ buf[1].line.no = data[1].line.no + 1
      BY <3>1 DEF AckFramed
    <3>3. buf[1].line.kind = "OK"
      BY <1>4, <3>1, <3>2, EndOfLineText
    <3> QED
      BY <3>1, <3>2, <3>3
  <2> QED
    BY <1>1, <1>2, <2>1
<1>5. ASSUME NEW r \in Results \ {"OK"}, Fail(r) PROVE TypedIsAcknowledged'
  BY <1>2, <1>5 DEF Fail, Return
<1>6. CASE EndOfNothing \/ EndOfLongLine \/ TimeOut \/ ReadFault
  BY <1>5, <1>6, Names DEF EndOfNothing, EndOfLongLine, TimeOut, ReadFault
<1>7. CASE StoreByte \/ DropByte \/ BeginReadOk
  BY <1>1, <1>7 DEF StoreByte, DropByte, BeginReadOk, TakeByte, Reading, TypeOK, CallTypeOK
<1>8. ASSUME NEW o \in ReadOps, NEW c \in CapsOf(o), BeginRead(o, c)
      PROVE  TypedIsAcknowledged'
  BY <1>1, <1>8, Names DEF BeginRead
<1>9. ASSUME NEW o \in ReadOps, NEW c \in CapsOf(o), RefuseRead(o, c)
      PROVE  TypedIsAcknowledged'
  BY <1>2, <1>9 DEF RefuseRead
<1>10. CASE Send \/ Discard
  BY <1>2, <1>10 DEF Send, Discard
<1>11. ASSUME NEW k \in Emittable, NEW e \in EndingsOf(k), Emit(k, e) PROVE TypedIsAcknowledged'
  BY <1>3, <1>11 DEF Emit, callVars
<1>12. CASE Arrive \/ UNCHANGED vars
  BY <1>3, <1>12 DEF Arrive, vars, callVars
<1> QED
  BY <1>4, <1>6, <1>7, <1>8, <1>9, <1>10, <1>11, <1>12 DEF Next, DriverStep

-----------------------------------------------------------------------------
(***************************************************************************)
(* The invariant and what follows from it.                                 *)
(***************************************************************************)
UartInv ==
  TypeOK /\ Framing /\ LineIntegrity /\ BoundaryAfterLine /\ TypedIsAcknowledged

LEMMA InvInit == Init => UartInv
<1> SUFFICES ASSUME Init PROVE UartInv
  OBVIOUS
<1>1. Pending = <<>>
  BY ConcatEmptySeq DEF Init, Pending
<1>2. Framing
  BY <1>1 DEF Init, Framing, WireFramed, FramedUpTo, Chained, ReadFramed, AckFramed, Reading
<1>3. LineIntegrity /\ BoundaryAfterLine /\ TypedIsAcknowledged
  BY <1>1 DEF Init, LineIntegrity, BoundaryAfterLine, TypedIsAcknowledged
<1> QED
  BY <1>2, <1>3, TypeInit DEF UartInv

LEMMA InvStep == UartInv /\ [Next]_vars => UartInv'
<1> SUFFICES ASSUME UartInv, [Next]_vars PROVE UartInv'
  OBVIOUS
<1>1. TypeOK /\ LinkTypeOK
  BY DEF UartInv, TypeOK
<1>2. Framing'
  BY <1>1, WireFramedStep, ReadFramedStep, AckFramedStep DEF UartInv, Framing
<1> QED
  BY <1>1, <1>2, TypeStep, LineIntegrityStep, BoundaryStep, AcknowledgedStep
  DEF UartInv, Framing

(* The framing of the input, of the line being read and of a typed read's  *)
(* two lines holds in every state: the invariant the other results need.   *)
THEOREM InputFramed == Spec => []Framing
<1>1. UartInv => Framing
  BY DEF UartInv
<1> QED
  BY <1>1, InvInit, InvStep, PTL DEF Spec

(* ezo_uart_read_line never splices lines, and takes for a token exactly   *)
(* the text that is one, for every buffer size, every token a line may end *)
(* in and every sequence of lines, timeouts, discards and calls.           *)
THEOREM LinesIntact == Spec => []LineIntegrity
<1>1. UartInv => LineIntegrity
  BY DEF UartInv
<1> QED
  BY <1>1, InvInit, InvStep, PTL DEF Spec

(* A read that succeeds, or refuses a line that is too long, ends at a     *)
(* line boundary.                                                          *)
THEOREM BoundaryKept == Spec => []BoundaryAfterLine
<1>1. UartInv => BoundaryAfterLine
  BY DEF UartInv
<1> QED
  BY <1>1, InvInit, InvStep, PTL DEF Spec

(* A typed read that succeeds returns the payload that its *OK follows.    *)
THEOREM TypedAcknowledged == Spec => []TypedIsAcknowledged
<1>1. UartInv => TypedIsAcknowledged
  BY DEF UartInv
<1> QED
  BY <1>1, InvInit, InvStep, PTL DEF Spec

-----------------------------------------------------------------------------
(***************************************************************************)
(* Buffers of one byte aside, an overflow leaves a text in the buffer.     *)
(***************************************************************************)
LongEnough == 1 \notin Caps /\ TerminalCap # 1

OverflowInv == TypeOK /\ (Reading => cap # 1) /\ (over => buf # <<>>)

LEMMA OverflowStep ==
  ASSUME LongEnough, OverflowInv, [Next]_vars
  PROVE  OverflowInv'
<1>1. TypeOK'
  BY TypeStep DEF OverflowInv
<1>2. CASE over' = FALSE /\ (Reading' => cap' # 1)
  BY <1>1, <1>2 DEF OverflowInv
<1>3. CASE UNCHANGED <<op, step, cap, buf, over>>
  BY <1>1, <1>3 DEF OverflowInv, Reading
<1>4. ASSUME NEW o \in ReadOps, NEW c \in CapsOf(o), BeginRead(o, c) PROVE OverflowInv'
  <2>1. c # 1
    BY DEF LongEnough, CapsOf
  <2> QED
    BY <1>2, <1>4, <2>1 DEF BeginRead, EnterReadLine
<1>5. CASE BeginReadOk
  BY <1>2, <1>5 DEF BeginReadOk, EnterReadLine, LongEnough
<1>6. CASE StoreByte
  <2>1. ~over /\ UNCHANGED <<op, step, cap, over>>
    BY <1>6 DEF StoreByte
  <2> QED
    BY <1>1, <2>1 DEF OverflowInv, Reading
<1>7. CASE DropByte
  <2>1. Reading /\ UNCHANGED <<op, step, cap, buf>> /\ (over \/ Len(buf) + 1 >= cap)
    BY <1>7 DEF DropByte, TakeByte
  <2>2. cap # 1 /\ cap \in Nat /\ buf \in Seq(Byte) /\ Len(buf) + 1 <= cap
    BY <2>1, UartAssumption DEF OverflowInv, TypeOK, CallTypeOK
  <2>3. buf # <<>>
    <3>1. CASE over
      BY <3>1 DEF OverflowInv
    <3>2. CASE Len(buf) + 1 >= cap
      <4> SUFFICES ASSUME buf = <<>> PROVE FALSE
        OBVIOUS
      <4>1. Len(buf) = 0
        OBVIOUS
      <4> QED
        BY <2>2, <3>2, <4>1
    <3> QED
      BY <2>1, <3>1, <3>2
  <2> QED
    BY <1>1, <2>1, <2>2, <2>3 DEF OverflowInv, Reading
<1>8. CASE EndOfLine
  BY <1>1, <1>8 DEF EndOfLine, Return, Reading, OverflowInv
<1>9. ASSUME NEW r \in Results, Fail(r) PROVE OverflowInv'
  BY <1>2, <1>9 DEF Fail, Return, Reading
<1>10. CASE EndOfNothing \/ EndOfLongLine \/ TimeOut \/ ReadFault
  BY <1>9, <1>10, Names DEF EndOfNothing, EndOfLongLine, TimeOut, ReadFault
<1> QED
  BY <1>3, <1>4, <1>5, <1>6, <1>7, <1>8, <1>10
  DEF Next, DriverStep, Emit, Arrive, RefuseRead, Send, Discard, vars, callVars

(* A line that does not fit its buffer ends in EZO_ERR_BUFFER_TOO_SMALL    *)
(* when no caller brings a buffer of one byte, which cannot hold a         *)
(* character and reports an empty line instead.                            *)
THEOREM ExhaustionIsReported == LongEnough => (Spec => ExhaustionReported)
<1> SUFFICES ASSUME LongEnough PROVE Spec => ExhaustionReported
  OBVIOUS
<1>1. Init => OverflowInv
  BY TypeInit DEF Init, OverflowInv, Reading
<1>2. OverflowInv /\ [Next]_vars => OverflowInv'
  BY OverflowStep
<1>3. OverflowInv /\ [Next]_vars =>
        [(over /\ Reading /\ rx # <<>> /\ IsCR(Head(rx)) /\ rx' = Tail(rx))
          => ret'.res = "BUFFER_TOO_SMALL" /\ op' = "none"]_vars
  <2> SUFFICES ASSUME OverflowInv, Next, over, Reading, rx # <<>>, IsCR(Head(rx)), rx' = Tail(rx)
               PROVE  ret'.res = "BUFFER_TOO_SMALL" /\ op' = "none"
    BY DEF vars, callVars
  <2>1. rx \in Seq(Byte) /\ Len(rx') = Len(rx) - 1 /\ Len(rx) \in Nat /\ buf # <<>>
    BY HeadTailProperties, LenProperties DEF OverflowInv, TypeOK, LinkTypeOK
  <2>2. rx' # rx
    <3> SUFFICES ASSUME rx' = rx PROVE FALSE
      OBVIOUS
    <3>1. Len(rx) = Len(rx) - 1
      BY <2>1
    <3> QED
      BY <2>1, <3>1
  <2>3. ~Arrive
    <3> SUFFICES ASSUME Arrive PROVE FALSE
      OBVIOUS
    <3>1. rx' = Append(rx, Head(air)) /\ Head(air) \in Byte
      BY HeadTailProperties DEF Arrive, OverflowInv, TypeOK, LinkTypeOK
    <3>2. Len(rx') = Len(rx) + 1
      <4>1. Len(Append(rx, Head(air))) = Len(rx) + 1
        BY <2>1, <3>1, AppendProperties
      <4> QED
        BY <3>1, <4>1
    <3> QED
      BY <2>1, <3>2
  <2>4. op # "none"
    BY DEF Reading
  <2>5. EndOfLongLine
    BY <2>1, <2>2, <2>3, <2>4
    DEF Next, DriverStep, Emit, BeginRead, RefuseRead, Send, Discard, StoreByte, DropByte,
        EndOfNothing, EndOfLine, BeginReadOk, TimeOut, ReadFault, linkVars
  <2> QED
    BY <2>5 DEF EndOfLongLine, Fail, Return
<1> QED
  BY <1>1, <1>2, <1>3, PTL DEF Spec, ExhaustionReported

-----------------------------------------------------------------------------
(***************************************************************************)
(* The byte-level reader implements the line-level promise EzoLine that    *)
(* programs build on.                                                      *)
(*                                                                         *)
(* Streams of bytes as rows of lines: the numbers of the lines grow, bytes *)
(* with one number are of one line, from left to right, and no number is   *)
(* missing up to the n-th.                                                 *)
(***************************************************************************)
RowsUpTo(s, n) ==
  /\ \A j, k \in 1 .. Len(s) : j < k =>
       /\ s[j].line.no <= s[k].line.no
       /\ s[j].line.no = s[k].line.no => s[j].line = s[k].line /\ s[j].i < s[k].i
  /\ \A j \in 1 .. Len(s) : s[j].line.no <= n
  /\ s # <<>> => \A m \in s[1].line.no .. n : \E j \in 1 .. Len(s) : s[j].line.no = m

Rows == RowsUpTo(Pending, emitted)

(* A text that has begun goes on in the line of the next byte, which is    *)
(* not the first of its line, also when the text has overflowed.           *)
ReadsOn ==
  Reading /\ buf # <<>> =>
    Pending # <<>> /\ Pending[1].line = buf[1].line /\ Pending[1].i # 1

LEMMA ByteNo ==
  ASSUME NEW s \in Seq(Byte), NEW j \in 1 .. Len(s)
  PROVE  s[j] \in Byte /\ s[j].line \in Line /\ s[j].line.no \in Nat \ {0} /\ s[j].i \in Nat \ {0}
<1>1. s[j] \in Byte
  BY ElementOfSeq
<1> QED
  BY <1>1, UartAssumption DEF Byte, Line

LEMMA NotEmpty ==
  ASSUME NEW s \in Seq(Byte)
  PROVE  Len(s) \in Nat /\ (s # <<>> <=> Len(s) >= 1) /\ (s # <<>> <=> 1 \in 1 .. Len(s))
  BY LenProperties, EmptySeq

LEMMA RowsSuffix ==
  ASSUME NEW s \in Seq(Byte), NEW t \in Seq(Byte), NEW n \in Nat, NEW d \in Nat,
         RowsUpTo(s, n), Len(t) = Len(s) - d, \A j \in 1 .. Len(t) : t[j] = s[j + d]
  PROVE  RowsUpTo(t, n)
<1>1. Len(s) \in Nat /\ Len(t) \in Nat
  BY LenProperties
<1>2. \A j \in 1 .. Len(t) : j + d \in 1 .. Len(s) /\ t[j] = s[j + d]
  BY <1>1
<1>3. ASSUME NEW j \in 1 .. Len(t), NEW k \in 1 .. Len(t), j < k
      PROVE  /\ t[j].line.no <= t[k].line.no
             /\ t[j].line.no = t[k].line.no => t[j].line = t[k].line /\ t[j].i < t[k].i
  <2>1. j + d \in 1 .. Len(s) /\ k + d \in 1 .. Len(s) /\ j + d < k + d
    BY <1>1, <1>2, <1>3
  <2>2. /\ s[j + d].line.no <= s[k + d].line.no
        /\ s[j + d].line.no = s[k + d].line.no => s[j + d].line = s[k + d].line /\ s[j + d].i < s[k + d].i
    BY <2>1 DEF RowsUpTo
  <2>3. t[j] = s[j + d] /\ t[k] = s[k + d]
    BY <1>2
  <2> QED
    BY <2>2, <2>3
<1>4. \A j \in 1 .. Len(t) : t[j].line.no <= n
  BY <1>2 DEF RowsUpTo
<1>5. ASSUME t # <<>>, NEW m \in t[1].line.no .. n
      PROVE  \E j \in 1 .. Len(t) : t[j].line.no = m
  <2>1. 1 \in 1 .. Len(t) /\ 1 + d \in 1 .. Len(s) /\ t[1] = s[1 + d] /\ s # <<>> /\ 1 \in 1 .. Len(s)
    BY <1>1, <1>2, <1>5, NotEmpty
  <2>2. s[1].line.no <= s[1 + d].line.no
    <3>1. CASE d = 0
      BY <2>1, <3>1, ByteNo
    <3>2. CASE d # 0
      <4>1. 1 < 1 + d
        BY <3>2
      <4> QED
        BY <2>1, <4>1 DEF RowsUpTo
    <3> QED
      BY <3>1, <3>2
  <2>3. m \in Nat /\ m \in s[1].line.no .. n
    <3>1. s[1].line.no \in Nat /\ t[1].line.no \in Nat
      BY <2>1, ByteNo
    <3>2. s[1].line.no <= t[1].line.no
      BY <2>1, <2>2
    <3>3. m \in t[1].line.no .. n
      BY <1>5
    <3> QED
      BY <3>1, <3>2, <3>3
  <2>4. PICK j \in 1 .. Len(s) : s[j].line.no = m
    BY <2>1, <2>3 DEF RowsUpTo
  <2>5. CASE j > d
    <3>1. j - d \in 1 .. Len(t) /\ (j - d) + d = j
      BY <1>1, <2>5
    <3> QED
      BY <2>4, <3>1
  <2>6. CASE j <= d
    <3>1. j < 1 + d
      BY <2>6
    <3>2. s[j].line.no <= t[1].line.no
      BY <2>1, <3>1 DEF RowsUpTo
    <3>3. t[1].line.no = m
      BY <2>1, <2>3, <2>4, <3>2, ByteNo
    <3> QED
      BY <2>1, <3>3
  <2> QED
    BY <2>5, <2>6
<1> QED
  BY <1>3, <1>4, <1>5 DEF RowsUpTo

(* Putting the next line behind rows. *)
LEMMA LineBehind ==
  ASSUME NEW s \in Seq(Byte), NEW l \in Line
  PROVE  /\ Chars(l.kind) \in Nat /\ Len(s) \in Nat
         /\ s \o Bytes(l) \in Seq(Byte) /\ Len(s \o Bytes(l)) = Len(s) + Chars(l.kind) + 1
         /\ \A j \in 1 .. Len(s \o Bytes(l)) :
              (s \o Bytes(l))[j] = IF j <= Len(s) THEN s[j] ELSE [line |-> l, i |-> j - Len(s)]
<1> DEFINE t == Bytes(l)
           c == Chars(l.kind)
<1>1. c \in Nat /\ Len(s) \in Nat
  BY CharsType, LenProperties DEF Line
<1>2. t \in Seq(Byte) /\ Len(t) = c + 1 /\ \A j \in 1 .. c + 1 : t[j] = [line |-> l, i |-> j]
  BY BytesType
<1> HIDE DEF t, c
<1>3. /\ s \o t \in Seq(Byte) /\ Len(s \o t) = Len(s) + Len(t)
      /\ \A j \in 1 .. Len(s) + Len(t) : (s \o t)[j] = IF j <= Len(s) THEN s[j] ELSE t[j - Len(s)]
  BY <1>2, ConcatProperties
<1>4. Len(s \o t) = Len(s) + c + 1
  BY <1>1, <1>2, <1>3
<1>5. ASSUME NEW j \in 1 .. Len(s \o t)
      PROVE  (s \o t)[j] = IF j <= Len(s) THEN s[j] ELSE [line |-> l, i |-> j - Len(s)]
  BY <1>1, <1>2, <1>3, <1>4
<1> QED
  BY <1>1, <1>3, <1>4, <1>5 DEF t, c

LEMMA RowsLine ==
  ASSUME NEW s \in Seq(Byte), NEW n \in Nat, RowsUpTo(s, n), NEW l \in Line, l.no = n + 1
  PROVE  RowsUpTo(s \o Bytes(l), n + 1)
<1> DEFINE u == s \o Bytes(l)
           c == Chars(l.kind)
<1>1. /\ c \in Nat /\ Len(s) \in Nat /\ u \in Seq(Byte) /\ Len(u) = Len(s) + c + 1
      /\ \A j \in 1 .. Len(u) : u[j] = IF j <= Len(s) THEN s[j] ELSE [line |-> l, i |-> j - Len(s)]
  BY LineBehind
<1> HIDE DEF u, c
<1>2. \A j \in 1 .. Len(u) : j <= Len(s) => j \in 1 .. Len(s) /\ u[j] = s[j]
  BY <1>1
<1>3. \A j \in 1 .. Len(u) : j > Len(s) => u[j].line = l /\ u[j].i = j - Len(s)
  BY <1>1
<1>4. \A j \in 1 .. Len(s) : s[j].line.no <= n /\ s[j].line.no \in Nat
  BY ByteNo DEF RowsUpTo
<1>5. ASSUME NEW j \in 1 .. Len(u), NEW k \in 1 .. Len(u), j < k
      PROVE  /\ u[j].line.no <= u[k].line.no
             /\ u[j].line.no = u[k].line.no => u[j].line = u[k].line /\ u[j].i < u[k].i
  <2>1. CASE k <= Len(s)
    <3>1. j <= Len(s)
      BY <1>1, <1>5, <2>1
    <3> QED
      BY <1>2, <1>5, <2>1, <3>1 DEF RowsUpTo
  <2>2. CASE j <= Len(s) /\ k > Len(s)
    <3>1. u[j].line.no <= n /\ u[j].line.no \in Nat /\ u[k].line.no = n + 1
      BY <1>2, <1>3, <1>4, <2>2
    <3> QED
      BY <3>1
  <2>3. CASE j > Len(s) /\ k > Len(s)
    <3>1. u[j].line = l /\ u[k].line = l /\ u[j].i = j - Len(s) /\ u[k].i = k - Len(s)
      BY <1>3, <2>3
    <3>2. j - Len(s) < k - Len(s)
      BY <1>1, <1>5
    <3> QED
      BY <3>1, <3>2
  <2> QED
    BY <1>1, <1>5, <2>1, <2>2, <2>3
<1>6. ASSUME NEW j \in 1 .. Len(u) PROVE u[j].line.no <= n + 1
  <2>1. CASE j <= Len(s)
    BY <1>2, <1>4, <2>1
  <2>2. CASE j > Len(s)
    BY <1>3, <2>2
  <2> QED
    BY <1>1, <2>1, <2>2
<1>7. ASSUME u # <<>>, NEW m \in u[1].line.no .. n + 1
      PROVE  \E j \in 1 .. Len(u) : u[j].line.no = m
  <2>1. CASE m = n + 1
    <3>1. Len(u) \in 1 .. Len(u) /\ Len(u) > Len(s)
      BY <1>1
    <3> QED
      BY <1>3, <2>1, <3>1
  <2>2. CASE m # n + 1
    <3>0. 1 \in 1 .. Len(u)
      BY <1>1
    <3>1. s # <<>>
      <4> SUFFICES ASSUME Len(s) = 0 PROVE FALSE
        OBVIOUS
      <4>1. u[1].line.no = n + 1
        BY <1>3, <3>0
      <4> QED
        BY <2>2, <4>1
    <3>2. 1 \in 1 .. Len(s) /\ u[1] = s[1] /\ s[1].line.no \in Nat
      BY <1>2, <1>4, <3>0, <3>1, NotEmpty
    <3>3. m \in s[1].line.no .. n
      BY <2>2, <3>2
    <3>4. PICK j \in 1 .. Len(s) : s[j].line.no = m
      BY <3>1, <3>3 DEF RowsUpTo
    <3>5. j \in 1 .. Len(u) /\ u[j] = s[j]
      BY <1>1, <1>2
    <3> QED
      BY <3>4, <3>5
  <2> QED
    BY <2>1, <2>2
<1> QED
  BY <1>5, <1>6, <1>7 DEF RowsUpTo, u

-----------------------------------------------------------------------------
(***************************************************************************)
(* The lines of a stream.                                                  *)
(***************************************************************************)
LEMMA NumberedIs ==
  ASSUME NEW s \in Seq(Byte), NEW n \in Nat, RowsUpTo(s, n), NEW k \in 1 .. Len(s)
  PROVE  Numbered(s, s[k].line.no) = s[k].line
<1>1. ASSUME NEW j \in 1 .. Len(s), s[j].line.no = s[k].line.no PROVE s[j].line = s[k].line
  <2>1. Len(s) \in Nat /\ j \in Nat /\ k \in Nat
    BY LenProperties
  <2>2. CASE j < k
    BY <1>1, <2>2 DEF RowsUpTo
  <2>3. CASE k < j
    BY <1>1, <2>3 DEF RowsUpTo
  <2>4. CASE j = k
    BY <2>4
  <2> QED
    BY <2>1, <2>2, <2>3, <2>4
<1> DEFINE S == {s[j].line : j \in 1 .. Len(s)}
<1>2. s[k].line \in S /\ \A l \in S : l.no = s[k].line.no => l = s[k].line
  BY <1>1
<1> HIDE DEF S
<1>3. (CHOOSE l \in S : l.no = s[k].line.no) = s[k].line
  BY <1>2
<1> QED
  BY <1>3 DEF Numbered, S

LEMMA FirstNoType ==
  ASSUME NEW s \in Seq(Byte), NEW n \in Nat, RowsUpTo(s, n)
  PROVE  /\ FirstNo(s, n) \in 1 .. n + 1
         /\ s = <<>> <=> FirstNo(s, n) = n + 1
         /\ n + 1 - FirstNo(s, n) \in Nat
<1>1. CASE s = <<>>
  BY <1>1 DEF FirstNo
<1>2. CASE s # <<>>
  <2>1. 1 \in 1 .. Len(s) /\ s[1].line.no \in Nat \ {0} /\ s[1].line.no <= n
    BY <1>2, NotEmpty, ByteNo DEF RowsUpTo
  <2> QED
    BY <1>2, <2>1 DEF FirstNo
<1> QED
  BY <1>1, <1>2

(* Each number from the first to the n-th is that of a byte. *)
LEMMA NumberPresent ==
  ASSUME NEW s \in Seq(Byte), NEW n \in Nat, RowsUpTo(s, n), NEW m \in FirstNo(s, n) .. n
  PROVE  \E k \in 1 .. Len(s) : s[k].line.no = m
<1>1. FirstNo(s, n) \in 1 .. n + 1 /\ (s = <<>> <=> FirstNo(s, n) = n + 1)
  BY FirstNoType
<1>2. s # <<>>
  BY <1>1
<1> QED
  BY <1>2 DEF FirstNo, RowsUpTo

LEMMA LinesType ==
  ASSUME NEW s \in Seq(Byte), NEW n \in Nat, RowsUpTo(s, n)
  PROVE  /\ LinesOf(s, n) \in Seq(Line)
         /\ Len(LinesOf(s, n)) = n + 1 - FirstNo(s, n)
         /\ \A j \in 1 .. n + 1 - FirstNo(s, n) : LinesOf(s, n)[j] = Numbered(s, FirstNo(s, n) + j - 1)
<1> DEFINE f == FirstNo(s, n)
           c == n + 1 - f
<1>1. f \in 1 .. n + 1 /\ c \in Nat
  BY FirstNoType
<1>2. ASSUME NEW j \in 1 .. c PROVE Numbered(s, f + j - 1) \in Line
  <2>1. f + j - 1 \in f .. n
    BY <1>1
  <2>2. PICK k \in 1 .. Len(s) : s[k].line.no = f + j - 1
    BY <2>1, NumberPresent
  <2> QED
    BY <2>2, NumberedIs, ByteNo
<1>3. LinesOf(s, n) = [j \in 1 .. c |-> Numbered(s, f + j - 1)]
  BY DEF LinesOf
<1> HIDE DEF c, f
<1>4. [j \in 1 .. c |-> Numbered(s, f + j - 1)] \in Seq(Line)
      /\ Len([j \in 1 .. c |-> Numbered(s, f + j - 1)]) = c
  BY <1>1, <1>2
<1> QED
  BY <1>3, <1>4 DEF c, f

LEMMA NoLines ==
  ASSUME NEW s \in Seq(Byte), NEW n \in Nat, RowsUpTo(s, n)
  PROVE  s = <<>> <=> LinesOf(s, n) = <<>>
<1>1. /\ FirstNo(s, n) \in 1 .. n + 1 /\ (s = <<>> <=> FirstNo(s, n) = n + 1)
      /\ LinesOf(s, n) \in Seq(Line) /\ Len(LinesOf(s, n)) = n + 1 - FirstNo(s, n)
  BY FirstNoType, LinesType
<1>2. LinesOf(s, n) = <<>> <=> Len(LinesOf(s, n)) = 0
  BY <1>1, EmptySeq
<1> QED
  BY <1>1, <1>2

LEMMA LinesSuffix ==
  ASSUME NEW s \in Seq(Byte), NEW t \in Seq(Byte), NEW n \in Nat, NEW d \in Nat,
         RowsUpTo(s, n), Len(t) = Len(s) - d, \A j \in 1 .. Len(t) : t[j] = s[j + d]
  PROVE  /\ RowsUpTo(t, n)
         /\ FirstNo(t, n) - FirstNo(s, n) \in 0 .. Len(LinesOf(s, n))
         /\ LinesOf(t, n) =
              SubSeq(LinesOf(s, n), FirstNo(t, n) - FirstNo(s, n) + 1, Len(LinesOf(s, n)))
<1> DEFINE a == FirstNo(s, n)
           b == FirstNo(t, n)
           L == LinesOf(s, n)
           M == LinesOf(t, n)
<1>1. RowsUpTo(t, n)
  BY RowsSuffix
<1>2. /\ a \in 1 .. n + 1 /\ b \in 1 .. n + 1
      /\ L \in Seq(Line) /\ Len(L) = n + 1 - a /\ \A j \in 1 .. n + 1 - a : L[j] = Numbered(s, a + j - 1)
      /\ M \in Seq(Line) /\ Len(M) = n + 1 - b /\ \A j \in 1 .. n + 1 - b : M[j] = Numbered(t, b + j - 1)
  BY <1>1, FirstNoType, LinesType
<1>3. /\ Len(s) \in Nat /\ Len(t) \in Nat
      /\ \A j \in 1 .. Len(t) : j + d \in 1 .. Len(s) /\ t[j] = s[j + d]
  BY LenProperties
<1>4. a <= b
  <2>1. CASE t = <<>>
    BY <1>2, <2>1 DEF FirstNo
  <2>2. CASE t # <<>>
    <3>1. 1 \in 1 .. Len(t) /\ 1 + d \in 1 .. Len(s) /\ t[1] = s[1 + d] /\ 1 \in 1 .. Len(s) /\ s # <<>>
      BY <1>3, <2>2, NotEmpty
    <3>2. s[1].line.no <= s[1 + d].line.no
      <4>1. CASE d = 0
        BY <3>1, <4>1, ByteNo
      <4>2. CASE d # 0
        <5>1. 1 < 1 + d
          BY <4>2
        <5> QED
          BY <3>1, <5>1 DEF RowsUpTo
      <4> QED
        BY <4>1, <4>2
    <3> QED
      BY <2>2, <3>1, <3>2 DEF FirstNo
  <2> QED
    BY <2>1, <2>2
<1>5. ASSUME NEW m \in b .. n PROVE Numbered(t, m) = Numbered(s, m)
  <2>1. PICK k \in 1 .. Len(t) : t[k].line.no = m
    BY <1>1, NumberPresent
  <2>2. k + d \in 1 .. Len(s) /\ t[k] = s[k + d]
    BY <1>3
  <2>3. Numbered(t, t[k].line.no) = t[k].line
    BY <1>1, NumberedIs
  <2>4. Numbered(s, s[k + d].line.no) = s[k + d].line
    BY <2>2, NumberedIs
  <2> QED
    BY <2>1, <2>2, <2>3, <2>4
<1> HIDE DEF a, b, L, M
<1>6. b - a \in 0 .. Len(L)
  BY <1>2, <1>4
<1> DEFINE Z == SubSeq(L, b - a + 1, Len(L))
<1>7. /\ Z \in Seq(Line) /\ Len(Z) = Len(L) - (b - a)
      /\ \A j \in 1 .. Len(Z) : Z[j] = L[j + (b - a)]
  <2>1. b - a + 1 \in Int /\ Len(L) \in Int /\ \A i \in b - a + 1 .. Len(L) : L[i] \in Line
    BY <1>2, <1>6, ElementOfSeq
  <2>2. /\ Z \in Seq(Line)
        /\ Len(Z) = IF b - a + 1 <= Len(L) THEN Len(L) - (b - a + 1) + 1 ELSE 0
        /\ \A i \in 1 .. Len(L) - (b - a + 1) + 1 : Z[i] = L[b - a + 1 + i - 1]
    BY <2>1, SubSeqProperties
  <2>3. Len(Z) = Len(L) - (b - a)
    BY <1>2, <1>6, <2>2
  <2> QED
    BY <1>2, <1>6, <2>2, <2>3
<1> HIDE DEF Z
<1>8. Len(M) = Len(Z)
  BY <1>2, <1>4, <1>7
<1>9. ASSUME NEW j \in 1 .. Len(M) PROVE M[j] = Z[j]
  <2>1. /\ j \in 1 .. n + 1 - b /\ b + j - 1 \in b .. n
        /\ j + (b - a) \in 1 .. n + 1 - a /\ a + (j + (b - a)) - 1 = b + j - 1
    BY <1>2, <1>4
  <2>2. M[j] = Numbered(t, b + j - 1)
    BY <1>2, <2>1
  <2>3. L[j + (b - a)] = Numbered(s, a + (j + (b - a)) - 1)
    BY <1>2, <2>1
  <2>4. Z[j] = L[j + (b - a)]
    BY <1>7, <1>8
  <2> QED
    BY <1>5, <2>1, <2>2, <2>3, <2>4
<1>10. M = Z
  BY <1>2, <1>7, <1>8, <1>9, SeqEqual
<1> QED
  BY <1>1, <1>6, <1>10 DEF a, b, L, M, Z

LEMMA LinesLine ==
  ASSUME NEW s \in Seq(Byte), NEW n \in Nat, RowsUpTo(s, n), NEW l \in Line, l.no = n + 1
  PROVE  LinesOf(s \o Bytes(l), n + 1) = Append(LinesOf(s, n), l)
<1> DEFINE u == s \o Bytes(l)
           a == FirstNo(s, n)
           L == LinesOf(s, n)
           M == LinesOf(u, n + 1)
<1>1. u \in Seq(Byte) /\ RowsUpTo(u, n + 1) /\ n + 1 \in Nat
  BY RowsLine, LineBehind
<1>2. /\ Len(s) \in Nat /\ Len(u) \in Nat /\ Len(u) > Len(s)
      /\ \A j \in 1 .. Len(s) : j \in 1 .. Len(u) /\ u[j] = s[j]
      /\ u[Len(s) + 1].line = l /\ Len(s) + 1 \in 1 .. Len(u)
  <2>1. /\ Chars(l.kind) \in Nat /\ Len(s) \in Nat /\ Len(u) = Len(s) + Chars(l.kind) + 1
        /\ \A j \in 1 .. Len(u) : u[j] = IF j <= Len(s) THEN s[j] ELSE [line |-> l, i |-> j - Len(s)]
    BY LineBehind
  <2> HIDE DEF u
  <2>2. Len(s) + 1 \in 1 .. Len(u) /\ Len(u) \in Nat /\ Len(u) > Len(s)
    BY <2>1
  <2> QED
    BY <2>1, <2>2
<1> HIDE DEF u
<1>3. FirstNo(u, n + 1) = a
  <2>1. u # <<>>
    BY <1>1, <1>2, NotEmpty
  <2>2. CASE s = <<>>
    <3>1. Len(s) = 0
      BY <2>2
    <3>2. u[1].line = l
      BY <1>2, <3>1
    <3> QED
      BY <2>1, <2>2, <3>2 DEF FirstNo
  <2>3. CASE s # <<>>
    <3>1. u[1] = s[1]
      BY <1>2, <2>3, NotEmpty
    <3> QED
      BY <2>1, <2>3, <3>1 DEF FirstNo
  <2> QED
    BY <2>2, <2>3
<1>4. /\ a \in 1 .. n + 1
      /\ L \in Seq(Line) /\ Len(L) = n + 1 - a /\ \A j \in 1 .. n + 1 - a : L[j] = Numbered(s, a + j - 1)
  BY FirstNoType, LinesType
<1>5. /\ M \in Seq(Line) /\ Len(M) = (n + 1) + 1 - a
      /\ \A j \in 1 .. (n + 1) + 1 - a : M[j] = Numbered(u, a + j - 1)
  BY <1>1, <1>3, LinesType
<1>6. ASSUME NEW m \in a .. n PROVE Numbered(u, m) = Numbered(s, m)
  <2>1. PICK k \in 1 .. Len(s) : s[k].line.no = m
    BY NumberPresent
  <2>2. k \in 1 .. Len(u) /\ u[k] = s[k]
    BY <1>2
  <2>3. Numbered(s, s[k].line.no) = s[k].line
    BY NumberedIs
  <2>4. Numbered(u, u[k].line.no) = u[k].line
    BY <1>1, <2>2, NumberedIs
  <2> QED
    BY <2>1, <2>2, <2>3, <2>4
<1>7. Numbered(u, n + 1) = l
  <2>1. Numbered(u, u[Len(s) + 1].line.no) = u[Len(s) + 1].line
    BY <1>1, <1>2, NumberedIs
  <2> QED
    BY <1>2, <2>1
<1> HIDE DEF a, L, M
<1>8. /\ Append(L, l) \in Seq(Line) /\ Len(Append(L, l)) = Len(L) + 1
      /\ \A j \in 1 .. Len(L) : Append(L, l)[j] = L[j]
      /\ Append(L, l)[Len(L) + 1] = l
  BY <1>4, AppendProperties
<1>9. ASSUME NEW j \in 1 .. Len(M) PROVE M[j] = Append(L, l)[j]
  <2>1. CASE j <= Len(L)
    <3>1. j \in 1 .. n + 1 - a /\ a + j - 1 \in a .. n /\ j \in 1 .. (n + 1) + 1 - a /\ j \in 1 .. Len(L)
      BY <1>4, <1>5, <2>1
    <3>2. M[j] = Numbered(u, a + j - 1) /\ L[j] = Numbered(s, a + j - 1)
      BY <1>4, <1>5, <3>1
    <3>3. Append(L, l)[j] = L[j]
      BY <1>8, <3>1
    <3> QED
      BY <1>6, <3>1, <3>2, <3>3
  <2>2. CASE j > Len(L)
    <3>1. j = Len(L) + 1 /\ a + j - 1 = n + 1 /\ j \in 1 .. (n + 1) + 1 - a
      BY <1>4, <1>5, <2>2
    <3>2. M[j] = Numbered(u, a + j - 1)
      BY <1>5, <3>1
    <3> QED
      BY <1>7, <1>8, <3>1, <3>2
  <2> QED
    BY <1>4, <1>5, <2>1, <2>2
<1>10. Len(M) = Len(Append(L, l))
  BY <1>4, <1>5, <1>8
<1>11. M = Append(L, l)
  BY <1>5, <1>8, <1>9, <1>10, SeqEqual
<1> QED
  BY <1>11 DEF L, M, u

-----------------------------------------------------------------------------
(***************************************************************************)
(* What each step does to the pending lines.                               *)
(***************************************************************************)
LEMMA EmitLines ==
  ASSUME LinkTypeOK, Rows, NEW k \in Emittable, NEW e \in EndingsOf(k), Emit(k, e)
  PROVE  Rows' /\ \E l \in Line : PendingLines' = Append(PendingLines, l)
<1> DEFINE l == [no |-> emitted + 1, kind |-> k, ending |-> e]
<1>1. l \in Line /\ l.no = emitted + 1
  BY UartAssumption DEF Emit, LinkTypeOK, Line, LineKinds, EndingsOf
<1> HIDE DEF l
<1>2. Pending' = Pending \o Bytes(l)
  <2>1. rx \in Seq(Byte) /\ air \in Seq(Byte) /\ Bytes(l) \in Seq(Byte)
    BY <1>1, BytesType DEF LinkTypeOK
  <2>2. rx \o (air \o Bytes(l)) = (rx \o air) \o Bytes(l)
    BY <2>1, ConcatAssociative
  <2> QED
    BY <2>2 DEF Emit, Pending, l
<1>3. emitted' = emitted + 1 /\ Pending \in Seq(Byte) /\ emitted \in Nat
  BY PendingType DEF Emit
<1>4. RowsUpTo(Pending \o Bytes(l), emitted + 1)
  BY <1>1, <1>3, RowsLine DEF Rows
<1>5. LinesOf(Pending \o Bytes(l), emitted + 1) = Append(LinesOf(Pending, emitted), l)
  BY <1>1, <1>3, LinesLine DEF Rows
<1> QED
  BY <1>1, <1>2, <1>3, <1>4, <1>5 DEF Rows, PendingLines

LEMMA SomeLines ==
  ASSUME LinkTypeOK, Rows
  PROVE  /\ PendingLines \in Seq(Line)
         /\ Pending = <<>> <=> PendingLines = <<>>
         /\ Pending # <<>> => PendingLines[1] = Pending[1].line
<1>1. Pending \in Seq(Byte) /\ emitted \in Nat /\ RowsUpTo(Pending, emitted)
  BY PendingType DEF Rows
<1> DEFINE a == FirstNo(Pending, emitted)
<1>2. /\ a \in 1 .. emitted + 1 /\ (Pending = <<>> <=> a = emitted + 1)
      /\ PendingLines \in Seq(Line) /\ Len(PendingLines) = emitted + 1 - a
      /\ \A j \in 1 .. emitted + 1 - a : PendingLines[j] = Numbered(Pending, a + j - 1)
  BY <1>1, FirstNoType, LinesType DEF PendingLines
<1>3. ASSUME Pending # <<>> PROVE PendingLines[1] = Pending[1].line
  <2>1. a = Pending[1].line.no /\ 1 \in 1 .. Len(Pending)
    BY <1>1, <1>3, NotEmpty DEF FirstNo
  <2> HIDE DEF a
  <2>2. 1 \in 1 .. emitted + 1 - a /\ a + 1 - 1 = a
    BY <1>1, <1>2, <1>3
  <2>3. PendingLines[1] = Numbered(Pending, a)
    BY <1>2, <2>2
  <2> QED
    BY <1>1, <2>1, <2>3, NumberedIs
<1> HIDE DEF a
<1>4. Pending = <<>> <=> PendingLines = <<>>
  BY <1>1, NoLines DEF PendingLines
<1> QED
  BY <1>2, <1>3, <1>4

(* The carriage return takes its line along, another byte does not. *)
LEMMA TakeLines ==
  ASSUME LinkTypeOK, WireFramed, Rows, TakeByte
  PROVE  /\ Rows'
         /\ PendingLines # <<>> /\ Head(PendingLines) = Pending[1].line
         /\ PendingLines' = IF IsCR(Pending[1]) THEN Tail(PendingLines) ELSE PendingLines
<1>1. rx \in Seq(Byte) /\ air \in Seq(Byte) /\ rx # <<>> /\ Pending' = Tail(rx) \o air
  BY DEF LinkTypeOK, TakeByte, Pending
<1>2. /\ Pending' \in Seq(Byte) /\ Len(Pending') = Len(Pending) - 1
      /\ \A j \in 1 .. Len(Pending') : Pending'[j] = Pending[j + 1]
  BY <1>1, ConcatTail DEF Pending
<1>3. Pending \in Seq(Byte) /\ emitted \in Nat /\ emitted' = emitted /\ RowsUpTo(Pending, emitted)
  BY PendingType DEF Rows, TakeByte
<1>4. /\ RowsUpTo(Pending', emitted)
      /\ PendingLines' = SubSeq(PendingLines, FirstNo(Pending', emitted) - FirstNo(Pending, emitted) + 1,
                                Len(PendingLines))
  BY <1>2, <1>3, LinesSuffix DEF PendingLines
<1>5. /\ Pending # <<>>
      /\ Pending' # <<>> => Follows(Pending[1], Pending'[1])
      /\ Pending' = <<>> => IsCR(Pending[1]) /\ Pending[1].line.no = emitted
  BY WireTake
<1>6. Pending[1].line.no \in Nat
  BY <1>3, <1>5, NotEmpty, ByteNo
<1>7. FirstNo(Pending', emitted) - FirstNo(Pending, emitted) = IF IsCR(Pending[1]) THEN 1 ELSE 0
  <2>1. CASE Pending' = <<>>
    BY <1>3, <1>5, <1>6, <2>1 DEF FirstNo
  <2>2. CASE Pending' # <<>>
    BY <1>5, <1>6, <2>2 DEF FirstNo, Follows
  <2> QED
    BY <2>1, <2>2
<1>8. PendingLines \in Seq(Line) /\ PendingLines # <<>> /\ PendingLines[1] = Pending[1].line
  BY <1>5, SomeLines
<1>9. Rows'
  BY <1>3, <1>4 DEF Rows
<1>10. Head(PendingLines) = Pending[1].line /\ PendingLines # <<>>
  BY <1>8
<1>11. CASE IsCR(Pending[1])
  <2>1. PendingLines' = SubSeq(PendingLines, 2, Len(PendingLines))
    BY <1>4, <1>7, <1>11
  <2>2. Tail(PendingLines) = SubSeq(PendingLines, 2, Len(PendingLines))
    BY <1>8, TailIsSubSeq
  <2> QED
    BY <1>11, <1>9, <1>10, <2>1, <2>2
<1>12. CASE ~IsCR(Pending[1])
  <2>1. PendingLines' = SubSeq(PendingLines, 1, Len(PendingLines))
    BY <1>4, <1>7, <1>12
  <2>2. SubSeq(PendingLines, 1, Len(PendingLines)) = PendingLines
    BY <1>8, SubSeqFull
  <2> QED
    BY <1>12, <1>9, <1>10, <2>1, <2>2
<1> QED
  BY <1>11, <1>12

LEMMA DiscardLines ==
  ASSUME LinkTypeOK, Rows, Discard, rx' = <<>>
  PROVE  /\ Rows'
         /\ \E n \in 0 .. Len(PendingLines) :
              /\ PendingLines' = SubSeq(PendingLines, n + 1, Len(PendingLines))
              /\ (n = 0 /\ Pending' # <<>> /\ Pending'[1].i = 1) => Pending[1].i = 1
<1>1. rx \in Seq(Byte) /\ air \in Seq(Byte) /\ Len(rx) \in Nat /\ Len(air) \in Nat
  BY LenProperties DEF LinkTypeOK
<1>2. Pending' = air /\ emitted' = emitted
  BY <1>1, ConcatEmptySeq DEF Discard, Pending
<1>3. Pending \in Seq(Byte) /\ emitted \in Nat /\ RowsUpTo(Pending, emitted)
  BY PendingType DEF Rows
<1>4. /\ Len(Pending) = Len(rx) + Len(air)
      /\ \A j \in 1 .. Len(rx) + Len(air) : Pending[j] = IF j <= Len(rx) THEN rx[j] ELSE air[j - Len(rx)]
  BY <1>1, ConcatProperties DEF Pending
<1>5. Len(air) = Len(Pending) - Len(rx) /\ \A j \in 1 .. Len(air) : air[j] = Pending[j + Len(rx)]
  BY <1>1, <1>4
<1> DEFINE n == FirstNo(air, emitted) - FirstNo(Pending, emitted)
<1>6. /\ RowsUpTo(air, emitted) /\ n \in 0 .. Len(PendingLines)
      /\ LinesOf(air, emitted) = SubSeq(PendingLines, n + 1, Len(PendingLines))
  BY <1>1, <1>3, <1>5, LinesSuffix DEF PendingLines
<1>7. ASSUME n = 0, air # <<>>, air[1].i = 1 PROVE Pending[1].i = 1
  <2>1. 1 \in 1 .. Len(air) /\ air[1] = Pending[1 + Len(rx)] /\ 1 + Len(rx) \in 1 .. Len(Pending)
        /\ 1 \in 1 .. Len(Pending) /\ Pending # <<>>
    BY <1>1, <1>3, <1>4, <1>5, <1>7, NotEmpty
  <2>2. air[1].line.no = Pending[1].line.no
    <3>1. air[1].line.no \in Nat /\ Pending[1].line.no \in Nat
      BY <1>1, <1>3, <2>1, ByteNo
    <3> QED
      BY <1>7, <2>1, <3>1 DEF FirstNo
  <2>3. CASE Len(rx) = 0
    BY <1>7, <2>1, <2>3
  <2>4. CASE Len(rx) # 0
    <3>1. 1 < 1 + Len(rx)
      BY <1>1, <2>4
    <3>2. Pending[1].line.no = Pending[1 + Len(rx)].line.no => Pending[1].i < Pending[1 + Len(rx)].i
      BY <1>3, <2>1, <3>1 DEF RowsUpTo
    <3>3. Pending[1].i < 1 /\ Pending[1].i \in Nat \ {0}
      BY <1>3, <1>7, <2>1, <2>2, <3>2, ByteNo
    <3> QED
      BY <3>3
  <2> QED
    BY <2>3, <2>4
<1>8. PendingLines' = LinesOf(air, emitted)
  BY <1>2 DEF PendingLines
<1> HIDE DEF n
<1> QED
  BY <1>2, <1>6, <1>7, <1>8 DEF Rows

LEMMA SameLines ==
  ASSUME LinkTypeOK, UNCHANGED linkVars \/ Arrive
  PROVE  Pending' = Pending /\ PendingLines' = PendingLines /\ (Rows => Rows')
<1>1. Pending' = Pending /\ emitted' = emitted
  BY WireSame, WireArrive
<1> QED
  BY <1>1 DEF PendingLines, Rows

-----------------------------------------------------------------------------
(***************************************************************************)
(* The invariant of the refinement.                                        *)
(***************************************************************************)
LEMMA RowsStep ==
  ASSUME LinkTypeOK, WireFramed, Rows, [Next]_vars
  PROVE  Rows'
<1>1. CASE UNCHANGED linkVars \/ Arrive
  BY <1>1, SameLines
<1>2. CASE TakeByte
  BY <1>2, TakeLines
<1>3. CASE Discard
  <2>1. CASE rx' = <<>>
    BY <1>3, <2>1, DiscardLines
  <2>2. CASE UNCHANGED linkVars
    BY <2>2, SameLines
  <2> QED
    BY <1>3, <2>1, <2>2 DEF Discard, linkVars
<1>4. ASSUME NEW k \in Emittable, NEW e \in EndingsOf(k), Emit(k, e) PROVE Rows'
  BY <1>4, EmitLines
<1> QED
  BY <1>1, <1>2, <1>3, <1>4
  DEF Next, DriverStep, BeginRead, RefuseRead, Send, StoreByte, DropByte,
      EndOfNothing, EndOfLongLine, EndOfLine, BeginReadOk, TimeOut, ReadFault, vars

(* The text after a byte was stored, and the byte that comes next.         *)
LEMMA StoredByte ==
  ASSUME TypeOK, WireFramed, ReadFramed, StoreByte
  PROVE  /\ buf' # <<>> /\ buf'[1] = IF buf = <<>> THEN Pending[1] ELSE buf[1]
         /\ Pending' # <<>> /\ Pending'[1].line = Pending[1].line /\ Pending'[1].i # 1
<1>1. /\ Head(rx) \in Byte /\ ~IsCR(Head(rx)) /\ Head(rx) = Pending[1] /\ Pending # <<>>
      /\ Pending' # <<>> /\ Follows(Pending[1], Pending'[1])
  BY WireTake DEF StoreByte, TypeOK
<1>2. /\ buf \in Seq(Byte) /\ IsRun(buf) /\ (buf # <<>> => Follows(buf[Len(buf)], Pending[1]))
      /\ buf' = Append(buf, Head(rx))
  BY DEF StoreByte, TakeByte, TypeOK, CallTypeOK, ReadFramed
<1>3. buf' # <<>> /\ buf'[1] = IF buf = <<>> THEN Head(rx) ELSE buf[1]
  BY <1>1, <1>2, AppendRun
<1>4. Pending'[1] = [line |-> Pending[1].line, i |-> Pending[1].i + 1]
  BY <1>1 DEF Follows
<1>5. Pending[1].i \in Nat \ {0}
  BY <1>1 DEF Byte
<1> QED
  BY <1>1, <1>3, <1>4, <1>5

LEMMA ReadsOnStep ==
  ASSUME TypeOK, WireFramed, ReadFramed, ReadsOn, [Next]_vars
  PROVE  ReadsOn'
<1> USE DEF TypeOK
<1>1. CASE ~Reading' \/ buf' = <<>>
  BY <1>1 DEF ReadsOn
<1>2. CASE UNCHANGED vars
  BY <1>2, WireSame DEF vars, callVars, ReadsOn, Reading
<1>3. ASSUME NEW k \in Emittable, NEW e \in EndingsOf(k), Emit(k, e) PROVE ReadsOn'
  BY <1>3, WireEmit DEF Emit, callVars, ReadsOn, Reading
<1>4. CASE Arrive
  BY <1>4, WireArrive DEF Arrive, callVars, ReadsOn, Reading
<1>5. CASE StoreByte
  <2>1. Reading /\ (buf # <<>> => Pending[1].line = buf[1].line)
    BY <1>5 DEF StoreByte, TakeByte, ReadsOn
  <2> QED
    BY <1>5, <2>1, StoredByte DEF ReadsOn
<1>6. CASE DropByte
  <2>1. /\ Pending[1] \in Byte /\ ~IsCR(Pending[1]) /\ Reading /\ buf' = buf
        /\ Pending' # <<>> /\ Follows(Pending[1], Pending'[1])
    BY <1>6, WireTake DEF DropByte, TakeByte
  <2>2. Pending'[1] = [line |-> Pending[1].line, i |-> Pending[1].i + 1]
    BY <2>1 DEF Follows
  <2>3. Pending[1].i \in Nat \ {0}
    BY <2>1 DEF Byte
  <2>4. Pending'[1].i # 1 /\ Pending'[1].line = Pending[1].line
    BY <2>2, <2>3
  <2> QED
    BY <2>1, <2>4 DEF ReadsOn
<1>7. CASE EndOfLine
  BY <1>1, <1>7 DEF EndOfLine, Return, Reading
<1>8. ASSUME NEW o \in ReadOps, NEW c \in CapsOf(o), BeginRead(o, c) PROVE ReadsOn'
  BY <1>1, <1>8 DEF BeginRead, EnterReadLine
<1>9. CASE BeginReadOk
  BY <1>1, <1>9 DEF BeginReadOk, EnterReadLine
<1>10. ASSUME op = "none", UNCHANGED op PROVE ReadsOn'
  BY <1>1, <1>10 DEF Reading
<1>11. CASE Send \/ Discard
  BY <1>10, <1>11 DEF Send, Discard, callVars
<1>12. ASSUME NEW o \in ReadOps, NEW c \in CapsOf(o), RefuseRead(o, c) PROVE ReadsOn'
  BY <1>10, <1>12 DEF RefuseRead, callVars
<1> QED
  BY <1>1, <1>2, <1>3, <1>4, <1>5, <1>6, <1>7, <1>8, <1>9, <1>11, <1>12
  DEF Next, DriverStep, EndOfNothing, EndOfLongLine, TimeOut, ReadFault, Fail, Return, Reading

RefinementInv == UartInv /\ Rows /\ ReadsOn

LEMMA RefinementInvInit == Init => RefinementInv
<1> SUFFICES ASSUME Init PROVE RefinementInv
  OBVIOUS
<1>1. Pending = <<>> /\ Len(Pending) = 0
  BY ConcatEmptySeq DEF Init, Pending
<1>2. Rows
  BY <1>1 DEF Rows, RowsUpTo
<1>3. ReadsOn
  BY DEF Init, ReadsOn, Reading
<1> QED
  BY <1>2, <1>3, InvInit DEF RefinementInv

LEMMA RefinementInvStep == RefinementInv /\ [Next]_vars => RefinementInv'
<1> SUFFICES ASSUME RefinementInv, [Next]_vars PROVE RefinementInv'
  OBVIOUS
<1>1. UartInv /\ Rows /\ ReadsOn /\ TypeOK /\ LinkTypeOK /\ WireFramed /\ ReadFramed
  BY DEF RefinementInv, UartInv, TypeOK, Framing
<1> QED
  BY <1>1, InvStep, RowsStep, ReadsOnStep DEF RefinementInv

-----------------------------------------------------------------------------
(***************************************************************************)
(* Every step of the reader is a step of the promise, or none.             *)
(***************************************************************************)
LEMMA Known ==
  ASSUME RefinementInv
  PROVE  /\ TypeOK /\ CallTypeOK /\ LinkTypeOK /\ WireFramed /\ ReadFramed /\ Rows /\ ReadsOn
         /\ HeadTorn \in BOOLEAN /\ (op = "none" => ~Reading)
  BY DEF RefinementInv, UartInv, Framing, TypeOK, CallTypeOK, HeadTorn, Reading

LEMMA PromiseInit == Init => Promise!LineInit
<1> SUFFICES ASSUME Init PROVE Promise!LineInit
  OBVIOUS
<1>1. Pending = <<>> /\ emitted = 0
  BY ConcatEmptySeq DEF Init, Pending
<1>2. PendingLines = <<>>
  <2>1. PendingLines \in Seq(Line) /\ (Pending = <<>> <=> PendingLines = <<>>)
    BY RefinementInvInit, Known, SomeLines
  <2> QED
    BY <1>1, <2>1
<1>3. HeadTorn = FALSE
  BY <1>1 DEF HeadTorn, Unread, Init, Reading
<1>4. lastKind = "UNKNOWN" /\ TextRead = [whole |-> FALSE, line |-> <<>>]
  BY DEF Init, TextRead
<1> QED
  BY <1>2, <1>3, <1>4 DEF Promise!LineInit, Promise!NoText

(* A step that forgets the last kind and leaves the lines alone begins a   *)
(* read or breaks one off.                                                 *)
LEMMA Breaking ==
  ASSUME lastKind' = "UNKNOWN", PendingLines' = PendingLines, HeadTorn' \in {HeadTorn, PendingLines # <<>>}
  PROVE  Promise!LineNext
<1>1. TextRead' = [whole |-> FALSE, line |-> <<>>]
  BY DEF TextRead
<1> QED
  BY <1>1 DEF Promise!LineNext, Promise!Break, Promise!Forget, Promise!NoText

LEMMA StoreStep ==
  ASSUME RefinementInv, StoreByte
  PROVE  UNCHANGED Promise!lineVars
<1>1. TypeOK /\ LinkTypeOK /\ WireFramed /\ ReadFramed /\ Rows /\ ReadsOn
  BY Known
<1>2. TakeByte /\ Reading /\ ~IsCR(Head(rx)) /\ UNCHANGED <<lastKind, op, step>>
  BY DEF StoreByte, TakeByte
<1>3. Pending # <<>> /\ Pending[1] = Head(rx)
  BY <1>1, <1>2, WireTake
<1>4. PendingLines' = PendingLines
  BY <1>1, <1>2, <1>3, TakeLines
<1>5. buf' # <<>> /\ buf'[1] = IF buf = <<>> THEN Pending[1] ELSE buf[1]
  BY <1>1, StoredByte
<1>6. Reading'
  BY <1>2 DEF Reading
<1>7. HeadTorn' = HeadTorn
  <2>1. HeadTorn' = (buf'[1].i # 1)
    BY <1>5, <1>6 DEF HeadTorn, Unread
  <2>2. CASE buf = <<>>
    BY <1>3, <1>5, <2>1, <2>2 DEF HeadTorn, Unread
  <2>3. CASE buf # <<>>
    BY <1>2, <1>5, <2>1, <2>3 DEF HeadTorn, Unread
  <2> QED
    BY <2>2, <2>3
<1>8. TextRead' = TextRead
  BY <1>1, <1>2 DEF TextRead, ReadFramed
<1> QED
  BY <1>2, <1>4, <1>7, <1>8 DEF Promise!lineVars

(* A byte dropped before any was stored tears the head line.               *)
LEMMA DropStep ==
  ASSUME RefinementInv, DropByte
  PROVE  Promise!LineNext
<1>1. TypeOK /\ LinkTypeOK /\ WireFramed /\ ReadFramed /\ Rows /\ ReadsOn
  BY Known
<1>2. TakeByte /\ Reading /\ ~IsCR(Head(rx)) /\ UNCHANGED <<lastKind, op, step, buf>>
  BY DEF DropByte, TakeByte
<1>3. /\ Pending # <<>> /\ Pending[1] = Head(rx) /\ Pending[1] \in Byte
      /\ Pending' # <<>> /\ Follows(Pending[1], Pending'[1])
  BY <1>1, <1>2, WireTake
<1>4. PendingLines' = PendingLines /\ PendingLines # <<>>
  BY <1>1, <1>2, <1>3, TakeLines
<1>5. Reading' /\ lastKind' = "UNKNOWN"
  BY <1>1, <1>2 DEF Reading, ReadFramed
<1>6. CASE buf = <<>>
  <2>1. Pending'[1] = [line |-> Pending[1].line, i |-> Pending[1].i + 1] /\ Pending[1].i \in Nat \ {0}
    BY <1>2, <1>3 DEF Follows, Byte
  <2>2. Pending'[1].i # 1
    BY <2>1
  <2>3. HeadTorn' = TRUE
    BY <1>2, <1>3, <1>6, <2>2 DEF HeadTorn, Unread
  <2> QED
    BY <1>4, <1>5, <2>3, Breaking
<1>7. CASE buf # <<>>
  <2>1. HeadTorn' = HeadTorn
    BY <1>2, <1>5, <1>7 DEF HeadTorn, Unread
  <2> QED
    BY <1>4, <1>5, <2>1, Breaking
<1> QED
  BY <1>6, <1>7

(* A carriage return ends the head line: the next one is whole.            *)
LEMMA AfterCR ==
  ASSUME RefinementInv, TakeByte, IsCR(Head(rx)), ~Reading'
  PROVE  /\ PendingLines # <<>> /\ PendingLines' = Tail(PendingLines)
         /\ Head(PendingLines) = Pending[1].line /\ HeadTorn' = FALSE
<1>1. TypeOK /\ LinkTypeOK /\ WireFramed /\ ReadFramed /\ Rows /\ ReadsOn
  BY Known
<1>2. Pending[1] = Head(rx) /\ (Pending' # <<>> => Follows(Pending[1], Pending'[1]))
  BY <1>1, WireTake
<1>3. Pending' # <<>> => Pending'[1].i = 1
  BY <1>2 DEF Follows
<1>4. HeadTorn' = FALSE
  BY <1>3 DEF HeadTorn, Unread
<1> QED
  BY <1>1, <1>2, <1>4, TakeLines

LEMMA RejectStep ==
  ASSUME RefinementInv, EndOfNothing \/ EndOfLongLine
  PROVE  Promise!LineNext
<1>1. TakeByte /\ Reading /\ IsCR(Head(rx)) /\ op' = "none" /\ step' = "first" /\ UNCHANGED lastKind
  BY DEF EndOfNothing, EndOfLongLine, TakeByte, Fail, Return
<1>2. lastKind' = "UNKNOWN"
  BY <1>1, Known DEF ReadFramed
<1>3. PendingLines # <<>> /\ PendingLines' = Tail(PendingLines) /\ HeadTorn' = FALSE
  BY <1>1, AfterCR DEF Reading
<1>4. TextRead' = [whole |-> FALSE, line |-> <<>>]
  BY <1>2 DEF TextRead
<1> QED
  BY <1>2, <1>3, <1>4 DEF Promise!LineNext, Promise!Reject, Promise!Forget, Promise!NoText

LEMMA DeliverStep ==
  ASSUME RefinementInv, EndOfLine
  PROVE  Promise!LineNext
<1>1. TypeOK /\ CallTypeOK /\ LinkTypeOK /\ WireFramed /\ ReadFramed /\ Rows /\ ReadsOn
  BY Known
<1>2. TakeByte /\ Reading /\ IsCR(Head(rx)) /\ buf # <<>> /\ lastKind' = Classify(buf)
  BY DEF EndOfLine, TakeByte
<1>3. ~Reading'
  BY DEF EndOfLine, Return, Reading
<1>4. /\ PendingLines # <<>> /\ PendingLines' = Tail(PendingLines) /\ HeadTorn' = FALSE
      /\ Head(PendingLines) = buf[1].line
  BY <1>1, <1>2, <1>3, AfterCR DEF ReadsOn
<1>5. /\ buf' = buf
      /\ \A k \in ControlKinds : lastKind' = k <=> Spells(buf, k)
      /\ buf[1].i = 1 => buf[1].line.kind = lastKind'
  BY <1>1, EndOfLineText
<1>6. HeadTorn = (buf[1].i # 1)
  BY <1>2 DEF HeadTorn, Unread
<1>7. lastKind' \in ControlKinds \cup {"DATA"} /\ lastKind' # "UNKNOWN"
  <2>1. buf \in Seq(Byte)
    BY <1>1 DEF CallTypeOK
  <2>2. Classify(buf) \in ControlKinds \cup {"DATA"}
    BY <1>2, <2>1, ClassifyType
  <2> QED
    BY <1>2, <2>2 DEF ControlKinds
<1>8. lastKind' \in Promise!Seen(Head(PendingLines), HeadTorn)
  <2>1. CASE buf[1].i = 1
    BY <1>4, <1>5, <1>6, <2>1 DEF Promise!Seen
  <2>2. CASE buf[1].i # 1
    <3>1. lastKind' = "DATA" \/ lastKind' = buf[1].line.ending
      BY <1>5, <1>7, <2>2 DEF Spells
    <3> QED
      BY <1>4, <1>6, <2>2, <3>1 DEF Promise!Seen
  <2> QED
    BY <2>1, <2>2
<1>9. TextRead' = [whole |-> ~HeadTorn, line |-> Head(PendingLines)]
  <2>1. TextRead' = [whole |-> buf[1].i = 1, line |-> buf[1].line]
    BY <1>5, <1>7 DEF TextRead
  <2>2. (buf[1].i = 1) = ~HeadTorn
    BY <1>6
  <2> QED
    BY <1>4, <2>1, <2>2
<1> QED
  BY <1>4, <1>8, <1>9 DEF Promise!LineNext, Promise!Deliver

(* A read that breaks off in a line leaves it torn.                        *)
LEMMA BreakStep ==
  ASSUME RefinementInv, TimeOut \/ ReadFault
  PROVE  Promise!LineNext
<1>1. TypeOK /\ LinkTypeOK /\ WireFramed /\ ReadFramed /\ Rows /\ ReadsOn /\ HeadTorn \in BOOLEAN
  BY Known
<1>2. Reading /\ op' = "none" /\ buf' = <<>> /\ UNCHANGED <<lastKind, linkVars>>
  BY DEF TimeOut, ReadFault, Fail, Return
<1>3. lastKind' = "UNKNOWN" /\ Pending' = Pending /\ PendingLines' = PendingLines
  BY <1>1, <1>2, SameLines DEF ReadFramed
<1>4. HeadTorn' = (Pending # <<>> /\ Pending[1].i # 1)
  BY <1>2, <1>3 DEF HeadTorn, Unread
<1>5. HeadTorn' \in {HeadTorn, PendingLines # <<>>}
  <2>1. CASE buf = <<>>
    BY <1>4, <2>1 DEF HeadTorn, Unread
  <2>2. CASE buf # <<>>
    <3>1. Pending # <<>> /\ Pending[1].i # 1
      BY <1>1, <1>2, <2>2 DEF ReadsOn
    <3>2. PendingLines # <<>>
      BY <1>1, <3>1, SomeLines
    <3> QED
      BY <1>4, <3>1, <3>2
  <2> QED
    BY <2>1, <2>2
<1> QED
  BY <1>3, <1>5, Breaking

(* Reads that start, and sends, touch no line.                             *)
LEMMA BeginStep ==
  ASSUME RefinementInv, ~Reading, lastKind' = "UNKNOWN", UNCHANGED linkVars, buf' = <<>> \/ ~Reading'
  PROVE  Promise!LineNext
<1>1. LinkTypeOK
  BY Known
<1>2. Pending' = Pending /\ PendingLines' = PendingLines
  BY <1>1, SameLines
<1>3. HeadTorn' = HeadTorn
  BY <1>2 DEF HeadTorn, Unread
<1> QED
  BY <1>2, <1>3, Breaking

LEMMA DropLinesStep ==
  ASSUME RefinementInv, Discard
  PROVE  [Promise!LineNext]_(Promise!lineVars)
<1>1. LinkTypeOK /\ Rows /\ ~Reading /\ HeadTorn \in BOOLEAN
  BY Known DEF Discard
<1>2. ~Reading' /\ UNCHANGED buf
  BY <1>1 DEF Discard, callVars, Reading
<1>3. CASE rx' = <<>> /\ lastKind' = "UNKNOWN"
  <2>1. PICK n \in 0 .. Len(PendingLines) :
          /\ PendingLines' = SubSeq(PendingLines, n + 1, Len(PendingLines))
          /\ (n = 0 /\ Pending' # <<>> /\ Pending'[1].i = 1) => Pending[1].i = 1
    BY <1>1, <1>3, DiscardLines
  <2>2. Pending' = <<>> <=> PendingLines' = <<>>
    <3>1. Pending' \in Seq(Byte) /\ emitted' \in Nat
      <4>1. rx' \in Seq(Byte) /\ air' \in Seq(Byte) /\ emitted' \in Nat
        BY <1>1, <1>3, UartAssumption DEF Discard, LinkTypeOK
      <4> QED
        BY <4>1, ConcatProperties DEF Pending
    <3>2. RowsUpTo(Pending', emitted')
      BY <1>1, <1>3, DiscardLines DEF Rows
    <3> QED
      BY <3>1, <3>2, NoLines DEF PendingLines
  <2>3. HeadTorn = (Pending # <<>> /\ Pending[1].i # 1) /\ HeadTorn' = (Pending' # <<>> /\ Pending'[1].i # 1)
    BY <1>1, <1>2 DEF HeadTorn, Unread
  <2>4. HeadTorn' \in {(IF n = 0 THEN HeadTorn ELSE FALSE), PendingLines' # <<>>}
    BY <2>1, <2>2, <2>3
  <2>5. TextRead' = [whole |-> FALSE, line |-> <<>>]
    BY <1>3 DEF TextRead
  <2>6. Promise!Drop(n)
    BY <1>3, <2>1, <2>4, <2>5 DEF Promise!Drop, Promise!Forget, Promise!NoText
  <2> QED
    BY <2>6 DEF Promise!LineNext
<1>4. CASE UNCHANGED <<lastKind, rx>>
  <2>1. Pending' = Pending /\ PendingLines' = PendingLines
    BY <1>1, <1>4, SameLines DEF Discard, linkVars
  <2>2. HeadTorn' = HeadTorn /\ TextRead' = TextRead
    BY <1>1, <1>2, <1>4, <2>1 DEF HeadTorn, Unread, TextRead
  <2> QED
    BY <1>4, <2>1, <2>2 DEF Promise!lineVars
<1> QED
  BY <1>3, <1>4 DEF Discard

LEMMA EmitStep ==
  ASSUME RefinementInv, NEW k \in Emittable, NEW e \in EndingsOf(k), Emit(k, e)
  PROVE  Promise!LineNext
<1>1. TypeOK /\ LinkTypeOK /\ WireFramed /\ Rows
  BY Known
<1>2. PICK l \in Line : PendingLines' = Append(PendingLines, l)
  BY <1>1, EmitLines
<1>3. UNCHANGED <<lastKind, op, step, buf>>
  BY DEF Emit, callVars
<1>4. /\ Pending' # <<>>
      /\ IF Pending = <<>> THEN Pending'[1].i = 1 ELSE Pending'[1] = Pending[1]
  BY <1>1, WireEmit
<1>5. HeadTorn' = HeadTorn
  BY <1>3, <1>4 DEF HeadTorn, Unread, Reading
<1>6. TextRead' = TextRead
  BY <1>3 DEF TextRead
<1>7. Promise!Emit(l)
  BY <1>2, <1>3, <1>5, <1>6 DEF Promise!Emit
<1> QED
  BY <1>7 DEF Promise!LineNext

(* Steps the promise does not see. *)
LEMMA HiddenStep ==
  ASSUME RefinementInv, UNCHANGED linkVars \/ Arrive, UNCHANGED <<lastKind, callVars>>
  PROVE  UNCHANGED Promise!lineVars
<1>1. LinkTypeOK
  BY Known
<1>2. Pending' = Pending /\ PendingLines' = PendingLines
  BY <1>1, SameLines
<1>3. HeadTorn' = HeadTorn /\ TextRead' = TextRead
  BY <1>2 DEF HeadTorn, Unread, TextRead, Reading, callVars
<1> QED
  BY <1>2, <1>3 DEF Promise!lineVars

LEMMA PromiseStep ==
  ASSUME RefinementInv, [Next]_vars
  PROVE  [Promise!LineNext]_(Promise!lineVars)
<1>1. ASSUME NEW k \in Emittable, NEW e \in EndingsOf(k), Emit(k, e) PROVE Promise!LineNext
  BY <1>1, EmitStep
<1>2. CASE Arrive
  BY <1>2, HiddenStep DEF Arrive
<1>3. ASSUME NEW o \in ReadOps, NEW c \in CapsOf(o), BeginRead(o, c) PROVE Promise!LineNext
  <2>1. ~Reading /\ lastKind' = "UNKNOWN" /\ UNCHANGED linkVars /\ buf' = <<>>
    BY <1>3, Known DEF BeginRead, EnterReadLine
  <2> QED
    BY <2>1, BeginStep
<1>4. ASSUME NEW o \in ReadOps, NEW c \in CapsOf(o), RefuseRead(o, c)
      PROVE  UNCHANGED Promise!lineVars
  BY <1>4, HiddenStep DEF RefuseRead
<1>5. CASE Send
  <2>1. CASE lastKind' = "UNKNOWN"
    <3>1. ~Reading /\ ~Reading' /\ UNCHANGED linkVars
      BY <1>5, Known DEF Send, callVars, Reading
    <3> QED
      BY <2>1, <3>1, BeginStep
  <2>2. CASE UNCHANGED lastKind
    BY <1>5, <2>2, HiddenStep DEF Send
  <2> QED
    BY <1>5, <2>1, <2>2 DEF Send
<1>6. CASE BeginReadOk
  <2>1. ~Reading /\ lastKind' = "UNKNOWN" /\ UNCHANGED linkVars /\ buf' = <<>>
    BY <1>6 DEF BeginReadOk, EnterReadLine, Reading
  <2> QED
    BY <2>1, BeginStep
<1>7. CASE UNCHANGED vars
  BY <1>7, HiddenStep DEF vars
<1> QED
  BY <1>1, <1>2, <1>3, <1>4, <1>5, <1>6, <1>7, StoreStep, DropStep, RejectStep, DeliverStep,
     BreakStep, DropLinesStep DEF Next, DriverStep

(* src/ezo_uart.c implements the promise: for every buffer size, length of *)
(* lines and order of arrivals, timeouts, faults and discards, its reads   *)
(* consume lines in order, deliver each at most once and lose text only by *)
(* breaking off.                                                           *)
THEOREM KeepsPromise == Spec => ImplementsPromise
<1>1. Spec => []RefinementInv
  BY RefinementInvInit, RefinementInvStep, PTL DEF Spec
<1>2. Init => Promise!LineInit
  BY PromiseInit
<1>3. RefinementInv /\ [Next]_vars => [Promise!LineNext]_(Promise!lineVars)
  BY PromiseStep
<1> QED
  BY <1>1, <1>2, <1>3, PTL DEF Spec, ImplementsPromise, Promise!LineSpec

=============================================================================
