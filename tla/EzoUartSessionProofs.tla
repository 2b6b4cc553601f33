------------------------- MODULE EzoUartSessionProofs -------------------------
(***************************************************************************)
(* Proofs about the session: that the bootstrap is a fence and that a      *)
(* query gets its own reply, for any number of late replies, failures,     *)
(* restarts and unsolicited lines, and any number of stamps.               *)
(***************************************************************************)
EXTENDS EzoUartSessionProps, SequenceTheorems, TLAPS

-----------------------------------------------------------------------------
(***************************************************************************)
(* The inductive invariant.                                                *)
(***************************************************************************)
Frame == [of : 0 .. Stamps - 1, cmd : {"garbage", "probe", "enable", "typed", "ack"}]
PieceSet == [cmd : Commands, whole : BOOLEAN]

Types ==
  /\ lines \in Seq(SessionLine) /\ torn \in BOOLEAN
  /\ rxLines \in 0 .. Len(lines)
  /\ input \in Seq(PieceSet) /\ todo \in Seq(Frame) /\ codes \in BOOLEAN
  /\ cmd \in Commands \cup {"none"}
  /\ stage \in {"discard", "ready", "write", "terminate", "wait", "read", "ack"}
  /\ sent \in 0 .. Stamps - 1 /\ alone \in BOOLEAN
  /\ outcome \in {"none", "answered", "failed"}

Codes == {"codes on", "codes off"}

FromNobody(l) == l.of = Unsolicited

(* What the circuit says unasked acknowledges nothing, and an answer to    *)
(* the response-code query is a data line.                                 *)
Genuine ==
  \A j \in DOMAIN lines :
    /\ FromNobody(lines[j]) => lines[j].kind \in {"DATA", "READY"} /\ lines[j].body \in {"reading", "token"}
    /\ lines[j].body \in {"reading"} \cup Codes <=> lines[j].kind = "DATA"

(* How far the program is, and what that says of the circuit's input.      *)
Stages ==
  /\ cmd = "none" <=> stage \in {"discard", "ready"}
  /\ stage = "ack" => cmd = "typed"
  /\ cmd \in {"enable", "typed"} \/ stage = "ready" => ~torn
  /\ stage \in {"wait", "read", "ack", "ready"} => input = <<>>
  /\ cmd \in {"enable", "typed"} /\ stage = "write" => input = <<>>
  /\ cmd \in {"enable", "typed"} /\ stage = "terminate" =>
       input = <<>> \/ input = <<[cmd |-> cmd, whole |-> TRUE]>>
  /\ outcome = "answered" => stage = "ready" \/ cmd = "typed"

(* Whoever says that the codes are on, or acknowledges, has them on. *)
CodesAreOn ==
  /\ stage = "ready" \/ cmd = "typed" => codes
  /\ \A j \in DOMAIN lines : lines[j].kind = "OK" \/ lines[j].body = "codes on" => codes

(* Nothing that was asked for is still to come. *)
Clear == todo = <<>> /\ \A j \in DOMAIN lines : FromNobody(lines[j])

(* The answer to the probe, if there is one, comes after everything else   *)
(* that was asked for.                                                     *)
ProbeIsLast ==
  /\ \A j \in DOMAIN todo : todo[j].cmd = "probe" =>
       j = Len(todo) /\ \A i \in DOMAIN lines : lines[i].body \notin Codes
  /\ \A j \in DOMAIN lines : lines[j].body \in Codes =>
       todo = <<>> /\ \A i \in DOMAIN lines : i > j => FromNobody(lines[i])

(* All that comes is the acknowledgement of the enable, or its rejection. *)
EnableIsAll ==
  /\ Len(todo) <= 1 /\ \A j \in DOMAIN todo : todo[j].cmd \in {"enable", "garbage"}
  /\ \A j \in DOMAIN lines : ~FromNobody(lines[j]) =>
       todo = <<>> /\ \A i \in DOMAIN lines : i # j => FromNobody(lines[i])

Reading == Reply(sent, "DATA", "reading")

(* All that comes is the reading and then its acknowledgement, or the      *)
(* rejection of the query.                                                 *)
ReadingThenAck ==
  /\ Len(todo) <= 1
  /\ \A j \in DOMAIN todo :
       /\ todo[j].of = sent /\ todo[j].cmd \in {"typed", "garbage", "ack"}
       /\ IF todo[j].cmd = "ack" THEN \E i \in DOMAIN lines : lines[i] = Reading
          ELSE \A i \in DOMAIN lines : FromNobody(lines[i])
  /\ \A j \in DOMAIN lines :
       /\ ~FromNobody(lines[j]) => lines[j].kind \in {"OK", "ERROR"} \/ lines[j] = Reading
       /\ lines[j].kind = "OK" =>
            /\ todo = <<>>
            /\ \E i \in DOMAIN lines : i < j /\ lines[i] = Reading
            /\ \A i \in DOMAIN lines : i > j => FromNobody(lines[i])
       /\ lines[j].kind = "ERROR" =>
            todo = <<>> /\ \A i \in DOMAIN lines : i # j => FromNobody(lines[i])
       /\ lines[j] = Reading => \A i \in DOMAIN lines : lines[i] = Reading => i = j

(* All that comes is the acknowledgement of the reading. *)
AckIsAll ==
  /\ Len(todo) <= 1 /\ \A j \in DOMAIN todo : todo[j].cmd = "ack"
  /\ \A j \in DOMAIN lines : ~FromNobody(lines[j]) =>
       /\ lines[j].kind = "OK" /\ todo = <<>>
       /\ \A i \in DOMAIN lines : i > j => FromNobody(lines[i])

Answered == answer = [whole |-> TRUE, line |-> Reading]

Fenced ==
  /\ stage = "ready" => Clear
  /\ cmd \in {"enable", "typed"} /\ stage \in {"write", "terminate"} => Clear
  /\ cmd = "probe" /\ stage \in {"wait", "read"} => ProbeIsLast
  /\ cmd = "enable" /\ stage \in {"wait", "read"} => EnableIsAll
  /\ cmd = "typed" /\ stage \in {"wait", "read"} => ReadingThenAck
  /\ cmd = "typed" /\ stage = "ack" => ReadingThenAck \/ (AckIsAll /\ Answered)
  /\ stage = "ready" /\ outcome = "answered" => Answered

SessionInv == Types /\ Genuine /\ Stages /\ CodesAreOn /\ (alone => Fenced)

-----------------------------------------------------------------------------
(***************************************************************************)
(* Lines come at the end and go at the beginning.                          *)
(***************************************************************************)
LEMMA AppendSeq ==
  ASSUME NEW S, NEW s \in Seq(S), NEW e \in S
  PROVE  /\ Append(s, e) \in Seq(S) /\ Len(Append(s, e)) = Len(s) + 1
         /\ DOMAIN Append(s, e) = DOMAIN s \cup {Len(s) + 1} /\ DOMAIN s = 1 .. Len(s)
         /\ Len(s) + 1 \notin DOMAIN s
         /\ \A j \in DOMAIN s : Append(s, e)[j] = s[j]
         /\ Append(s, e)[Len(s) + 1] = e
  OBVIOUS

LEMMA TailSeq ==
  ASSUME NEW S, NEW s \in Seq(S), s # <<>>
  PROVE  /\ Tail(s) \in Seq(S) /\ Len(Tail(s)) = Len(s) - 1
         /\ 1 \in DOMAIN s /\ Head(s) = s[1] /\ Head(s) \in S
         /\ \A j \in DOMAIN Tail(s) : j \in Nat \ {0} /\ j + 1 \in DOMAIN s /\ Tail(s)[j] = s[j + 1]
  OBVIOUS

LEMMA DropSeq ==
  ASSUME NEW S, NEW s \in Seq(S), NEW n \in 0 .. Len(s)
  PROVE  /\ SubSeq(s, n + 1, Len(s)) \in Seq(S)
         /\ \A j \in DOMAIN SubSeq(s, n + 1, Len(s)) :
              j + n \in DOMAIN s /\ SubSeq(s, n + 1, Len(s))[j] = s[j + n]
  OBVIOUS

LEMMA LinesAppend ==
  ASSUME Types, NEW l \in SessionLine, lines' = Append(lines, l), NEW n, n = Len(lines) + 1
  PROVE  /\ DOMAIN lines' = DOMAIN lines \cup {n} /\ n \notin DOMAIN lines
         /\ \A j \in DOMAIN lines : lines'[j] = lines[j] /\ j < n /\ j \in Nat
         /\ lines'[n] = l /\ n \in Nat
<1>1. lines \in Seq(SessionLine)
  BY DEF Types
<1> QED
  BY <1>1, AppendSeq

(* A sequence of one element at most. *)
LEMMA ShortSeq ==
  ASSUME NEW S, NEW s \in Seq(S), s # <<>>, Len(s) <= 1
  PROVE  Tail(s) = <<>> /\ DOMAIN s = {1} /\ Len(s) = 1
<1>1. Len(s) \in Nat /\ Len(s) # 0 /\ DOMAIN s = 1 .. Len(s)
  BY LenProperties, EmptySeq
<1>2. Len(s) = 1
  BY <1>1
<1>3. Tail(s) \in Seq(S) /\ Len(Tail(s)) = 0
  BY <1>2, TailSeq
<1>4. Tail(s) = <<>>
  BY <1>3, EmptySeq
<1> QED
  BY <1>1, <1>2, <1>4

(* A circuit's frames are well typed, and so is what it sends. *)
LEMMA Said ==
  ASSUME NEW n \in 0 .. Stamps - 1
  PROVE  /\ \A b \in {"reading"} \cup Codes : Reply(n, "DATA", b) \in SessionLine
         /\ \A k \in {"OK", "ERROR"} : Token(n, k) \in SessionLine
         /\ n # Unsolicited
  BY SessionAssumption DEF Reply, Token, SessionLine, Codes, Bodies, Unsolicited

LEMMA Chat ==
  /\ Reply(Unsolicited, "DATA", "reading") \in SessionLine
  /\ Token(Unsolicited, "READY") \in SessionLine
  BY SessionAssumption DEF Reply, Token, SessionLine, Bodies, Unsolicited

LEMMA InvInit == Init => SessionInv
<1> SUFFICES ASSUME Init PROVE SessionInv
  OBVIOUS
<1>1. lines = <<>> /\ todo = <<>> /\ input = <<>> /\ torn = FALSE /\ rxLines = 0
  BY DEF Init, LineInit
<1>2. Types
  <2>1. 0 \in 0 .. Stamps - 1 /\ <<>> \in Seq(SessionLine) /\ <<>> \in Seq(PieceSet) /\ <<>> \in Seq(Frame)
    BY SessionAssumption
  <2>2. rxLines \in 0 .. Len(lines)
    BY <1>1
  <2> QED
    BY <1>1, <2>1, <2>2 DEF Init, Types
<1>3. Genuine /\ Stages /\ CodesAreOn /\ Fenced
  BY <1>1 DEF Init, Genuine, Stages, CodesAreOn, Fenced
<1> QED
  BY <1>2, <1>3 DEF SessionInv

-----------------------------------------------------------------------------
(***************************************************************************)
(* The steps of the circuit.  It says l, has td still to do, and its codes *)
(* are c.                                                                  *)
(***************************************************************************)
Says(l, td, c) ==
  /\ lines' = Append(lines, l) /\ todo' = td /\ codes' = c
  /\ input' \in {input, <<>>}
  /\ UNCHANGED <<torn, rxLines, sessionVars>>

(* The answer to the frame f, the oldest one. *)
Answers(f) ==
  /\ todo # <<>> /\ f = todo[1] /\ Tail(todo) \in Seq(Frame)
  /\ \/ f.cmd = "garbage" /\ Says(Token(f.of, "ERROR"), Tail(todo), codes)
     \/ f.cmd = "probe"
        /\ Says(Reply(f.of, "DATA", IF codes THEN "codes on" ELSE "codes off"), Tail(todo), codes)
     \/ f.cmd = "typed" /\ codes
        /\ Says(Reply(f.of, "DATA", "reading"), <<[of |-> f.of, cmd |-> "ack"]>> \o Tail(todo), codes)
     \/ f.cmd = "typed" /\ ~codes /\ Says(Reply(f.of, "DATA", "reading"), Tail(todo), codes)
     \/ f.cmd \in {"enable", "ack"} /\ Says(Token(f.of, "OK"), Tail(todo), TRUE)

LEMMA ProcessSays ==
  ASSUME Types, Process
  PROVE  \E f \in Frame : Answers(f)
<1> USE DEF Answers
<1>1. todo # <<>> /\ todo \in Seq(Frame)
  BY DEF Process, Types
<1>2. todo[1] \in Frame /\ Head(todo) = todo[1] /\ Tail(todo) \in Seq(Frame)
  BY <1>1, TailSeq
<1>3. [todo[1] EXCEPT !.cmd = "ack"] = [of |-> todo[1].of, cmd |-> "ack"]
  BY <1>2 DEF Frame
<1> QED
  BY <1>1, <1>2, <1>3 DEF Process, Emit, NoFault, Says, budgetVars

LEMMA TypesEmit ==
  ASSUME Types, NEW l \in SessionLine, NEW td \in Seq(Frame), NEW c \in BOOLEAN, Says(l, td, c)
  PROVE  Types'
<1>1. lines' \in Seq(SessionLine) /\ Len(lines') = Len(lines) + 1
  BY AppendSeq DEF Says, Types
<1>2. rxLines' \in 0 .. Len(lines')
  BY <1>1 DEF Says, Types
<1>3. input' \in Seq(PieceSet)
  <2>1. input' = input \/ input' = <<>>
    BY DEF Says
  <2>2. input \in Seq(PieceSet)
    BY DEF Types
  <2>3. <<>> \in Seq(PieceSet)
    OBVIOUS
  <2> QED
    BY <2>1, <2>2, <2>3
<1> QED
  BY <1>1, <1>2, <1>3 DEF Says, Types, sessionVars

LEMMA AckFirst ==
  ASSUME NEW n \in 0 .. Stamps - 1, NEW s \in Seq(Frame)
  PROVE  /\ <<[of |-> n, cmd |-> "ack"]>> \o s \in Seq(Frame)
         /\ Len(<<[of |-> n, cmd |-> "ack"]>> \o s) = Len(s) + 1
         /\ (<<[of |-> n, cmd |-> "ack"]>> \o s)[1] = [of |-> n, cmd |-> "ack"]
         /\ \A j \in DOMAIN s : (<<[of |-> n, cmd |-> "ack"]>> \o s)[j + 1] = s[j]
  BY DEF Frame

(* A line the circuit sends is genuine. *)
LEMMA GenuineEmit ==
  ASSUME Types, Genuine, NEW l \in SessionLine, lines' = Append(lines, l),
         FromNobody(l) => l.kind \in {"DATA", "READY"} /\ l.body \in {"reading", "token"},
         l.body \in {"reading"} \cup Codes <=> l.kind = "DATA"
  PROVE  Genuine'
  BY AppendSeq DEF Types, Genuine, FromNobody

LEMMA CodesEmit ==
  ASSUME Types, CodesAreOn, NEW l \in SessionLine, NEW td, NEW c \in BOOLEAN, Says(l, td, c),
         codes => c, l.kind = "OK" \/ l.body = "codes on" => c
  PROVE  CodesAreOn'
<1> DEFINE n == Len(lines) + 1
<1>1. /\ DOMAIN lines' = DOMAIN lines \cup {n} /\ lines'[n] = l
      /\ \A j \in DOMAIN lines : lines'[j] = lines[j]
  BY LinesAppend DEF Says
<1>2. codes' = c /\ stage' = stage /\ cmd' = cmd /\ (codes => codes')
  BY DEF Says, sessionVars
<1> HIDE DEF n
<1>3. \A j \in DOMAIN lines' : lines'[j].kind = "OK" \/ lines'[j].body = "codes on" => codes'
  <2> SUFFICES ASSUME NEW j \in DOMAIN lines', lines'[j].kind = "OK" \/ lines'[j].body = "codes on"
               PROVE  codes'
    OBVIOUS
  <2>1. CASE j \in DOMAIN lines
    BY <1>1, <1>2, <2>1 DEF CodesAreOn
  <2>2. CASE j = n
    BY <1>1, <1>2, <2>2
  <2> QED
    BY <1>1, <2>1, <2>2
<1> QED
  BY <1>2, <1>3 DEF CodesAreOn

(* What the circuit says unasked does not break a fence. *)
LEMMA FencedChat ==
  ASSUME Types, Fenced, NEW l \in SessionLine, NEW td, NEW c, Says(l, td, c), td \in {todo, <<>>},
         FromNobody(l), l.kind \in {"DATA", "READY"}, l.body \in {"reading", "token"}
  PROVE  Fenced'
<1> DEFINE n == Len(lines) + 1
<1>1. /\ DOMAIN lines' = DOMAIN lines \cup {n} /\ n \notin DOMAIN lines
      /\ \A j \in DOMAIN lines : lines'[j] = lines[j] /\ j < n /\ j \in Nat
      /\ lines'[n] = l /\ n \in Nat
  BY LinesAppend DEF Says
<1> HIDE DEF n
<1>2. UNCHANGED sessionVars /\ todo' \in {todo, <<>>}
  BY DEF Says
<1>3. Clear => Clear'
  BY <1>1, <1>2 DEF Clear
<1>4. ProbeIsLast => ProbeIsLast'
  <2>1. lines'[n].body \notin Codes
    BY <1>1 DEF Codes
  <2>2. DOMAIN todo' \subseteq DOMAIN todo /\ (todo = <<>> => todo' = <<>>)
        /\ (todo' = todo \/ DOMAIN todo' = {})
    BY <1>2
  <2> QED
    BY <1>1, <2>1, <2>2 DEF ProbeIsLast
<1>5. EnableIsAll => EnableIsAll'
  BY <1>1, <1>2 DEF EnableIsAll
<1>6. lines'[n] # Reading
  BY <1>1, Said DEF Reading, Reply, FromNobody, Types
<1>7. ReadingThenAck => ReadingThenAck'
  BY <1>1, <1>2, <1>6 DEF ReadingThenAck, Reading, sessionVars
<1>8. AckIsAll => AckIsAll'
  BY <1>1, <1>2 DEF AckIsAll
<1>9. Answered => Answered'
  BY <1>2 DEF Answered, Reading, sessionVars
<1> QED
  BY <1>2, <1>3, <1>4, <1>5, <1>7, <1>8, <1>9 DEF Fenced, sessionVars

(* Nor does an answer it owes.                                             *)
LEMMA FencedProcess ==
  ASSUME Types, Genuine, Fenced, Process
  PROVE  Fenced'
<1> USE DEF Answers
<1> DEFINE n == Len(lines) + 1
<1>1. PICK f \in Frame : Answers(f)
  BY ProcessSays
<1>2. PICK l \in SessionLine :
        /\ lines' = Append(lines, l) /\ l.of = f.of
        /\ f.cmd = "garbage" => l = Token(f.of, "ERROR")
        /\ f.cmd = "typed" => l = Reply(f.of, "DATA", "reading")
        /\ f.cmd \in {"enable", "ack"} => l = Token(f.of, "OK")
        /\ f.cmd # "probe" => l.body \notin Codes
  <2>1. f.of \in 0 .. Stamps - 1
    BY DEF Frame
  <2> DEFINE Good(l) ==
               /\ l.of = f.of
               /\ f.cmd = "garbage" => l = Token(f.of, "ERROR")
               /\ f.cmd = "typed" => l = Reply(f.of, "DATA", "reading")
               /\ f.cmd \in {"enable", "ack"} => l = Token(f.of, "OK")
               /\ f.cmd # "probe" => l.body \notin Codes
  <2>2. \E l \in SessionLine : lines' = Append(lines, l) /\ Good(l)
    <3>1. CASE f.cmd = "garbage"
      <4>1. Token(f.of, "ERROR") \in SessionLine /\ lines' = Append(lines, Token(f.of, "ERROR"))
        BY <1>1, <2>1, <3>1, Said DEF Says
      <4> QED
        BY <3>1, <4>1 DEF Token, Reply, Codes
    <3>2. CASE f.cmd = "typed"
      <4>1. Reply(f.of, "DATA", "reading") \in SessionLine
            /\ lines' = Append(lines, Reply(f.of, "DATA", "reading"))
        BY <1>1, <2>1, <3>2, Said DEF Says
      <4> QED
        BY <3>2, <4>1 DEF Reply, Codes
    <3>3. CASE f.cmd \in {"enable", "ack"}
      <4>1. Token(f.of, "OK") \in SessionLine /\ lines' = Append(lines, Token(f.of, "OK"))
        BY <1>1, <2>1, <3>3, Said DEF Says
      <4> QED
        BY <3>3, <4>1 DEF Token, Reply, Codes
    <3>4. CASE f.cmd = "probe"
      <4>1. PICK b \in Codes : lines' = Append(lines, Reply(f.of, "DATA", b))
        BY <1>1, <3>4 DEF Says, Codes
      <4>2. Reply(f.of, "DATA", b) \in SessionLine
        BY <2>1, Said
      <4> QED
        BY <3>4, <4>1, <4>2 DEF Reply
    <3> QED
      BY <3>1, <3>2, <3>3, <3>4 DEF Frame
  <2> QED
    BY <2>2
<1>3. /\ DOMAIN lines' = DOMAIN lines \cup {n} /\ n \notin DOMAIN lines
      /\ \A j \in DOMAIN lines : lines'[j] = lines[j] /\ j < n /\ j \in Nat
      /\ lines'[n] = l /\ n \in Nat
  BY <1>2, LinesAppend
<1> HIDE DEF n
<1>4. UNCHANGED sessionVars /\ todo # <<>> /\ f = todo[1] /\ 1 \in DOMAIN todo /\ todo \in Seq(Frame)
  BY <1>1, TailSeq DEF Says, Types
<1>5. /\ todo' = Tail(todo) \/ (f.cmd = "typed" /\ todo' = <<[of |-> f.of, cmd |-> "ack"]>> \o Tail(todo))
      /\ Len(Tail(todo)) = Len(todo) - 1
      /\ \A j \in DOMAIN Tail(todo) : j + 1 \in DOMAIN todo /\ Tail(todo)[j] = todo[j + 1]
  BY <1>1, <1>4, TailSeq DEF Says
<1>6. ~Clear
  BY <1>4 DEF Clear
<1>7. ProbeIsLast => ProbeIsLast'
  <2> SUFFICES ASSUME ProbeIsLast PROVE ProbeIsLast'
    OBVIOUS
  <2>1. \A j \in DOMAIN lines : lines[j].body \notin Codes
    BY <1>4 DEF ProbeIsLast
  <2>2. CASE f.cmd = "probe"
    <3>1. todo' = <<>>
      BY <1>4, <1>5, <2>2 DEF ProbeIsLast
    <3>2. \A j \in DOMAIN lines' : lines'[j].body \in Codes => j = n
      BY <1>3, <2>1
    <3>3. \A i \in DOMAIN lines' : ~(i > n)
      BY <1>3
    <3> QED
      BY <3>1, <3>2, <3>3 DEF ProbeIsLast
  <2>3. CASE f.cmd # "probe"
    <3>1. \A j \in DOMAIN lines' : lines'[j].body \notin Codes
      BY <1>2, <1>3, <2>1, <2>3
    <3>2. ASSUME NEW j \in DOMAIN todo', todo'[j].cmd = "probe" PROVE j = Len(todo')
      <4>1. CASE todo' = Tail(todo)
        <5>1. j + 1 = Len(todo)
          BY <1>5, <3>2, <4>1 DEF ProbeIsLast
        <5>2. j \in Nat /\ Len(todo) \in Nat
          <6>1. todo' \in Seq(Frame) /\ todo \in Seq(Frame)
            BY <1>1, <1>4, <4>1
          <6>2. DOMAIN todo' = 1 .. Len(todo') /\ Len(todo) \in Nat
            BY <6>1, LenProperties
          <6> QED
            BY <3>2, <6>2
        <5> QED
          BY <1>5, <4>1, <5>1, <5>2
      <4>2. CASE todo' = <<[of |-> f.of, cmd |-> "ack"]>> \o Tail(todo)
        <5>1. todo'[1].cmd = "ack" /\ Len(todo') = Len(todo)
              /\ \A i \in DOMAIN Tail(todo) : todo'[i + 1] = todo[i + 1]
          <6>1. f.of \in 0 .. Stamps - 1
            BY DEF Frame
          <6>2. Len(todo') = Len(Tail(todo)) + 1 /\ todo'[1] = [of |-> f.of, cmd |-> "ack"]
                /\ \A i \in DOMAIN Tail(todo) : todo'[i + 1] = Tail(todo)[i]
            BY <1>1, <4>2, <6>1, AckFirst
          <6>3. Len(todo) \in Nat
            BY <1>4
          <6> QED
            BY <1>5, <6>2, <6>3
        <5>2. j # 1 /\ j - 1 \in DOMAIN Tail(todo) /\ j \in Nat
          <6>1. j \in 1 .. Len(todo)
            <7>1. f.of \in 0 .. Stamps - 1
              BY DEF Frame
            <7>2. todo' \in Seq(Frame)
              BY <1>1, <4>2, <7>1, AckFirst
            <7> QED
              BY <3>2, <5>1, <7>2
          <6>2. j # 1
            BY <3>2, <5>1
          <6>3. DOMAIN Tail(todo) = 1 .. Len(todo) - 1
            BY <1>1, <1>5, LenProperties
          <6>4. Len(todo) \in Nat
            BY <1>4
          <6> QED
            BY <6>1, <6>2, <6>3, <6>4
        <5>3. j = Len(todo)
          BY <1>5, <3>2, <5>1, <5>2 DEF ProbeIsLast
        <5> QED
          BY <5>1, <5>3
      <4> QED
        BY <1>5, <4>1, <4>2
    <3> QED
      BY <3>1, <3>2 DEF ProbeIsLast
  <2> QED
    BY <2>2, <2>3
<1>8. ASSUME Len(todo) <= 1 PROVE Tail(todo) = <<>> /\ DOMAIN todo = {1}
  BY <1>4, <1>8, ShortSeq
<1>9. EnableIsAll => EnableIsAll'
  <2> SUFFICES ASSUME EnableIsAll PROVE EnableIsAll'
    OBVIOUS
  <2>1. todo' = <<>>
    BY <1>4, <1>5, <1>8 DEF EnableIsAll
  <2>2. \A j \in DOMAIN lines : FromNobody(lines'[j])
    BY <1>3, <1>4 DEF EnableIsAll
  <2> QED
    BY <1>3, <2>1, <2>2 DEF EnableIsAll
<1>10. AckIsAll => AckIsAll'
  <2> SUFFICES ASSUME AckIsAll PROVE AckIsAll'
    OBVIOUS
  <2>1. todo' = <<>> /\ l.kind = "OK"
    BY <1>2, <1>4, <1>5, <1>8 DEF AckIsAll, Token, Reply
  <2>2. \A j \in DOMAIN lines : FromNobody(lines'[j])
    BY <1>3, <1>4 DEF AckIsAll
  <2> QED
    BY <1>3, <2>1, <2>2 DEF AckIsAll
<1>11. ReadingThenAck => ReadingThenAck'
  <2> SUFFICES ASSUME ReadingThenAck PROVE ReadingThenAck'
    OBVIOUS
  <2>1. f.of = sent /\ f.cmd \in {"typed", "garbage", "ack"} /\ Reading' = Reading /\ Tail(todo) = <<>>
        /\ Reading.of # Unsolicited
    BY <1>4, <1>8, Said DEF ReadingThenAck, Reading, Reply, sessionVars, Types
  <2>2. CASE f.cmd = "typed"
    <3>1. \A j \in DOMAIN lines : FromNobody(lines'[j]) /\ lines'[j].kind \notin {"OK", "ERROR"} /\ lines'[j] # Reading
      BY <1>3, <1>4, <2>1, <2>2 DEF ReadingThenAck, Genuine, FromNobody
    <3>2. lines'[n] = Reading /\ Reading.kind = "DATA"
      BY <1>2, <1>3, <2>1, <2>2 DEF Reading, Reply
    <3>3. todo' = <<>> \/ (Len(todo') = 1 /\ DOMAIN todo' = {1} /\ todo'[1] = [of |-> sent, cmd |-> "ack"])
      <4> DEFINE a == [of |-> sent, cmd |-> "ack"]
      <4>1. <<a>> \o <<>> = <<a>> /\ Len(<<a>>) = 1 /\ DOMAIN <<a>> = {1} /\ <<a>>[1] = a
        OBVIOUS
      <4> HIDE DEF a
      <4>2. todo' = <<>> \/ todo' = <<a>>
        BY <1>5, <2>1, <4>1 DEF a
      <4> QED
        BY <4>1, <4>2 DEF a
    <3>4. Len(todo') <= 1 /\ \A j \in DOMAIN todo' : todo'[j].of = sent /\ todo'[j].cmd = "ack"
      <4>1. CASE todo' = <<>>
        BY <4>1
      <4>2. CASE Len(todo') = 1 /\ DOMAIN todo' = {1} /\ todo'[1] = [of |-> sent, cmd |-> "ack"]
        BY <4>2
      <4> QED
        BY <3>3, <4>1, <4>2
    <3>5. n \in DOMAIN lines' /\ sent' = sent
      BY <1>3, <1>4 DEF sessionVars
    <3> QED
      BY <1>3, <2>1, <3>1, <3>2, <3>4, <3>5 DEF ReadingThenAck
  <2>3. CASE f.cmd = "garbage"
    <3>1. \A j \in DOMAIN lines : FromNobody(lines'[j]) /\ lines'[j].kind \notin {"OK", "ERROR"} /\ lines'[j] # Reading
      BY <1>3, <1>4, <2>1, <2>3 DEF ReadingThenAck, Genuine, FromNobody
    <3>2. lines'[n].kind = "ERROR" /\ lines'[n] # Reading /\ todo' = <<>>
      <4>1. lines'[n] = Token(f.of, "ERROR")
        BY <1>2, <1>3, <2>3
      <4>2. Token(f.of, "ERROR").kind = "ERROR" /\ Reading.kind = "DATA"
        BY DEF Token, Reply, Reading
      <4>3. todo' = <<>>
        BY <1>5, <2>1, <2>3
      <4> QED
        BY <4>1, <4>2, <4>3
    <3> QED
      BY <1>3, <2>1, <3>1, <3>2 DEF ReadingThenAck
  <2>4. CASE f.cmd = "ack"
    <3>1. \A j \in DOMAIN lines : lines'[j].kind \notin {"OK", "ERROR"} /\ (~FromNobody(lines'[j]) => lines'[j] = Reading)
      BY <1>3, <1>4, <2>4 DEF ReadingThenAck
    <3>2. PICK i \in DOMAIN lines : lines'[i] = Reading
      BY <1>3, <1>4, <2>4 DEF ReadingThenAck
    <3>3. lines'[n].kind = "OK" /\ lines'[n] # Reading /\ todo' = <<>>
      <4>1. lines'[n] = Token(f.of, "OK")
        BY <1>2, <1>3, <2>4
      <4>2. Token(f.of, "OK").kind = "OK" /\ Reading.kind = "DATA"
        BY DEF Token, Reply, Reading
      <4>3. todo' = <<>>
        BY <1>5, <2>1, <2>4
      <4> QED
        BY <4>1, <4>2, <4>3
    <3>4. \A j, k \in DOMAIN lines : lines'[j] = Reading /\ lines'[k] = Reading => j = k
      BY <1>3 DEF ReadingThenAck
    <3> QED
      BY <1>3, <2>1, <3>1, <3>2, <3>3, <3>4 DEF ReadingThenAck
  <2> QED
    BY <2>1, <2>2, <2>3, <2>4
<1>12. Answered => Answered'
  BY <1>4 DEF Answered, Reading, sessionVars
<1> QED
  BY <1>4, <1>6, <1>7, <1>9, <1>10, <1>11, <1>12 DEF Fenced, sessionVars

-----------------------------------------------------------------------------
(***************************************************************************)
(* Lines are taken from the front.                                         *)
(***************************************************************************)
LEMMA Fewer ==
  ASSUME Genuine, CodesAreOn, \A j \in DOMAIN lines' : \E i \in DOMAIN lines : lines'[j] = lines[i],
         codes' = codes, (stage = "ready" \/ cmd = "typed")' => codes
  PROVE  Genuine' /\ CodesAreOn'
<1>1. Genuine'
  BY DEF Genuine, FromNobody
<1>2. \A j \in DOMAIN lines' : lines'[j].kind = "OK" \/ lines'[j].body = "codes on" => codes'
  BY DEF CodesAreOn
<1> QED
  BY <1>1, <1>2 DEF CodesAreOn

(* The head line goes. *)
LEMMA Taken ==
  ASSUME Types, lines # <<>>, lines' = Tail(lines), rxLines > 0, rxLines' = rxLines - 1
  PROVE  /\ lines' \in Seq(SessionLine) /\ rxLines' \in 0 .. Len(lines')
         /\ 1 \in DOMAIN lines /\ Head(lines) = lines[1] /\ Head(lines) \in SessionLine
         /\ \A j \in DOMAIN lines' : j \in Nat \ {0} /\ j + 1 \in DOMAIN lines /\ lines'[j] = lines[j + 1]
         /\ \A j \in DOMAIN lines \ {1} : j \in Nat /\ j - 1 \in DOMAIN lines' /\ lines'[j - 1] = lines[j]
<1>1. lines \in Seq(SessionLine) /\ rxLines \in 0 .. Len(lines)
  BY DEF Types
<1>2. /\ lines' \in Seq(SessionLine) /\ Len(lines') = Len(lines) - 1
      /\ 1 \in DOMAIN lines /\ Head(lines) = lines[1] /\ Head(lines) \in SessionLine
      /\ \A j \in DOMAIN lines' : j \in Nat \ {0} /\ j + 1 \in DOMAIN lines /\ lines'[j] = lines[j + 1]
  BY <1>1, TailSeq
<1>3. DOMAIN lines = 1 .. Len(lines) /\ Len(lines) \in Nat /\ DOMAIN lines' = 1 .. Len(lines')
  BY <1>1, <1>2, LenProperties
<1>4. rxLines' \in 0 .. Len(lines')
  BY <1>1, <1>2, <1>3
<1>5. ASSUME NEW j \in DOMAIN lines \ {1}
      PROVE  j \in Nat /\ j - 1 \in DOMAIN lines' /\ lines'[j - 1] = lines[j]
  <2>1. j \in Nat /\ j - 1 \in DOMAIN lines'
    BY <1>2, <1>3
  <2>2. lines'[j - 1] = lines[(j - 1) + 1] /\ (j - 1) + 1 = j
    BY <1>2, <2>1
  <2> QED
    BY <2>1, <2>2
<1> QED
  BY <1>2, <1>4, <1>5

(* A call that fails leaves nothing to keep but types and lines.           *)
LEMMA Failing ==
  ASSUME Types', Genuine', CodesAreOn', stage' = "discard", cmd' = "none", outcome' # "answered"
  PROVE  SessionInv'
<1>1. Stages' /\ Fenced'
  BY DEF Stages, Fenced
<1> QED
  BY <1>1 DEF SessionInv

LEMMA ReadsStep ==
  ASSUME SessionInv, ReadsLine
  PROVE  SessionInv'
<1> DEFINE h == lines[1]
<1> USE DEF SessionInv
<1>1. /\ lines # <<>> /\ lines' = Tail(lines) /\ torn' = FALSE
      /\ kind' \in {"DATA", IF torn THEN Head(lines).ending ELSE Head(lines).kind}
      /\ ~torn => kind' = Head(lines).kind
      /\ text' = [whole |-> ~torn, line |-> Head(lines)]
      /\ rxLines > 0 /\ rxLines' = rxLines - 1
      /\ UNCHANGED <<input, todo, codes>>
      /\ stage \in {"read", "ack"}
      /\ ReadProbe \/ ReadEnable \/ ReadPayload \/ ReadAck
  BY DEF ReadsLine, Deliver, Seen, ReadingLine, circuitVars
<1>2. /\ lines' \in Seq(SessionLine) /\ rxLines' \in 0 .. Len(lines')
      /\ 1 \in DOMAIN lines /\ Head(lines) = h /\ h \in SessionLine
      /\ \A j \in DOMAIN lines' : j \in Nat \ {0} /\ j + 1 \in DOMAIN lines /\ lines'[j] = lines[j + 1]
      /\ \A j \in DOMAIN lines \ {1} : j \in Nat /\ j - 1 \in DOMAIN lines' /\ lines'[j - 1] = lines[j]
  BY <1>1, Taken
<1>3. \A j \in DOMAIN lines' : \E i \in DOMAIN lines : lines'[j] = lines[i]
  BY <1>2
<1> HIDE DEF h
<1>4. /\ FromNobody(h) => h.kind \in {"DATA", "READY"} /\ h.body \in {"reading", "token"}
      /\ h.body \in {"reading"} \cup Codes <=> h.kind = "DATA"
      /\ h.kind = "OK" \/ h.body = "codes on" => codes
  BY <1>2 DEF Genuine, CodesAreOn, h
<1>5. input = <<>> /\ (stage = "ack" => cmd = "typed") /\ (cmd = "typed" => codes /\ ~torn) /\ (cmd = "enable" => ~torn)
      /\ (cmd # "typed" => outcome # "answered")
  BY <1>1 DEF Stages, CodesAreOn
<1>6. CASE Fails
  <2>1. Types'
    BY <1>1, <1>2, <1>6 DEF Types, Fails
  <2>2. Genuine' /\ CodesAreOn'
    BY <1>1, <1>3, <1>6, Fewer DEF Fails
  <2> QED
    BY <1>6, <2>1, <2>2, Failing DEF Fails
<1>7. CASE cmd = "probe" /\ ~torn /\ h.body \in Codes
           /\ (IF h.body = "codes on" THEN Goto("none", "ready") ELSE Goto("enable", "write"))
           /\ UNCHANGED <<sent, answer, outcome, alone>>
  <2>1. Types'
    BY <1>1, <1>2, <1>7 DEF Types, Goto, Commands
  <2>2. (stage = "ready" \/ cmd = "typed")' => codes
    BY <1>4, <1>7 DEF Goto
  <2>3. Genuine' /\ CodesAreOn'
    BY <1>1, <1>3, <2>2, Fewer
  <2>4. Stages'
    BY <1>1, <1>5, <1>7 DEF Stages, Goto
  <2>5. ASSUME alone PROVE Clear'
    <3>1. cmd = "probe" /\ stage = "read"
      BY <1>1, <1>5, <1>7
    <3>2. ProbeIsLast
      BY <2>5, <3>1 DEF Fenced
    <3>3. lines[1].body \in Codes
      BY <1>7 DEF h
    <3>4. todo = <<>> /\ \A i \in DOMAIN lines : i > 1 => FromNobody(lines[i])
      BY <1>2, <3>2, <3>3 DEF ProbeIsLast
    <3>5. ASSUME NEW j \in DOMAIN lines' PROVE FromNobody(lines'[j])
      <4>1. j \in Nat \ {0} /\ j + 1 \in DOMAIN lines /\ lines'[j] = lines[j + 1]
        BY <1>2
      <4>2. j + 1 > 1
        BY <4>1
      <4> QED
        BY <3>4, <4>1, <4>2
    <3> QED
      BY <1>1, <3>4, <3>5 DEF Clear
  <2>6. alone' => Fenced'
    BY <1>5, <1>7, <2>5 DEF Fenced, Goto
  <2> QED
    BY <2>1, <2>3, <2>4, <2>6
<1>8. CASE cmd = "enable" /\ ~torn /\ h.kind = "OK" /\ Goto("none", "ready")
           /\ UNCHANGED <<sent, answer, outcome, alone>>
  <2>1. Types'
    BY <1>1, <1>2, <1>8 DEF Types, Goto, Commands
  <2>2. Genuine' /\ CodesAreOn'
    BY <1>1, <1>3, <1>4, <1>8, Fewer
  <2>3. Stages'
    BY <1>1, <1>5, <1>8 DEF Stages, Goto
  <2>4. ASSUME alone PROVE Clear'
    BY <1>1, <1>2, <1>4, <1>5, <1>8, <2>4 DEF Fenced, EnableIsAll, Clear, h
  <2>5. alone' => Fenced'
    BY <1>5, <1>8, <2>4 DEF Fenced, Goto
  <2> QED
    BY <2>1, <2>2, <2>3, <2>5
<1>9. CASE cmd = "typed" /\ stage = "read" /\ h.kind = "DATA" /\ answer' = [whole |-> TRUE, line |-> h]
           /\ Goto("typed", "ack") /\ UNCHANGED <<sent, outcome, alone>>
  <2>1. Types'
    BY <1>1, <1>2, <1>9 DEF Types, Goto, Commands
  <2>2. Genuine' /\ CodesAreOn'
    BY <1>1, <1>3, <1>5, <1>9, Fewer
  <2>3. Stages'
    BY <1>1, <1>5, <1>9 DEF Stages, Goto
  <2>4. ASSUME alone PROVE ReadingThenAck' \/ (AckIsAll' /\ Answered')
    <3>1. ReadingThenAck /\ Reading' = Reading /\ todo' = todo /\ Reading.of # Unsolicited
      BY <1>1, <1>9, <2>4, Said DEF Fenced, Reading, Reply, Types
    <3>2. CASE FromNobody(h)
      <4>1. h # Reading
        BY <3>1, <3>2 DEF FromNobody
      <4>2. ASSUME NEW i \in DOMAIN lines, lines[i] = Reading
            PROVE  i - 1 \in DOMAIN lines' /\ lines'[i - 1] = Reading /\ i \in Nat
        BY <1>2, <4>1, <4>2 DEF h
      <4>3. ASSUME NEW j \in DOMAIN todo'
            PROVE  /\ todo'[j].of = sent /\ todo'[j].cmd \in {"typed", "garbage", "ack"}
                   /\ IF todo'[j].cmd = "ack" THEN \E i \in DOMAIN lines' : lines'[i] = Reading
                      ELSE \A i \in DOMAIN lines' : FromNobody(lines'[i])
        BY <1>2, <3>1, <4>2 DEF ReadingThenAck
      <4>4. ASSUME NEW j \in DOMAIN lines'
            PROVE  /\ ~FromNobody(lines'[j]) => lines'[j].kind \in {"OK", "ERROR"} \/ lines'[j] = Reading
                   /\ lines'[j].kind = "OK" =>
                        /\ todo' = <<>>
                        /\ \E i \in DOMAIN lines' : i < j /\ lines'[i] = Reading
                        /\ \A i \in DOMAIN lines' : i > j => FromNobody(lines'[i])
                   /\ lines'[j].kind = "ERROR" =>
                        todo' = <<>> /\ \A i \in DOMAIN lines' : i # j => FromNobody(lines'[i])
                   /\ lines'[j] = Reading => \A i \in DOMAIN lines' : lines'[i] = Reading => i = j
        <5>1. j \in Nat /\ j + 1 \in DOMAIN lines /\ lines'[j] = lines[j + 1]
              /\ \A i \in DOMAIN lines' : i \in Nat /\ i + 1 \in DOMAIN lines /\ lines'[i] = lines[i + 1]
          BY <1>2
        <5>2. ~FromNobody(lines'[j]) => lines'[j].kind \in {"OK", "ERROR"} \/ lines'[j] = Reading
          BY <3>1, <5>1 DEF ReadingThenAck
        <5>3. ASSUME lines'[j].kind = "OK"
              PROVE  /\ todo' = <<>> /\ \E i \in DOMAIN lines' : i < j /\ lines'[i] = Reading
                     /\ \A i \in DOMAIN lines' : i > j => FromNobody(lines'[i])
          <6>1. /\ todo = <<>> /\ \E i \in DOMAIN lines : i < j + 1 /\ lines[i] = Reading
                /\ \A i \in DOMAIN lines : i > j + 1 => FromNobody(lines[i])
            BY <3>1, <5>1, <5>3 DEF ReadingThenAck
          <6>2. PICK i \in DOMAIN lines : i < j + 1 /\ lines[i] = Reading
            BY <6>1
          <6>3. i - 1 \in DOMAIN lines' /\ lines'[i - 1] = Reading /\ i - 1 < j
            BY <4>2, <5>1, <6>2
          <6>4. \A k \in DOMAIN lines' : k > j => FromNobody(lines'[k])
            BY <5>1, <6>1
          <6> QED
            BY <3>1, <6>1, <6>3, <6>4
        <5>4. ASSUME lines'[j].kind = "ERROR"
              PROVE  todo' = <<>> /\ \A i \in DOMAIN lines' : i # j => FromNobody(lines'[i])
          BY <3>1, <5>1, <5>4 DEF ReadingThenAck
        <5>5. ASSUME lines'[j] = Reading, NEW i \in DOMAIN lines', lines'[i] = Reading PROVE i = j
          <6>1. i + 1 = j + 1
            BY <3>1, <5>1, <5>5 DEF ReadingThenAck
          <6> QED
            BY <5>1, <6>1
        <5> QED
          BY <5>2, <5>3, <5>4, <5>5
      <4>5. Len(todo') <= 1
        BY <3>1 DEF ReadingThenAck
      <4> QED
        BY <1>9, <3>1, <4>3, <4>4, <4>5 DEF ReadingThenAck
    <3>3. CASE ~FromNobody(h)
      <4>1. h = Reading
        BY <1>2, <1>9, <3>1, <3>3 DEF ReadingThenAck, h
      <4>2. Len(todo') <= 1 /\ \A j \in DOMAIN todo' : todo'[j].cmd = "ack"
        BY <1>2, <3>1, <3>3 DEF ReadingThenAck, h
      <4>3. ASSUME NEW j \in DOMAIN lines', ~FromNobody(lines'[j])
            PROVE  /\ lines'[j].kind = "OK" /\ todo' = <<>>
                   /\ \A i \in DOMAIN lines' : i > j => FromNobody(lines'[i])
        <5>1. j \in Nat \ {0} /\ j + 1 \in DOMAIN lines /\ lines'[j] = lines[j + 1]
              /\ \A i \in DOMAIN lines' : i \in Nat /\ i + 1 \in DOMAIN lines /\ lines'[i] = lines[i + 1]
          BY <1>2
        <5>2. lines[j + 1] # Reading
          BY <1>2, <3>1, <4>1, <5>1 DEF ReadingThenAck, h
        <5>3. lines[j + 1].kind # "ERROR"
          BY <1>2, <3>1, <3>3, <5>1 DEF ReadingThenAck, h
        <5>4. lines[j + 1].kind = "OK"
          BY <3>1, <4>3, <5>1, <5>2, <5>3 DEF ReadingThenAck
        <5> QED
          BY <3>1, <5>1, <5>4 DEF ReadingThenAck
      <4>4. Answered'
        BY <1>9, <3>1, <4>1 DEF Answered
      <4> QED
        BY <4>2, <4>3, <4>4 DEF AckIsAll
    <3> QED
      BY <3>2, <3>3
  <2>5. alone' => Fenced'
    BY <1>9, <2>4 DEF Fenced, Goto
  <2> QED
    BY <2>1, <2>2, <2>3, <2>5
<1>10. CASE cmd = "typed" /\ stage = "ack" /\ h.kind = "OK" /\ Goto("none", "ready")
            /\ outcome' = "answered" /\ UNCHANGED <<sent, answer, alone>>
  <2>1. Types'
    BY <1>1, <1>2, <1>10 DEF Types, Goto, Commands
  <2>2. Genuine' /\ CodesAreOn'
    BY <1>1, <1>3, <1>4, <1>10, Fewer
  <2>3. Stages'
    BY <1>1, <1>5, <1>10 DEF Stages, Goto
  <2>4. ASSUME alone PROVE Clear' /\ Answered'
    <3>1. ~ReadingThenAck
      <4> SUFFICES ASSUME ReadingThenAck PROVE FALSE
        OBVIOUS
      <4>1. PICK i \in DOMAIN lines : i < 1
        BY <1>2, <1>10 DEF ReadingThenAck, h
      <4>2. DOMAIN lines = 1 .. Len(lines)
        BY LenProperties DEF Types
      <4> QED
        BY <4>1, <4>2
    <3>2. AckIsAll /\ Answered
      BY <1>10, <2>4, <3>1 DEF Fenced
    <3>3. ~FromNobody(h)
      BY <1>4, <1>10
    <3>4. Clear'
      BY <1>1, <1>2, <3>2, <3>3 DEF AckIsAll, Clear, h
    <3>5. Answered'
      BY <1>10, <3>2 DEF Answered, Reading
    <3> QED
      BY <3>4, <3>5
  <2>5. alone' => Fenced'
    BY <1>10, <2>4 DEF Fenced, Goto
  <2> QED
    BY <2>1, <2>2, <2>3, <2>5
<1>11. CASE ReadProbe
  BY <1>1, <1>2, <1>6, <1>7, <1>11 DEF ReadProbe, Codes
<1>12. CASE ReadEnable
  BY <1>1, <1>2, <1>5, <1>6, <1>8, <1>12 DEF ReadEnable
<1>13. CASE ReadPayload
  BY <1>1, <1>2, <1>5, <1>6, <1>9, <1>13 DEF ReadPayload
<1>14. CASE ReadAck
  BY <1>1, <1>2, <1>5, <1>6, <1>10, <1>14 DEF ReadAck
<1> QED
  BY <1>1, <1>11, <1>12, <1>13, <1>14

-----------------------------------------------------------------------------
(***************************************************************************)
(* The other steps.                                                        *)
(***************************************************************************)
LEMMA Saying ==
  ASSUME SessionInv, NEW l \in SessionLine, NEW td \in Seq(Frame), NEW c \in BOOLEAN, Says(l, td, c),
         FromNobody(l) => l.kind \in {"DATA", "READY"} /\ l.body \in {"reading", "token"},
         l.body \in {"reading"} \cup Codes <=> l.kind = "DATA",
         codes => c, l.kind = "OK" \/ l.body = "codes on" => c,
         alone => Fenced'
  PROVE  SessionInv'
<1>1. Types'
  BY TypesEmit DEF SessionInv
<1>2. Genuine'
  BY GenuineEmit DEF SessionInv, Says
<1>3. CodesAreOn'
  BY CodesEmit DEF SessionInv
<1>4. Stages'
  BY DEF SessionInv, Stages, Says, sessionVars
<1>5. alone' = alone
  BY DEF Says, sessionVars
<1> QED
  BY <1>1, <1>2, <1>3, <1>4, <1>5 DEF SessionInv

LEMMA ProcessStep ==
  ASSUME SessionInv, Process
  PROVE  SessionInv'
<1> USE DEF Answers
<1>1. alone => Fenced'
  BY FencedProcess DEF SessionInv
<1>2. PICK f \in Frame : Answers(f)
  BY ProcessSays DEF SessionInv
<1>3. f.of \in 0 .. Stamps - 1 /\ codes \in BOOLEAN
  BY DEF Frame, SessionInv, Types
<1>4. CASE f.cmd = "garbage"
  <2>1. Token(f.of, "ERROR") \in SessionLine /\ Says(Token(f.of, "ERROR"), Tail(todo), codes)
    BY <1>2, <1>3, <1>4, Said
  <2> QED
    BY <1>1, <1>2, <1>3, <2>1, Said, Saying DEF Token, Reply, FromNobody, Codes
<1>5. CASE f.cmd = "probe"
  <2> DEFINE b == IF codes THEN "codes on" ELSE "codes off"
  <2>1. b \in Codes /\ (b = "codes on" => codes)
    BY <1>3 DEF Codes
  <2>2. Reply(f.of, "DATA", b) \in SessionLine /\ Says(Reply(f.of, "DATA", b), Tail(todo), codes)
    BY <1>2, <1>3, <1>5, <2>1, Said
  <2> HIDE DEF b
  <2> QED
    BY <1>1, <1>2, <1>3, <2>1, <2>2, Said, Saying DEF Reply, FromNobody
<1>6. CASE f.cmd = "typed"
  <2>1. PICK td \in Seq(Frame) : Says(Reply(f.of, "DATA", "reading"), td, codes)
    BY <1>2, <1>3, <1>6, AckFirst
  <2>2. Reply(f.of, "DATA", "reading") \in SessionLine
    BY <1>3, Said
  <2> QED
    BY <1>1, <1>3, <2>1, <2>2, Said, Saying DEF Reply, FromNobody
<1>7. CASE f.cmd \in {"enable", "ack"}
  <2>1. Token(f.of, "OK") \in SessionLine /\ Says(Token(f.of, "OK"), Tail(todo), TRUE)
    BY <1>2, <1>3, <1>7, Said
  <2> QED
    BY <1>1, <1>2, <1>3, <2>1, Said, Saying DEF Token, Reply, FromNobody, Codes
<1> QED
  BY <1>2, <1>4, <1>5, <1>6, <1>7

(* Continuous output, power tokens and restarts. *)
LEMMA NobodyStep ==
  ASSUME SessionInv, Chatter \/ PowerCycle
  PROVE  SessionInv'
<1>1. todo \in Seq(Frame) /\ <<>> \in Seq(Frame) /\ codes \in BOOLEAN
  BY DEF SessionInv, Types
<1>2. PICK l \in {Reply(Unsolicited, "DATA", "reading"), Token(Unsolicited, "READY")},
           td \in {todo, <<>>} : Says(l, td, codes)
  BY DEF Chatter, PowerCycle, Emit, Says, circuitVars
<1>3. /\ l \in SessionLine /\ FromNobody(l)
      /\ l.kind \in {"DATA", "READY"} /\ l.body \in {"reading", "token"}
      /\ l.body \in {"reading"} \cup Codes <=> l.kind = "DATA"
      /\ l.kind # "OK" /\ l.body # "codes on"
  <2>1. CASE l = Reply(Unsolicited, "DATA", "reading")
    <3>1. l \in SessionLine /\ l.of = Unsolicited /\ l.kind = "DATA" /\ l.body = "reading"
      BY <2>1, Chat DEF Reply
    <3> QED
      BY <3>1 DEF FromNobody
  <2>2. CASE l = Token(Unsolicited, "READY")
    <3>1. l \in SessionLine /\ l.of = Unsolicited /\ l.kind = "READY" /\ l.body = "token"
      BY <2>2, Chat DEF Token, Reply
    <3> QED
      BY <3>1 DEF FromNobody, Codes
  <2> QED
    BY <1>2, <2>1, <2>2
<1>4. alone => Fenced'
  BY <1>2, <1>3, FencedChat DEF SessionInv
<1> QED
  BY <1>1, <1>2, <1>3, <1>4, Saying

(* A step that changes nothing the invariant is about, but what arrived. *)
LEMMA StillStep ==
  ASSUME SessionInv, rxLines' \in 0 .. Len(lines), UNCHANGED <<lines, torn, circuitVars, sessionVars>>
  PROVE  SessionInv'
<1>1. Types'
  BY DEF SessionInv, Types, circuitVars, sessionVars
<1>2. Genuine' /\ Stages' /\ CodesAreOn'
  BY DEF SessionInv, Genuine, Stages, CodesAreOn, circuitVars, sessionVars
<1>3. alone' => Fenced'
  BY DEF SessionInv, Fenced, Clear, ProbeIsLast, EnableIsAll, ReadingThenAck, AckIsAll, Answered,
         Reading, circuitVars, sessionVars
<1> QED
  BY <1>1, <1>2, <1>3 DEF SessionInv

LEMMA DiscardStep ==
  ASSUME SessionInv, DiscardInput
  PROVE  SessionInv'
<1>1. lines \in Seq(SessionLine) /\ rxLines \in 0 .. Len(lines)
  BY DEF SessionInv, Types
<1>2. /\ lines' = SubSeq(lines, rxLines + 1, Len(lines)) /\ rxLines' = 0 /\ torn' \in BOOLEAN
      /\ stage = "discard" /\ cmd' = "probe" /\ stage' = "write"
      /\ UNCHANGED <<circuitVars, sent, answer, outcome, alone>>
  BY DEF DiscardInput, Drop, Goto, SessionInv, Types
<1>3. /\ lines' \in Seq(SessionLine)
      /\ \A j \in DOMAIN lines' : \E i \in DOMAIN lines : lines'[j] = lines[i]
  BY <1>1, <1>2, DropSeq
<1>4. Types'
  <2>1. rxLines' \in 0 .. Len(lines')
    BY <1>2, <1>3, LenProperties
  <2> QED
    BY <1>2, <1>3, <2>1 DEF SessionInv, Types, Commands, circuitVars
<1>5. Genuine' /\ CodesAreOn'
  BY <1>2, <1>3, Fewer DEF SessionInv, circuitVars
<1>6. Stages'
  BY <1>2 DEF SessionInv, Stages, circuitVars
<1>7. Fenced'
  BY <1>2 DEF Fenced
<1> QED
  BY <1>4, <1>5, <1>6, <1>7 DEF SessionInv

LEMMA StartStep ==
  ASSUME SessionInv, StartTyped
  PROVE  SessionInv'
<1>1. /\ stage = "ready" /\ cmd' = "typed" /\ stage' = "write"
      /\ UNCHANGED <<lines, torn, rxLines, input, todo, codes, sent, answer, outcome, alone>>
  BY DEF StartTyped, Goto, lineVars, circuitVars
<1>2. Types'
  BY <1>1 DEF SessionInv, Types, Commands
<1>3. Genuine' /\ Stages' /\ CodesAreOn'
  BY <1>1 DEF SessionInv, Genuine, Stages, CodesAreOn
<1>4. alone' => Fenced'
  BY <1>1 DEF SessionInv, Fenced, Clear
<1> QED
  BY <1>2, <1>3, <1>4 DEF SessionInv

LEMMA CommandStep ==
  ASSUME SessionInv, WriteCommand
  PROVE  SessionInv'
<1>1. /\ stage = "write" /\ sent' = (sent + 1) % Stamps
      /\ UNCHANGED <<lines, torn, rxLines, todo, codes, answer, alone>>
  BY DEF WriteCommand, lineVars
<1>2. cmd \in Commands
  BY <1>1 DEF SessionInv, Types, Stages
<1>3. sent' \in 0 .. Stamps - 1
  BY <1>1, SessionAssumption DEF SessionInv, Types
<1>4. /\ Append(input, Piece(TRUE)) \in Seq(PieceSet) /\ Append(input, Piece(FALSE)) \in Seq(PieceSet)
      /\ input \in Seq(PieceSet)
  <2>1. Piece(TRUE) \in PieceSet /\ Piece(FALSE) \in PieceSet
    BY <1>2 DEF Piece, PieceSet
  <2> QED
    BY <2>1, AppendSeq DEF SessionInv, Types
<1>5. Genuine' /\ (codes' = codes) /\ (CodesAreOn /\ (stage' = "ready" \/ cmd' = "typed" => codes) => CodesAreOn')
  BY <1>1 DEF SessionInv, Genuine, CodesAreOn
<1>6. CASE input' = Append(input, Piece(TRUE)) /\ stage' = "terminate" /\ UNCHANGED <<cmd, outcome>>
  <2>1. Types'
    BY <1>1, <1>3, <1>4, <1>6 DEF SessionInv, Types
  <2>2. cmd = "typed" => codes
    BY DEF SessionInv, CodesAreOn
  <2>3. Stages'
    <3>1. cmd \in {"enable", "typed"} => input' = <<[cmd |-> cmd, whole |-> TRUE]>>
      <4>1. cmd \in {"enable", "typed"} => input = <<>>
        BY <1>1 DEF SessionInv, Stages
      <4>2. Append(<<>>, Piece(TRUE)) = <<Piece(TRUE)>>
        OBVIOUS
      <4> QED
        BY <1>6, <4>1, <4>2 DEF Piece
    <3> QED
      BY <1>1, <1>2, <1>6, <3>1 DEF SessionInv, Stages, Commands
  <2>4. alone' => Fenced'
    BY <1>1, <1>6 DEF SessionInv, Fenced, Clear
  <2> QED
    BY <1>5, <1>6, <2>1, <2>2, <2>3, <2>4 DEF SessionInv
<1>7. CASE /\ input' \in {input, Append(input, Piece(FALSE)), Append(input, Piece(TRUE))}
           /\ cmd' = "none" /\ stage' = "discard" /\ outcome' = "failed"
  <2>1. Types'
    BY <1>1, <1>3, <1>4, <1>7 DEF SessionInv, Types
  <2> QED
    BY <1>5, <1>7, <2>1, Failing DEF SessionInv
<1> QED
  BY <1>6, <1>7 DEF WriteCommand, Goto

LEMMA TerminatorStep ==
  ASSUME SessionInv, WriteTerminator
  PROVE  SessionInv'
<1> DEFINE f == [of |-> sent, cmd |-> Understood(input)]
<1>1. stage = "terminate" /\ UNCHANGED <<lines, torn, rxLines, codes>>
  BY DEF WriteTerminator, Begin, lineVars
<1>2. /\ todo \in Seq(Frame) /\ <<>> \in Seq(PieceSet) /\ input \in Seq(PieceSet)
      /\ sent \in 0 .. Stamps - 1 /\ cmd \in Commands
  BY <1>1 DEF SessionInv, Types, Stages
<1>3. f \in Frame
  <2>1. CASE Len(input) = 1 /\ input[1].whole
    <3>1. input[1] \in PieceSet
      BY <1>2, <2>1
    <3> QED
      BY <1>2, <2>1, <3>1 DEF Understood, Frame, PieceSet, Commands
  <2>2. CASE ~(Len(input) = 1 /\ input[1].whole)
    BY <1>2, <2>2 DEF Understood, Frame
  <2> QED
    BY <2>1, <2>2
<1>4. cmd \in {"enable", "typed"} => f.cmd \in {cmd, "garbage"}
  <2>1. CASE input = <<>>
    BY <2>1 DEF Understood
  <2>2. CASE input = <<[cmd |-> cmd, whole |-> TRUE]>>
    BY <2>2 DEF Understood
  <2> QED
    BY <1>1, <2>1, <2>2 DEF SessionInv, Stages
<1>5. f.of = sent
  OBVIOUS
<1>6. Terminated => input' = <<>> /\ todo' = Append(todo, f)
  BY DEF Terminated
<1> HIDE DEF f
<1>7. /\ Append(todo, f) \in Seq(Frame) /\ Len(Append(todo, f)) = Len(todo) + 1
      /\ DOMAIN Append(todo, f) = DOMAIN todo \cup {Len(todo) + 1}
      /\ \A j \in DOMAIN todo : Append(todo, f)[j] = todo[j]
      /\ Append(todo, f)[Len(todo) + 1] = f
  BY <1>2, <1>3, AppendSeq
<1>8. Genuine' /\ ((stage' = "ready" \/ cmd' = "typed" => codes) => CodesAreOn')
  BY <1>1 DEF SessionInv, Genuine, CodesAreOn
<1>9. CASE /\ Terminated /\ cmd' = cmd /\ stage' = "wait"
           /\ alone' = (IF cmd = "probe" THEN ~ProbeOutstanding ELSE alone)
           /\ UNCHANGED <<sent, answer, outcome>>
  <2>1. Types'
    BY <1>1, <1>2, <1>6, <1>7, <1>9 DEF SessionInv, Types
  <2>2. cmd = "typed" => codes
    BY DEF SessionInv, CodesAreOn
  <2>3. Stages'
    BY <1>1, <1>2, <1>6, <1>9 DEF SessionInv, Stages, Commands
  <2>4. ASSUME cmd = "probe", alone' PROVE Fenced'
    <3>1. ~ProbeOutstanding
      BY <1>9, <2>4
    <3>2. /\ \A j \in DOMAIN lines : lines[j].body \notin Codes
          /\ \A j \in DOMAIN todo : todo[j].cmd # "probe"
      BY <3>1 DEF ProbeOutstanding, Codes
    <3>3. ProbeIsLast'
      BY <1>1, <1>6, <1>7, <1>9, <3>2 DEF ProbeIsLast
    <3> QED
      BY <1>9, <2>4, <3>3 DEF Fenced
  <2>5. ASSUME cmd \in {"enable", "typed"}, alone'
        PROVE  /\ DOMAIN todo' = {1} /\ Len(todo') = 1 /\ todo'[1] = f
               /\ \A j \in DOMAIN lines' : FromNobody(lines'[j])
    <3>1. Clear
      BY <1>1, <1>9, <2>5 DEF SessionInv, Fenced
    <3>2. Len(todo) = 0 /\ DOMAIN todo = {}
      BY <3>1 DEF Clear
    <3> QED
      BY <1>1, <1>6, <1>7, <1>9, <3>1, <3>2 DEF Clear
  <2>6. ASSUME cmd = "enable", alone' PROVE Fenced'
    <3>1. EnableIsAll'
      <4>1. f.cmd \in {"enable", "garbage"}
        BY <1>4, <2>6
      <4>2. /\ DOMAIN todo' = {1} /\ Len(todo') = 1 /\ todo'[1] = f
            /\ \A j \in DOMAIN lines' : FromNobody(lines'[j])
        BY <2>5, <2>6
      <4>3. Len(todo') <= 1 /\ \A j \in DOMAIN todo' : todo'[j].cmd \in {"enable", "garbage"}
        BY <4>1, <4>2
      <4> QED
        BY <4>2, <4>3 DEF EnableIsAll
    <3> QED
      BY <1>9, <2>6, <3>1 DEF Fenced
  <2>7. ASSUME cmd = "typed", alone' PROVE Fenced'
    <3>1. \A j \in DOMAIN lines' : lines'[j] # Reading' /\ lines'[j].kind \notin {"OK", "ERROR"}
      <4>1. Reading'.of # Unsolicited
        BY <1>2, <1>9, Said DEF Reading, Reply
      <4>2. ASSUME NEW j \in DOMAIN lines' PROVE lines'[j].kind \in {"DATA", "READY"}
        BY <1>1, <2>5, <2>7, <4>2 DEF SessionInv, Genuine
      <4> QED
        BY <2>5, <2>7, <4>1, <4>2 DEF FromNobody
    <3>2. ReadingThenAck'
      <4>1. f.cmd \in {"typed", "garbage"}
        BY <1>4, <2>7
      <4>2. /\ DOMAIN todo' = {1} /\ Len(todo') = 1 /\ todo'[1] = f
            /\ \A j \in DOMAIN lines' : FromNobody(lines'[j])
        BY <2>5, <2>7
      <4>3. Len(todo') <= 1 /\ \A j \in DOMAIN todo' : todo'[j].of = sent' /\ todo'[j].cmd \in {"typed", "garbage"}
        BY <1>5, <1>9, <4>1, <4>2
      <4> QED
        BY <3>1, <4>2, <4>3 DEF ReadingThenAck
    <3> QED
      BY <1>9, <2>7, <3>2 DEF Fenced
  <2>8. alone' => Fenced'
    BY <1>2, <2>4, <2>6, <2>7 DEF Commands
  <2> QED
    BY <1>8, <1>9, <2>1, <2>2, <2>3, <2>8 DEF SessionInv
<1>10. CASE (Terminated \/ UNCHANGED <<input, todo>>) /\ Fails
  <2>1. Types'
    BY <1>1, <1>2, <1>6, <1>7, <1>10 DEF SessionInv, Types, Fails
  <2> QED
    BY <1>8, <1>10, <2>1, Failing DEF Fails
<1> QED
  BY <1>9, <1>10 DEF WriteTerminator, Goto

LEMMA WaitStep ==
  ASSUME SessionInv, WaitHint
  PROVE  SessionInv'
<1>1. /\ stage = "wait" /\ cmd' = cmd /\ stage' = "read"
      /\ UNCHANGED <<lines, torn, rxLines, input, todo, codes, sent, answer, outcome, alone>>
  BY DEF WaitHint, Goto, lineVars, circuitVars
<1>2. Types'
  BY <1>1 DEF SessionInv, Types
<1>3. Genuine' /\ Stages' /\ CodesAreOn'
  BY <1>1 DEF SessionInv, Genuine, Stages, CodesAreOn
<1>4. alone' => Fenced'
  BY <1>1 DEF SessionInv, Fenced, ProbeIsLast, EnableIsAll, ReadingThenAck, Reading
<1> QED
  BY <1>2, <1>3, <1>4 DEF SessionInv

(* Reads and programs that end in an error. *)
LEMMA ErrorStep ==
  ASSUME SessionInv, ReadRejects \/ ReadTimesOut \/ Dies
  PROVE  SessionInv'
<1>1. /\ UNCHANGED <<input, todo, codes, sent, answer, alone>>
      /\ cmd' = "none" /\ stage' = "discard" /\ outcome' = "failed"
  BY DEF ReadRejects, ReadTimesOut, Dies, Fails, circuitVars
<1>2. CASE ReadRejects
  <2>1. lines # <<>> /\ lines' = Tail(lines) /\ torn' = FALSE /\ rxLines > 0 /\ rxLines' = rxLines - 1
    BY <1>2 DEF ReadRejects, Reject
  <2>2. /\ lines' \in Seq(SessionLine) /\ rxLines' \in 0 .. Len(lines')
        /\ \A j \in DOMAIN lines' : j + 1 \in DOMAIN lines /\ lines'[j] = lines[j + 1]
    BY <2>1, Taken DEF SessionInv
  <2>3. Types'
    BY <1>1, <2>1, <2>2 DEF SessionInv, Types
  <2>4. Genuine' /\ CodesAreOn'
    BY <1>1, <2>2, Fewer DEF SessionInv
  <2> QED
    BY <1>1, <2>3, <2>4, Failing
<1>3. CASE ReadTimesOut \/ Dies
  <2>1. UNCHANGED <<lines, rxLines>> /\ torn' \in BOOLEAN
    BY <1>3 DEF ReadTimesOut, Dies, Break, lineVars, SessionInv, Types
  <2>2. Types'
    BY <1>1, <2>1 DEF SessionInv, Types
  <2>3. Genuine' /\ CodesAreOn'
    BY <1>1, <2>1 DEF SessionInv, Genuine, CodesAreOn
  <2> QED
    BY <1>1, <2>2, <2>3, Failing
<1> QED
  BY <1>2, <1>3

LEMMA InvStep == SessionInv /\ [Next]_vars => SessionInv'
<1> SUFFICES ASSUME SessionInv, [Next]_vars PROVE SessionInv'
  OBVIOUS
<1>1. CASE Arrive
  <2>1. rxLines' \in 0 .. Len(lines) /\ UNCHANGED <<lines, torn, circuitVars, sessionVars>>
    BY <1>1 DEF Arrive, lineVars, SessionInv, Types
  <2> QED
    BY <2>1, StillStep
<1>2. CASE UNCHANGED vars
  <2>1. rxLines' \in 0 .. Len(lines) /\ UNCHANGED <<lines, torn, circuitVars, sessionVars>>
    BY <1>2 DEF vars, lineVars, SessionInv, Types
  <2> QED
    BY <2>1, StillStep
<1> QED
  BY <1>1, <1>2, ProcessStep, NobodyStep, DiscardStep, StartStep, CommandStep, TerminatorStep,
     WaitStep, ReadsStep, ErrorStep DEF Next, ProgramStep

LEMMA InvAlways == Spec => []SessionInv
  BY InvInit, InvStep, PTL DEF Spec

-----------------------------------------------------------------------------
(***************************************************************************)
(* The theorems.                                                           *)
(***************************************************************************)
(* A typed query that succeeds returned the whole text of its own reply,   *)
(* when the bootstrap did not run into an answer it cannot tell from its   *)
(* own (read_line twice: payload, then *OK).                               *)
THEOREM OwnReplies == Spec => []OwnReply
<1>1. SessionInv => OwnReply
  <2> SUFFICES ASSUME SessionInv, stage = "ready", outcome = "answered", alone
               PROVE  answer.whole /\ answer.line.of = sent /\ answer.line.body = "reading"
    BY DEF OwnReply
  <2>1. answer = [whole |-> TRUE, line |-> Reply(sent, "DATA", "reading")]
    BY DEF SessionInv, Fenced, Answered, Reading
  <2> QED
    BY <2>1 DEF Reply
<1> QED
  BY <1>1, InvAlways, PTL

(* A bootstrap that succeeded leaves nothing of an earlier run to come, in *)
(* the circuit or on the line, under the same condition.                   *)
THEOREM Fences == Spec => []BootstrapFences
<1>1. SessionInv => BootstrapFences
  BY DEF SessionInv, Stages, Fenced, Clear, BootstrapFences, FromNobody
<1> QED
  BY <1>1, InvAlways, PTL

(* After the bootstrap the circuit acknowledges commands, whatever the     *)
(* bootstrap read: whoever claims the codes are on has them on.            *)
THEOREM CodesOn == Spec => []ReadyMeansCodes
<1>1. SessionInv => ReadyMeansCodes
  BY DEF SessionInv, CodesAreOn, ReadyMeansCodes
<1> QED
  BY <1>1, InvAlways, PTL

=============================================================================
