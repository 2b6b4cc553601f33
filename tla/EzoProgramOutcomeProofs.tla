----------------------- MODULE EzoProgramOutcomeProofs -----------------------
(***************************************************************************)
(* What it means that an example program succeeds, proved for circuits     *)
(* with any settings and any number of options and faults.                 *)
(***************************************************************************)
EXTENDS EzoProgramProofs

-----------------------------------------------------------------------------
(***************************************************************************)
(* The calibration transfer, phase by phase.                               *)
(***************************************************************************)
Exporting == Call("export", program.on, "chunks", "none")

(* The steps left once the calibration is exported, before the next chunk  *)
(* is asked for, while its answer is read, and before the number of chunks *)
(* is asked for.                                                           *)
AtImport == If("apply" \in flags, CalibrationTransferApply(program.on))

AtExport == <<Exporting>> \o AtImport

AtChunk == <<Chunk(Exporting)>> \o AtExport

AtAsk == Ask(program.on, "chunks") \o AtExport

(* The line to the circuit, and the chunks n asked for have been printed.  *)
Sending == line[program.on]

Announced == config[program.on].chunks

Printed(n) == export.printed = [i \in 1 .. n |-> export.first + i - 1]

(* n chunks have been sent, all of them the circuit's.                     *)
Exported(n) == export.next = export.first + n /\ (n = 0 \/ export.next <= Announced + 1)

(* The rest of an answer: one token, or the acknowledgement and *DONE.     *)
Ends(l) ==
  /\ l # <<>> /\ Head(l).kind \in {"OK", "DONE"}
  /\ Tail(l) = <<>> \/ (export.ending = "after" /\ Tail(l) = Line("DONE", "chunk", 0))

(* What may be on the line when a chunk is expected: nothing, or something *)
(* else, or the chunk asked for last.                                      *)
NoChunk == Sending = <<>> \/ Head(Sending).kind # "DATA"

NextChunk ==
  /\ Sending # <<>> /\ Head(Sending).kind = "DATA" /\ Head(Sending).value = export.next - 1
  /\ bus = "uart" => Ends(Tail(Sending))
  /\ Exported(export.asked) /\ Printed(export.asked - 1)

(* Before the export, in it, in an answer, and after it.                   *)
BeforeExport ==
  /\ \E l \in Seq(Looking({program.on})) : todo = l \o AtAsk
  /\ export = NewExport(export.ending, export.first)

InExport ==
  /\ export.asked \in 0 .. Announced /\ known[program.on].chunks = Announced
  /\ \/ /\ todo = AtExport /\ Exported(export.asked) /\ Printed(export.asked)
        /\ bus = "uart" => \/ Sending = <<>>
                           \/ export.ending = "after" /\ Sending = Line("DONE", "chunk", 0)
     \/ /\ todo = AtChunk /\ export.asked > 0
        /\ \/ ~export.saw /\ (NoChunk \/ NextChunk)
           \/ /\ export.saw /\ bus = "uart" /\ Ends(Sending)
              /\ Exported(export.asked) /\ Printed(export.asked)

Settled(l) == \A i \in DOMAIN l : l[i].what = "mode" \/ l[i].kind = "RESET"

AfterExport ==
  /\ Printed(Announced) /\ (Announced = 0 \/ export.first = 1)
  /\ \/ /\ todo = AtImport
        /\ bus = "uart" => Sending = <<>> \/ export.ending = "after"
     \/ /\ todo = Step("result", program.on, "import")
        /\ bus = "uart" /\ export.ending # "after" => Sending = <<>> \/ Settled(Tail(Sending))
     \/ /\ todo = <<>>
        /\ bus = "uart" /\ export.ending # "after" => Settled(Sending)

ExportFields == {"ending", "first", "next", "asked", "saw", "printed"}

Announces ==
  /\ "chunks" \in DOMAIN config[program.on] /\ Announced \in Nat /\ export.first \in 1 .. 2
  /\ bus = "uart" \/ export.first = 1

Transferring ==
  /\ ExportFields \subseteq DOMAIN export
  /\ program.name = "calibration_transfer" /\ (bus = "uart" \/ export.first = 1) =>
       Announces /\ (exit \in {"error", "blocked"} \/ BeforeExport \/ InExport \/ AfterExport)

LEMMA Cons ==
  ASSUME NEW S, NEW e \in S, NEW t \in Seq(S)
  PROVE  LET s == <<e>> \o t IN s \in Seq(S) /\ s # <<>> /\ Head(s) = e /\ Tail(s) = t
<1> DEFINE s == <<e>> \o t
<1>1. <<e>> \in Seq(S) /\ Len(<<e>>) = 1 /\ <<e>>[1] = e
  BY One
<1>2. /\ s \in Seq(S) /\ Len(s) = 1 + Len(t)
      /\ \A i \in 1 .. 1 + Len(t) : s[i] = IF i <= 1 THEN <<e>>[i] ELSE t[i - 1]
  BY <1>1, ConcatProperties
<1> HIDE DEF s
<1>3. Len(t) \in Nat
  BY LenProperties
<1>4. s # <<>>
  BY <1>2, <1>3, EmptySeq
<1>5. s[1] = e
  BY <1>1, <1>2, <1>3
<1>6. Head(s) = e
  BY <1>4, <1>5
<1>7. /\ Tail(s) \in Seq(S) /\ Len(Tail(s)) = Len(s) - 1
      /\ \A i \in 1 .. Len(Tail(s)) : Tail(s)[i] = s[i + 1]
  BY <1>2, <1>4, HeadTailProperties
<1> DEFINE n == Len(t)
           u == Tail(s)
<1>8. Len(u) = n
  BY <1>2, <1>3, <1>7
<1>9. ASSUME NEW i \in 1 .. n PROVE u[i] = t[i]
  <2>1. i + 1 \in 1 .. 1 + n /\ ~(i + 1 <= 1) /\ (i + 1) - 1 = i
    BY <1>3
  <2>2. u[i] = s[i + 1]
    BY <1>7, <1>8
  <2>3. s[i + 1] = t[(i + 1) - 1]
    BY <1>2, <2>1
  <2> QED
    BY <2>1, <2>2, <2>3
<1>10. u = t
  BY <1>7, <1>8, <1>9, SeqEqual
<1> QED
  BY <1>2, <1>4, <1>6, <1>10 DEF s

LEMMA HeadJoint ==
  ASSUME NEW S, NEW s \in Seq(S), s # <<>>, NEW t \in Seq(S)
  PROVE  s \o t # <<>> /\ Head(s \o t) = Head(s) /\ Tail(s \o t) = Tail(s) \o t /\ Tail(s) \in Seq(S)
<1>1. Tail(s) \in Seq(S) /\ Head(s) \in S
  BY HeadTailProperties
<1>2. s = <<Head(s)>> \o Tail(s)
  <2> DEFINE u == <<Head(s)>> \o Tail(s)
  <2>1. u \in Seq(S) /\ u # <<>> /\ Head(u) = Head(s) /\ Tail(u) = Tail(s)
    BY <1>1, Cons
  <2> HIDE DEF u
  <2>2. /\ Len(Tail(s)) = Len(s) - 1 /\ \A i \in 1 .. Len(Tail(s)) : Tail(s)[i] = s[i + 1]
        /\ Len(Tail(u)) = Len(u) - 1 /\ \A i \in 1 .. Len(Tail(u)) : Tail(u)[i] = u[i + 1]
    BY <2>1, HeadTailProperties
  <2>3. Len(s) \in Nat /\ Len(u) \in Nat /\ s[1] = Head(s) /\ u[1] = Head(u)
    BY <2>1, LenProperties
  <2>4. Len(s) = Len(u)
    <3>1. Len(Tail(s)) = Len(Tail(u))
      BY <2>1
    <3>2. Len(s) - 1 = Len(u) - 1
      BY <2>2, <3>1
    <3> QED
      BY <2>3, <3>2
  <2>5. ASSUME NEW i \in 1 .. Len(s) PROVE s[i] = u[i]
    <3>1. CASE i = 1
      BY <2>1, <2>3, <3>1
    <3>2. CASE i # 1
      <4>1. i - 1 \in 1 .. Len(Tail(s)) /\ i - 1 \in 1 .. Len(Tail(u)) /\ i = (i - 1) + 1
        BY <2>2, <2>3, <2>4, <3>2
      <4> QED
        BY <2>1, <2>2, <4>1
    <3> QED
      BY <3>1, <3>2
  <2>6. s = u
    BY <2>1, <2>4, <2>5, SeqEqual
  <2> QED
    BY <2>6 DEF u
<1>3. <<Head(s)>> \in Seq(S)
  BY <1>1, One
<1>4. s \o t = <<Head(s)>> \o (Tail(s) \o t)
  BY <1>1, <1>2, <1>3, ConcatAssociative
<1>5. Tail(s) \o t \in Seq(S)
  BY <1>1, ConcatProperties
<1> QED
  BY <1>1, <1>4, <1>5, Cons

(* The steps of the phases. *)
LEMMA TransferSteps ==
  ASSUME NEW p \in Products, p = program.on
  PROVE  /\ Exporting \in AnyStep /\ Exporting.op = "export" /\ Exporting.on = p
         /\ Exporting.when = "always" /\ Exporting.failing = "stops"
         /\ Chunk(Exporting) \in AnyStep /\ Chunk(Exporting).op = "chunk" /\ Chunk(Exporting).on = p
         /\ Chunk(Exporting).when = "always" /\ Chunk(Exporting).failing = "stops"
<1>1. p \in Words /\ "export" \in Words /\ "chunks" \in Words /\ "none" \in Words
  BY ProductsAreWords, AllWords
<1>2. Exporting \in AnyStep /\ Exporting.op = "export" /\ Exporting.on = p
      /\ Exporting.when = "always" /\ Exporting.failing = "stops"
  BY <1>1, CallIsStep DEF Exporting
<1> QED
  BY <1>2, ChunkIsStep

LEMMA ImportSteps ==
  ASSUME NEW p \in Products, p = program.on
  PROVE  /\ AtImport \in Seq(AnyStep)
         /\ "apply" \notin flags => AtImport = <<>>
         /\ "apply" \in flags =>
              /\ AtImport # <<>> /\ Head(AtImport) \in AnyStep /\ Head(AtImport).op = "tell"
              /\ Head(AtImport).on = p /\ Head(AtImport).what = "import"
              /\ Head(AtImport).when = "always" /\ Head(AtImport).failing = "stops"
              /\ Tail(AtImport) = Step("result", p, "import")
         /\ LET r == Step("result", p, "import") IN
            /\ r \in Seq(AnyStep) /\ r # <<>> /\ Head(r) \in AnyStep /\ Head(r).op = "result"
            /\ Head(r).on = p /\ Head(r).when = "always" /\ Head(r).failing = "stops" /\ Tail(r) = <<>>
<1> DEFINE i == Call("tell", p, "import", "imported")
           r == Call("result", p, "import", "none")
<1>0. /\ "tell" \in Words /\ "result" \in Words /\ "import" \in Words /\ "imported" \in Words
      /\ "none" \in Words
  BY AllWords
<1>1. p \in Words
  BY ProductsAreWords
<1>2. /\ i \in AnyStep /\ i.op = "tell" /\ i.on = p /\ i.what = "import" /\ i.when = "always"
      /\ i.failing = "stops"
  <2>1. "tell" \in Words /\ "import" \in Words /\ "imported" \in Words
    BY <1>0
  <2> QED
    BY <1>1, <2>1, CallIsStep
<1>3. r \in AnyStep /\ r.op = "result" /\ r.on = p /\ r.when = "always" /\ r.failing = "stops"
  <2>1. "result" \in Words /\ "import" \in Words /\ "none" \in Words
    BY <1>0
  <2> QED
    BY <1>1, <2>1, CallIsStep
<1>4. Tell(p, "import", "imported") = <<i>> /\ Step("result", p, "import") = <<r>>
  BY DEF Tell, Step
<1> HIDE DEF i, r
<1>5. <<r>> \in Seq(AnyStep) /\ <<r>> # <<>> /\ Head(<<r>>) = r /\ Tail(<<r>>) = <<>>
  BY <1>3, One
<1>6. LET s == <<i>> \o <<r>> IN s \in Seq(AnyStep) /\ s # <<>> /\ Head(s) = i /\ Tail(s) = <<r>>
  BY <1>2, <1>5, Cons
<1>7. CalibrationTransferApply(p) = <<i>> \o <<r>>
  BY <1>4 DEF CalibrationTransferApply
<1>8. AtImport \in Seq(AnyStep)
  BY <1>6, <1>7, Optional DEF AtImport
<1>9. "apply" \notin flags => AtImport = <<>>
  BY DEF AtImport, If
<1>10. "apply" \in flags => AtImport = <<i>> \o <<r>>
  BY <1>7 DEF AtImport, If
<1> QED
  BY <1>2, <1>3, <1>4, <1>5, <1>6, <1>8, <1>9, <1>10

LEMMA ExportSteps ==
  ASSUME NEW p \in Products, p = program.on
  PROVE  /\ AtExport \in Seq(AnyStep) /\ AtExport # <<>> /\ Head(AtExport) = Exporting /\ Tail(AtExport) = AtImport
         /\ AtChunk \in Seq(AnyStep) /\ AtChunk # <<>> /\ Head(AtChunk) = Chunk(Exporting)
         /\ Tail(AtChunk) = AtExport
         /\ AtAsk \in Seq(AnyStep) /\ AtAsk # <<>> /\ Tail(AtAsk) = AtExport
         /\ Head(AtAsk) \in AsksFor(p, "chunks")
<1>1. Exporting \in AnyStep /\ Chunk(Exporting) \in AnyStep /\ AtImport \in Seq(AnyStep)
  BY TransferSteps, ImportSteps
<1>2. AtExport \in Seq(AnyStep) /\ AtExport # <<>> /\ Head(AtExport) = Exporting /\ Tail(AtExport) = AtImport
  BY <1>1, Cons DEF AtExport
<1>3. /\ AtChunk \in Seq(AnyStep) /\ AtChunk # <<>> /\ Head(AtChunk) = Chunk(Exporting)
      /\ Tail(AtChunk) = AtExport
  BY <1>1, <1>2, Cons DEF AtChunk
<1> DEFINE a == Call("ask", p, "chunks", "none")
<1>4. p \in Words /\ {"ask", "chunks", "none"} \subseteq Words
  BY ProductsAreWords, AllWords
<1>5. /\ a \in AnyStep /\ a.op = "ask" /\ a.on = p /\ a.what = "chunks" /\ a.when = "always"
      /\ a.failing = "stops"
  BY <1>4, CallIsStep
<1>6. AtAsk = <<a>> \o AtExport
  BY DEF AtAsk, Ask, Step
<1> HIDE DEF a
<1>7. AtAsk \in Seq(AnyStep) /\ AtAsk # <<>> /\ Tail(AtAsk) = AtExport /\ Head(AtAsk) = a
  BY <1>2, <1>5, <1>6, Cons
<1> QED
  BY <1>2, <1>3, <1>5, <1>7 DEF AsksFor

(***************************************************************************)
(* One lemma for each phase.                                               *)
(***************************************************************************)
LEMMA TransferContext ==
  ASSUME Typed, program.name = "calibration_transfer", NEW p, p = program.on
  PROVE  /\ program \in Examples /\ p \in Products /\ p \in Words
         /\ p \in DOMAIN config /\ p \in DOMAIN line /\ p \in DOMAIN known
<1>1. program \in Examples
  BY ProgramAssumption DEF Typed, ProgramTypeOK
<1>2. p \in Products
  BY <1>1, ExamplePairs
<1>3. Uses(program.name, p) = {p}
  BY DEF Uses
<1>4. DOMAIN config = {p} /\ DOMAIN line = DOMAIN config /\ DOMAIN known = DOMAIN config
  BY <1>3 DEF Typed, ProgramTypeOK
<1> QED
  BY <1>1, <1>2, <1>4, ProductsAreWords

LEMMA SameSteps ==
  ASSUME [Next]_vars
  PROVE  /\ Exporting' = Exporting /\ AtImport' = AtImport /\ AtExport' = AtExport
         /\ AtChunk' = AtChunk /\ AtAsk' = AtAsk
<1>1. UNCHANGED <<program, flags>>
  BY StepGiven
<1>2. Exporting' = Exporting
  BY <1>1 DEF Exporting
<1>3. AtImport' = AtImport
  BY <1>1 DEF AtImport
<1>4. AtExport' = AtExport
  BY <1>2, <1>3 DEF AtExport
<1> QED
  BY <1>1, <1>2, <1>3, <1>4 DEF AtChunk, AtAsk

(* A program that has ended does nothing more. *)
LEMMA EndedStays ==
  ASSUME Stopped, exit # "running", [Next]_vars
  PROVE  UNCHANGED vars
<1>1. todo = <<>>
  BY DEF Stopped
<1> QED
  BY <1>1 DEF Next, Skip, OpenSession, Discard, Query, Command, ReadOk, SendExport,
     ReadChunkUart, ReadChunkI2c, ImportResultUart, ImportResultI2c, ConvertToCelsius, Decide,
     RaiseFirstError, Finish, Ended, vars, Due

(* The number of chunks a circuit announces does not change. *)
LEMMA EffectOnChunks ==
  ASSUME NEW c, "chunks" \in DOMAIN c, NEW what, what # "chunks", NEW value
  PROVE  "chunks" \in DOMAIN Effect(c, what, value) /\ Effect(c, what, value).chunks = c.chunks
  BY DEF Effect

LEMMA AnnouncedStays ==
  ASSUME Typed, program \in Examples, NEW p \in DOMAIN config, "chunks" \in DOMAIN config[p],
         todo # <<>> /\ Head(todo).op = "tell" => Head(todo).what # "chunks", [Next]_vars
  PROVE  "chunks" \in DOMAIN config'[p] /\ config'[p].chunks = config[p].chunks
<1>1. DOMAIN config'[p] = DOMAIN config[p]
  BY StepConfig
<1>2. CASE \A x \in DOMAIN config[p] : x # "mode" => config'[p][x] = config[p][x]
  BY <1>1, <1>2
<1>3. CASE /\ Due("tell") /\ todo # <<>> /\ Head(todo).op = "tell" /\ Head(todo).on = p
           /\ config'[p] = Effect(config[p], Head(todo).what, Sent(Head(todo)))
  <2>1. PICK c, what, value : c = config[p] /\ what = Head(todo).what /\ value = Sent(Head(todo))
    OBVIOUS
  <2>2. "chunks" \in DOMAIN c /\ what # "chunks" /\ config'[p] = Effect(c, what, value)
    BY <1>3, <2>1
  <2>3. Effect(c, what, value).chunks = c.chunks
    BY <2>2, EffectOnChunks
  <2> QED
    BY <1>1, <2>1, <2>2, <2>3
<1> QED
  BY <1>2, <1>3, SettingStep

(* Looking leaves the export alone. *)
LEMMA LookStep ==
  ASSUME NEW cs, todo # <<>>, Head(todo) \in Looking(cs), exit = "running", Next
  PROVE  /\ UNCHANGED export
         /\ UNCHANGED todo \/ todo' = Tail(todo) \/ (todo' = <<>> /\ exit' = "error")
<1> DEFINE s == Head(todo)
<1>1. s.op \in {"open", "discard", "ask", "tell", "ack", "celsius"} /\ s.failing = "stops"
  BY DEF Looking, Looks
<1>2. Fails => todo' = <<>> /\ exit' = "error"
  BY <1>1 DEF Fails, Stops
<1>3. CASE Skip \/ OpenSession \/ Discard \/ Query \/ ReadOk \/ ConvertToCelsius
  BY <1>2, <1>3 DEF Skip, OpenSession, Discard, Query, ReadOk, ConvertToCelsius, Proceeds
<1>4. CASE Command
  BY <1>2, <1>4 DEF Command, Proceeds
<1>5. CASE ~(Skip \/ OpenSession \/ Discard \/ Query \/ ReadOk \/ ConvertToCelsius \/ Command)
  BY <1>1, <1>5 DEF Next, SendExport, ReadChunkUart, ReadChunkI2c, ImportResultUart, ImportResultI2c,
     Decide, RaiseFirstError, Finish, Ended, Due
<1> QED
  BY <1>3, <1>4, <1>5

LEMMA BeforeExportStep ==
  ASSUME Typed, Steady, program.name = "calibration_transfer", Announces, BeforeExport,
         exit = "running", Next
  PROVE  Announces' /\ (exit' = "error" \/ BeforeExport' \/ InExport')
<1> DEFINE p == program.on
<1>0. PICK q : q = program.on
  OBVIOUS
<1>1. /\ program \in Examples /\ q \in Products /\ q \in Words
      /\ q \in DOMAIN config /\ q \in DOMAIN line /\ q \in DOMAIN known
  BY <1>0, TransferContext
<1>2. AtAsk' = AtAsk /\ AtExport' = AtExport /\ UNCHANGED <<program, bus>>
  BY SameSteps, StepGiven
<1>3. /\ AtAsk \in Seq(AnyStep) /\ AtAsk # <<>> /\ Tail(AtAsk) = AtExport
      /\ Head(AtAsk) \in AsksFor(q, "chunks")
  BY <1>0, <1>1, ExportSteps
<1>4. PICK l \in Seq(Looking({q})) : todo = l \o AtAsk
  BY <1>0 DEF BeforeExport
<1>5. export = NewExport(export.ending, export.first)
  BY DEF BeforeExport
<1>6. CASE l # <<>>
  <2>1. l \in Seq(AnyStep) /\ Head(l) \in Looking({q}) /\ Tail(l) \in Seq(Looking({q}))
    BY <1>4, <1>6, KindsOf, HeadTailProperties
  <2>2. todo # <<>> /\ Head(todo) = Head(l) /\ Tail(todo) = Tail(l) \o AtAsk
    BY <1>3, <1>4, <1>6, <2>1, HeadJoint
  <2>3. /\ UNCHANGED export
        /\ UNCHANGED todo \/ todo' = Tail(todo) \/ (todo' = <<>> /\ exit' = "error")
    BY <2>1, <2>2, LookStep
  <2>4. Head(todo).op = "tell" => Head(todo).what # "chunks"
    BY <2>1, <2>2 DEF Looking, Looks
  <2>5. "chunks" \in DOMAIN config'[q] /\ config'[q].chunks = config[q].chunks
    BY <1>0, <1>1, <2>4, AnnouncedStays DEF Announces
  <2>6. Announces'
    BY <1>0, <1>2, <2>3, <2>5 DEF Announces, Announced
  <2>7. CASE UNCHANGED todo
    BY <1>0, <1>2, <1>4, <1>5, <2>3, <2>6, <2>7 DEF BeforeExport
  <2>8. CASE todo' = Tail(todo)
    BY <1>0, <1>2, <1>5, <2>1, <2>2, <2>3, <2>6, <2>8 DEF BeforeExport
  <2> QED
    BY <2>3, <2>6, <2>7, <2>8
<1>7. CASE l = <<>>
  <2>1. todo = AtAsk
    BY <1>3, <1>4, <1>7, ConcatEmptySeq
  <2> DEFINE s == Head(todo)
  <2>2. s.op = "ask" /\ s.on = q /\ s.what = "chunks" /\ s.failing = "stops" /\ todo # <<>>
        /\ Holds(s.when, s.on)
    BY <1>3, <2>1 DEF AsksFor, Holds
  <2>3. Query
    BY <2>2 DEF Next, Skip, OpenSession, Discard, Command, ReadOk, SendExport,
       ReadChunkUart, ReadChunkI2c, ImportResultUart, ImportResultI2c, ConvertToCelsius, Decide,
       RaiseFirstError, Finish, Ended, Due
  <2>4. Due("ask")
    BY <2>2 DEF Due
  <2>5. bus = "i2c" \/ line[q] = <<>>
    BY <1>1, <2>2, <2>4, AsksInStep
  <2>6. /\ UNCHANGED <<export, config>>
        /\ Announces'
    <3>1. UNCHANGED <<export, config>>
      BY <2>3 DEF Query
    <3> QED
      BY <1>2, <3>1 DEF Announces, Announced
  <2>7. \/ Fails /\ UNCHANGED known
        \/ /\ Proceeds
           /\ known' = [known EXCEPT ![q] = Learnt(known[q], "chunks", Filed(q, "chunks", Answer(q, "chunks")))]
    <3>1. PICK what : what = "chunks"
      OBVIOUS
    <3>2. q = Head(todo).on /\ what = Head(todo).what
      BY <2>2, <3>1
    <3> QED
      BY <2>3, <2>5, <3>1, <3>2, QueryReads
  <2>8. CASE Fails
    BY <2>2, <2>6, <2>8 DEF Fails, Stops
  <2>9. CASE ~Fails
    <3>1. Proceeds /\ known' = [known EXCEPT ![q] = Learnt(known[q], "chunks", Filed(q, "chunks", Answer(q, "chunks")))]
      BY <2>7, <2>9
    <3>2. Filed(q, "chunks", Answer(q, "chunks")) = Announced
      BY <1>0 DEF Filed, Answer, Announced, Announces
    <3>3. known'[q] = Learnt(known[q], "chunks", Announced)
      BY <1>1, <3>1, <3>2
    <3>4. known'[q].chunks = Announced
      BY <3>3, LearntIs
    <3>5. todo' = AtExport
      BY <1>3, <2>1, <3>1 DEF Proceeds
    <3>6. bus = "uart" => line'[q] = <<>>
      <4>1. ASSUME bus = "uart" PROVE Flows(todo, DOMAIN config) /\ InStep(q)
        BY <1>1, <4>1 DEF Steady
      <4>2. ASSUME bus = "uart" PROVE (todo' = <<>> /\ exit' = "error") \/ (Proceeds /\ line'[q] = <<>>)
        BY <1>1, <2>2, <2>3, <4>1, <4>2, QueryTakes
      <4> QED
        BY <3>1, <4>2 DEF Proceeds
    <3>7. /\ export'.asked = 0 /\ export'.next = export'.first + 0 /\ export'.printed = <<>>
          /\ export'.first \in 1 .. 2
      <4>1. export' = NewExport(export.ending, export.first)
        BY <1>5, <2>6
      <4> QED
        BY <4>1 DEF NewExport, Announces
    <3>8. Announced' = Announced /\ Announced \in Nat
      BY <1>2, <2>6 DEF Announced, Announces
    <3>9. <<>> = [i \in 1 .. 0 |-> export'.first + i - 1]
      OBVIOUS
    <3>10. Printed(export.asked)'
      BY <3>7, <3>9 DEF Printed
    <3>11. Exported(export.asked)'
      BY <3>7 DEF Exported
    <3>12. InExport'
      BY <1>0, <1>2, <3>4, <3>5, <3>6, <3>7, <3>8, <3>10, <3>11 DEF InExport, Sending
    <3> QED
      BY <2>6, <3>12
  <2> QED
    BY <2>8, <2>9
<1> QED
  BY <1>6, <1>7

(* A line, alone and before others. *)
LEMMA LineHead ==
  ASSUME NEW kind, NEW what, NEW value
  PROVE  LET l == Line(kind, what, value) IN
         /\ l = <<Head(l)>> /\ l # <<>> /\ Tail(l) = <<>>
         /\ Head(l).kind = kind /\ Head(l).what = what /\ Head(l).value = value
<1> DEFINE r == [kind |-> kind, what |-> what, value |-> value]
<1>1. Line(kind, what, value) = <<r>> /\ r.kind = kind /\ r.what = what /\ r.value = value
  BY DEF Line
<1> HIDE DEF r
<1>2. r \in {r} /\ <<>> \in Seq({r})
  BY EmptySeq
<1>3. LET u == <<r>> \o <<>> IN u # <<>> /\ Head(u) = r /\ Tail(u) = <<>>
  BY <1>2, Cons
<1>4. <<r>> \o <<>> = <<r>>
  BY <1>2, One, ConcatEmptySeq
<1> QED
  BY <1>1, <1>3, <1>4

LEMMA LineThen ==
  ASSUME NEW kind, NEW what, NEW value, NEW l, l = Line(kind, what, value), NEW S, NEW s \in Seq(S)
  PROVE  l \o s # <<>> /\ Head(l \o s) = Head(l) /\ Tail(l \o s) = s
<1>1. l = <<Head(l)>>
  BY LineHead
<1> DEFINE r == Head(l)
<1> HIDE DEF r
<1>2. s \in Seq(S \cup {r}) /\ r \in S \cup {r}
  <2>1. S \subseteq S \cup {r}
    OBVIOUS
  <2> QED
    BY <2>1, SeqMonotonic
<1>3. LET u == <<r>> \o s IN u \in Seq(S \cup {r}) /\ u # <<>> /\ Head(u) = r /\ Tail(u) = s
  BY <1>2, Cons
<1> QED
  BY <1>1, <1>3 DEF r

(* What a circuit answers to Export. *)
LEMMA ExportAnswerIs ==
  ASSUME NEW p
  PROVE  /\ \E S : ExportAnswer(p) \in Seq(S)
         /\ ExportAnswer(p) # <<>> /\ <<>> \o ExportAnswer(p) = ExportAnswer(p)
         /\ bus = "uart" /\ export.next > config[p].chunks => Head(ExportAnswer(p)).kind = "DONE"
         /\ ~(export.next > config[p].chunks) =>
              /\ Head(ExportAnswer(p)).kind = "DATA" /\ Head(ExportAnswer(p)).value = export.next
              /\ bus = "uart" => Ends(Tail(ExportAnswer(p)))
<1> DEFINE chunk == Line("DATA", "chunk", export.next)
           done == Line("DONE", "chunk", 0)
           ok == Line("OK", "chunk", 0)
           none == Line("DATA", "chunk", 0)
           S == {chunk[1], done[1], ok[1], none[1]}
           a == ExportAnswer(p)
<1>1. /\ chunk \in Seq({chunk[1]}) /\ done \in Seq({done[1]}) /\ ok \in Seq({ok[1]})
      /\ none \in Seq({none[1]})
  BY LineIs
<1>2. /\ chunk # <<>> /\ Tail(chunk) = <<>> /\ Head(chunk).kind = "DATA" /\ Head(chunk).value = export.next
      /\ done # <<>> /\ Tail(done) = <<>> /\ Head(done).kind = "DONE"
      /\ ok # <<>> /\ Tail(ok) = <<>> /\ Head(ok).kind = "OK" /\ none # <<>>
  <2>1. PICK next : next = export.next
    OBVIOUS
  <2>2. chunk = Line("DATA", "chunk", next)
    BY <2>1
  <2>3. chunk # <<>> /\ Tail(chunk) = <<>> /\ Head(chunk).kind = "DATA" /\ Head(chunk).value = next
    BY <2>2, LineHead
  <2>4. done # <<>> /\ Tail(done) = <<>> /\ Head(done).kind = "DONE"
    BY LineHead
  <2>5. ok # <<>> /\ Tail(ok) = <<>> /\ Head(ok).kind = "OK"
    BY LineHead
  <2>6. none # <<>>
    BY LineHead
  <2> QED
    BY <2>1, <2>3, <2>4, <2>5, <2>6
<1>3. ASSUME NEW T, NEW s \in Seq(T)
      PROVE  /\ chunk \o s # <<>> /\ Head(chunk \o s) = Head(chunk) /\ Tail(chunk \o s) = s
             /\ ok \o s # <<>> /\ Head(ok \o s) = Head(ok) /\ Tail(ok \o s) = s
  <2>1. PICK l, m, next : l = chunk /\ m = ok /\ next = export.next
    OBVIOUS
  <2>2. l = Line("DATA", "chunk", next) /\ m = Line("OK", "chunk", 0)
    BY <2>1
  <2>3. l \o s # <<>> /\ Head(l \o s) = Head(l) /\ Tail(l \o s) = s
    BY <1>3, <2>2, LineThen
  <2>4. m \o s # <<>> /\ Head(m \o s) = Head(m) /\ Tail(m \o s) = s
    BY <1>3, <2>2, LineThen
  <2> QED
    BY <2>1, <2>3, <2>4
<1>4. a \in {none, done, chunk, chunk \o done, (chunk \o ok) \o done, chunk \o ok}
      /\ (export.next > config[p].chunks => a = IF bus = "i2c" THEN none ELSE done)
      /\ (~(export.next > config[p].chunks) =>
            /\ bus = "i2c" => a = chunk
            /\ bus # "i2c" => \/ a = chunk \o done
                              \/ export.ending = "after" /\ a = (chunk \o ok) \o done
                              \/ a = chunk \o ok)
  BY DEF ExportAnswer
<1> HIDE DEF chunk, done, ok, none, a
<1>5. chunk \in Seq(S) /\ done \in Seq(S) /\ ok \in Seq(S) /\ none \in Seq(S)
  <2>1. /\ {chunk[1]} \subseteq S /\ {done[1]} \subseteq S /\ {ok[1]} \subseteq S /\ {none[1]} \subseteq S
    OBVIOUS
  <2> QED
    BY <1>1, <2>1, SeqMonotonic
<1> HIDE DEF S
<1>6. (chunk \o ok) \o done = chunk \o (ok \o done) /\ ok \o done \in Seq(S)
  BY <1>5, ConcatAssociative, Joint
<1>7. /\ chunk \o done \in Seq(S) /\ chunk \o ok \in Seq(S) /\ chunk \o (ok \o done) \in Seq(S)
  BY <1>5, <1>6, Joint
<1>8. a \in Seq(S)
  BY <1>4, <1>5, <1>6, <1>7
<1>9. /\ chunk \o done # <<>> /\ Head(chunk \o done) = Head(chunk) /\ Tail(chunk \o done) = done
      /\ chunk \o ok # <<>> /\ Head(chunk \o ok) = Head(chunk) /\ Tail(chunk \o ok) = ok
      /\ chunk \o (ok \o done) # <<>> /\ Head(chunk \o (ok \o done)) = Head(chunk)
      /\ Tail(chunk \o (ok \o done)) = ok \o done
      /\ ok \o done # <<>> /\ Head(ok \o done) = Head(ok) /\ Tail(ok \o done) = done
  BY <1>3, <1>5, <1>6
<1>10. a # <<>>
  BY <1>2, <1>4, <1>6, <1>9
<1>11. <<>> \o a = a
  BY <1>8, ConcatEmptySeq
<1>12. Ends(done) /\ Ends(ok) /\ (export.ending = "after" => Ends(ok \o done))
  BY <1>2, <1>9 DEF Ends, done
<1>13. bus = "uart" /\ export.next > config[p].chunks => Head(a).kind = "DONE"
  BY <1>2, <1>4
<1>14. ASSUME ~(export.next > config[p].chunks)
       PROVE  /\ Head(a).kind = "DATA" /\ Head(a).value = export.next
              /\ bus = "uart" => Ends(Tail(a))
  BY <1>2, <1>4, <1>6, <1>9, <1>12, <1>14
<1> QED
  BY <1>8, <1>10, <1>11, <1>13, <1>14 DEF a

(* The chunks printed, and one more. *)
LEMMA OneMore ==
  ASSUME NEW n \in Nat, NEW first \in Nat
  PROVE  Append([i \in 1 .. n |-> first + i - 1], first + n)
           = [i \in 1 .. n + 1 |-> first + i - 1]
<1> DEFINE s == [i \in 1 .. n |-> first + i - 1]
           t == [i \in 1 .. n + 1 |-> first + i - 1]
           u == Append(s, first + n)
<1>1. s \in Seq(Int) /\ Len(s) = n
  <2>1. DOMAIN s = 1 .. n /\ s = [i \in 1 .. n |-> s[i]] /\ \A i \in 1 .. n : s[i] \in Int
    OBVIOUS
  <2> HIDE DEF s
  <2> QED
    BY <2>1, SeqOf
<1>2. t \in Seq(Int) /\ Len(t) = n + 1
  <2>1. DOMAIN t = 1 .. n + 1 /\ t = [i \in 1 .. n + 1 |-> t[i]] /\ \A i \in 1 .. n + 1 : t[i] \in Int
        /\ n + 1 \in Nat
    OBVIOUS
  <2> HIDE DEF t
  <2> QED
    BY <2>1, SeqOf
<1>3. /\ \A i \in 1 .. n : s[i] = first + i - 1
      /\ \A i \in 1 .. n + 1 : t[i] = first + i - 1
  OBVIOUS
<1> HIDE DEF s, t
<1>4. first + n \in Int
  OBVIOUS
<1>5. /\ u \in Seq(Int) /\ Len(u) = n + 1 /\ u[n + 1] = first + n
      /\ \A i \in 1 .. n : u[i] = s[i]
  BY <1>1, <1>4, AppendProperties
<1> HIDE DEF u
<1>6. ASSUME NEW i \in 1 .. n + 1 PROVE u[i] = t[i]
  <2>1. CASE i = n + 1
    BY <1>3, <1>5, <2>1
  <2>2. CASE i # n + 1
    <3>1. i \in 1 .. n
      BY <2>2
    <3> QED
      BY <1>3, <1>5, <3>1
  <2> QED
    BY <2>1, <2>2
<1>7. u = t
  BY <1>2, <1>5, <1>6, SeqEqual
<1> QED
  BY <1>7 DEF s, t, u

(* Where the program is about to ask for a chunk. *)
AboutToExport ==
  /\ todo = AtExport /\ Exported(export.asked) /\ Printed(export.asked)
  /\ export.asked \in 0 .. Announced /\ known[program.on].chunks = Announced
  /\ bus = "uart" => \/ Sending = <<>>
                     \/ export.ending = "after" /\ Sending = Line("DONE", "chunk", 0)

LEMMA ExportingStep ==
  ASSUME Typed, program.name = "calibration_transfer", Announces, ExportFields \subseteq DOMAIN export,
         AboutToExport, exit = "running", Next
  PROVE  /\ Announces' /\ ExportFields \subseteq DOMAIN export'
         /\ exit' = "error" \/ InExport' \/ AfterExport'
<1>0. PICK p : p = program.on
  OBVIOUS
<1>1. /\ program \in Examples /\ p \in Products /\ p \in Words
      /\ p \in DOMAIN config /\ p \in DOMAIN line /\ p \in DOMAIN known
  BY <1>0, TransferContext
<1>2. /\ AtImport' = AtImport /\ AtChunk' = AtChunk /\ UNCHANGED <<program, bus>>
  BY SameSteps, StepGiven
<1>3. todo # <<>> /\ Head(todo) = Exporting /\ Tail(todo) = AtImport
  BY <1>0, <1>1, ExportSteps DEF AboutToExport
<1>4. Exporting.op = "export" /\ Exporting.on = p /\ Exporting.when = "always" /\ Exporting.failing = "stops"
  BY <1>0, <1>1, TransferSteps
<1>5. SendExport
  <2>1. Holds(Head(todo).when, Head(todo).on)
    BY <1>3, <1>4 DEF Holds
  <2> QED
    BY <1>3, <1>4, <2>1 DEF Next, Skip, OpenSession, Discard, Query, Command, ReadOk,
       ReadChunkUart, ReadChunkI2c, ImportResultUart, ImportResultI2c, ConvertToCelsius, Decide,
       RaiseFirstError, Finish, Ended, Due
<1>6. UNCHANGED <<config, known>>
  BY <1>5 DEF SendExport
<1> DEFINE before == IF bus = "i2c" THEN <<>> ELSE line[p]
           sends(answer) == /\ line' = [line EXCEPT ![p] = before \o answer]
                            /\ todo' = <<Chunk(Exporting)>> \o todo
           asks == [export EXCEPT !.asked = @ + 1, !.saw = FALSE]
           more == [asks EXCEPT !.next = IF @ > config[p].chunks THEN @ ELSE @ + 1]
<1>7. \/ export.asked = known[p].chunks /\ Proceeds /\ UNCHANGED <<line, export>>
      \/ export.asked < known[p].chunks /\ sends(ExportAnswer(p)) /\ export' = more
      \/ export.asked < known[p].chunks /\ sends(Line("ERROR", "chunk", 0)) /\ export' = asks
      \/ export.asked < known[p].chunks /\ sends(<<>>) /\ export' = asks
      \/ Fails /\ UNCHANGED <<line, export>>
  BY <1>3, <1>4, <1>5 DEF SendExport, Chunk
<1>8. \A x \in {"ending", "first", "next", "asked", "saw", "printed"} : x \in DOMAIN export
  BY DEF ExportFields
<1>9. /\ DOMAIN asks = DOMAIN export /\ asks.asked = export.asked + 1 /\ asks.saw = FALSE
      /\ asks.first = export.first /\ asks.next = export.next /\ asks.printed = export.printed
      /\ asks.ending = export.ending
  BY <1>8
<1>10. /\ DOMAIN more = DOMAIN export /\ more.asked = export.asked + 1 /\ more.saw = FALSE
       /\ more.first = export.first /\ more.printed = export.printed /\ more.ending = export.ending
       /\ more.next = IF export.next > config[p].chunks THEN export.next ELSE export.next + 1
  BY <1>8, <1>9
<1>11. export' \in {export, asks, more}
  BY <1>7
<1>12. Announces' /\ ExportFields \subseteq DOMAIN export'
  BY <1>2, <1>6, <1>9, <1>10, <1>11 DEF Announces, Announced
<1>13. Announced' = Announced /\ Announced = config[p].chunks /\ Announced \in Nat /\ known'[p].chunks = Announced
  BY <1>0, <1>2, <1>6 DEF Announced, Announces, AboutToExport
<1>14. /\ Exported(export.asked) /\ Printed(export.asked) /\ export.asked \in 0 .. Announced
       /\ export.first \in 1 .. 2
  BY DEF AboutToExport, Announces
<1>15. CASE export.asked = known[p].chunks /\ Proceeds /\ UNCHANGED <<line, export>>
  <2>1. export.asked = Announced
    BY <1>6, <1>13, <1>15
  <2>2. Printed(Announced)'
    BY <1>13, <1>14, <1>15, <2>1 DEF Printed
  <2>3. Announced' = 0 \/ export'.first = 1
    BY <1>13, <1>14, <1>15, <2>1 DEF Exported
  <2>4. todo' = AtImport'
    BY <1>2, <1>3, <1>15 DEF Proceeds
  <2>5. bus' = "uart" => Sending' = <<>> \/ export'.ending = "after"
    BY <1>2, <1>15 DEF AboutToExport, Sending
  <2> QED
    BY <1>12, <2>2, <2>3, <2>4, <2>5 DEF AfterExport
<1>16. CASE Fails
  BY <1>3, <1>4, <1>12, <1>16 DEF Fails, Stops
<1>17. ASSUME NEW answer, export.asked < known[p].chunks, sends(answer),
              export'.asked = export.asked + 1, export'.saw = FALSE, NoChunk' \/ NextChunk'
       PROVE  InExport'
  <2>1. todo' = AtChunk'
    BY <1>2, <1>17 DEF AtChunk, AboutToExport
  <2>2. export'.asked \in 0 .. Announced /\ export'.asked > 0
    BY <1>6, <1>13, <1>14, <1>17
  <2>3. known'[program'.on].chunks = Announced'
    BY <1>0, <1>2, <1>13
  <2> QED
    BY <1>13, <1>17, <2>1, <2>2, <2>3 DEF InExport
<1>18. bus = "i2c" => Sending' = line'[p] /\ before = <<>>
  BY <1>0, <1>2 DEF Sending
<1>19. Sending' = line'[p] /\ Sending = line[p]
  BY <1>0, <1>2 DEF Sending
<1>20. ASSUME NEW S, NEW answer \in Seq(S), sends(answer), bus = "uart", Sending # <<>>
       PROVE  NoChunk'
  <2>1. before = Line("DONE", "chunk", 0)
    BY <1>19, <1>20 DEF AboutToExport
  <2>2. line'[p] = before \o answer
    BY <1>1, <1>20
  <2> HIDE DEF before
  <2>3. Head(before) = Head(line'[p]) /\ Head(before).kind = "DONE"
    <3>1. Head(before).kind = "DONE"
      BY <2>1, LineHead
    <3>2. Head(before \o answer) = Head(before)
      BY <1>20, <2>1, LineThen
    <3> QED
      BY <2>2, <3>1, <3>2
  <2> QED
    BY <1>19, <2>3 DEF NoChunk
<1>21. bus \in {"uart", "i2c"}
  BY DEF Typed, ProgramTypeOK
<1>22. bus = "i2c" \/ Sending = <<>> => before = <<>>
  BY <1>19
<1>23. CASE export.asked < known[p].chunks /\ sends(ExportAnswer(p)) /\ export' = more
  <2> DEFINE a == ExportAnswer(p)
  <2>1. PICK S : a \in Seq(S)
    BY ExportAnswerIs
  <2>2. CASE bus = "uart" /\ Sending # <<>>
    <3>1. NoChunk'
      BY <1>20, <1>23, <2>1, <2>2
    <3> QED
      BY <1>10, <1>12, <1>17, <1>23, <3>1
  <2>3. CASE bus = "i2c" \/ Sending = <<>>
    <3>1. before = <<>> /\ <<>> \o a = a
      BY <1>22, <2>3, ExportAnswerIs
    <3>2. line'[p] = a
      <4> HIDE DEF a, before
      <4> QED
        BY <1>1, <1>23, <3>1 DEF a
    <3>3. CASE export.next > config[p].chunks
      <4>1. bus = "uart"
        <5>1. ASSUME bus = "i2c" PROVE FALSE
          <6>1. export.first = 1
            BY <5>1 DEF Announces
          <6> QED
            BY <1>6, <1>13, <1>14, <1>23, <3>3, <6>1 DEF Exported
        <5> QED
          BY <1>21, <5>1
      <4>2. Head(a).kind = "DONE"
        BY <3>3, <4>1, ExportAnswerIs
      <4>3. NoChunk'
        BY <1>19, <3>2, <4>2 DEF NoChunk
      <4> QED
        BY <1>10, <1>12, <1>17, <1>23, <4>3
    <3>4. CASE ~(export.next > config[p].chunks)
      <4>1. /\ Head(a).kind = "DATA" /\ Head(a).value = export.next /\ a # <<>>
            /\ bus = "uart" => Ends(Tail(a))
        BY <3>4, ExportAnswerIs
      <4> HIDE DEF a, before
      <4>2. /\ export'.next = export.next + 1 /\ export'.asked = export.asked + 1
            /\ export'.first = export.first /\ export'.printed = export.printed
            /\ export'.ending = export.ending
        BY <1>10, <1>23, <3>4
      <4>3. export.next \in Nat /\ export.next <= Announced
        BY <1>13, <1>14, <3>4 DEF Exported
      <4>4. Head(Sending').value = export'.next - 1 /\ Head(Sending').kind = "DATA" /\ Sending' # <<>>
        BY <1>19, <3>2, <4>1, <4>2, <4>3
      <4>5. bus' = "uart" => Ends(Tail(Sending))'
        BY <1>2, <1>19, <3>2, <4>1, <4>2 DEF Ends
      <4>6. Exported(export.asked)'
        <5>1. export'.next = export'.first + export'.asked
          BY <1>14, <4>2, <4>3 DEF Exported
        <5>2. export'.next <= Announced' + 1
          BY <1>13, <4>2, <4>3
        <5> QED
          BY <5>1, <5>2 DEF Exported
      <4>7. Printed(export.asked - 1)'
        <5>1. export'.asked - 1 = export.asked
          BY <1>14, <4>2
        <5> QED
          BY <1>14, <4>2, <5>1 DEF Printed
      <4>8. NextChunk'
        BY <4>4, <4>5, <4>6, <4>7 DEF NextChunk
      <4> QED
        BY <1>10, <1>12, <1>17, <1>23, <4>8 DEF a
    <3> QED
      BY <3>3, <3>4
  <2> QED
    BY <1>21, <2>2, <2>3
<1>24. CASE export.asked < known[p].chunks /\ sends(Line("ERROR", "chunk", 0)) /\ export' = asks
  <2> DEFINE a == Line("ERROR", "chunk", 0)
  <2>1. a \in Seq({a[1]}) /\ <<>> \o a = a /\ Head(a).kind = "ERROR"
    BY LineIs, LineHead
  <2> HIDE DEF a
  <2>2. CASE bus = "uart" /\ Sending # <<>>
    <3>1. NoChunk'
      BY <1>20, <1>24, <2>1, <2>2 DEF a
    <3> QED
      BY <1>9, <1>12, <1>17, <1>24, <3>1
  <2>3. CASE bus = "i2c" \/ Sending = <<>>
    <3>1. before = <<>>
      BY <1>22, <2>3
    <3> HIDE DEF before
    <3>2. line'[p] = a
      BY <1>1, <1>24, <2>1, <3>1 DEF a
    <3>3. NoChunk'
      BY <1>19, <2>1, <3>2 DEF NoChunk
    <3> QED
      BY <1>9, <1>12, <1>17, <1>24, <3>3
  <2> QED
    BY <1>21, <2>2, <2>3
<1>25. CASE export.asked < known[p].chunks /\ sends(<<>>) /\ export' = asks
  <2>1. <<>> \in Seq({}) /\ <<>> \o <<>> = <<>>
    BY EmptySeq, ConcatEmptySeq
  <2>2. CASE bus = "uart" /\ Sending # <<>>
    <3>1. NoChunk'
      BY <1>20, <1>25, <2>1, <2>2
    <3> QED
      BY <1>9, <1>12, <1>17, <1>25, <3>1
  <2>3. CASE bus = "i2c" \/ Sending = <<>>
    <3>1. before = <<>>
      BY <1>22, <2>3
    <3> HIDE DEF before
    <3>2. line'[p] = <<>>
      BY <1>1, <1>25, <2>1, <3>1
    <3>3. NoChunk'
      BY <1>19, <3>2 DEF NoChunk
    <3> QED
      BY <1>9, <1>12, <1>17, <1>25, <3>3
  <2> QED
    BY <1>21, <2>2, <2>3
<1> QED
  BY <1>7, <1>12, <1>15, <1>16, <1>23, <1>24, <1>25

(* Where the program is about to read the answer with a chunk. *)
AboutToRead ==
  /\ todo = AtChunk /\ export.asked > 0
  /\ export.asked \in 0 .. Announced /\ known[program.on].chunks = Announced
  /\ \/ ~export.saw /\ (NoChunk \/ NextChunk)
     \/ /\ export.saw /\ bus = "uart" /\ Ends(Sending)
        /\ Exported(export.asked) /\ Printed(export.asked)

LEMMA PrintedOneMore ==
  ASSUME Announces, ExportFields \subseteq DOMAIN export, NextChunk, export.asked \in 1 .. Announced,
         Prints(Head(Sending).value)
  PROVE  /\ DOMAIN export' = DOMAIN export
         /\ export'.saw = TRUE /\ export'.asked = export.asked /\ export'.next = export.next
         /\ export'.first = export.first /\ export'.ending = export.ending
         /\ export'.printed = [i \in 1 .. export.asked |-> export.first + i - 1]
<1>1. \A x \in {"ending", "first", "next", "asked", "saw", "printed"} : x \in DOMAIN export
  BY DEF ExportFields
<1>2. PICK value : value = Head(Sending).value
  OBVIOUS
<1>3. export' = [export EXCEPT !.saw = TRUE, !.printed = Append(export.printed, value)]
  BY <1>2 DEF Prints
<1>4. /\ DOMAIN export' = DOMAIN export
      /\ export'.saw = TRUE /\ export'.asked = export.asked /\ export'.next = export.next
      /\ export'.first = export.first /\ export'.ending = export.ending
      /\ export'.printed = Append(export.printed, value)
  BY <1>1, <1>3
<1>5. PICK n \in Nat, first \in Nat : n + 1 = export.asked /\ first = export.first
  <2>1. export.asked - 1 \in Nat /\ export.asked = (export.asked - 1) + 1 /\ export.first \in Nat
    BY DEF Announces
  <2> QED
    BY <2>1
<1>6. value = first + n
  BY <1>2, <1>5 DEF NextChunk, Exported, Announces
<1>7. export.printed = [i \in 1 .. n |-> first + i - 1]
  <2>1. export.asked - 1 = n
    BY <1>5
  <2> QED
    BY <1>5, <2>1 DEF NextChunk, Printed
<1>8. Append(export.printed, value) = [i \in 1 .. n + 1 |-> first + i - 1]
  BY <1>6, <1>7, OneMore
<1> QED
  BY <1>4, <1>5, <1>8

LEMMA ReadingStep ==
  ASSUME Typed, program.name = "calibration_transfer", Announces, ExportFields \subseteq DOMAIN export,
         AboutToRead, exit = "running", Next
  PROVE  /\ Announces' /\ ExportFields \subseteq DOMAIN export'
         /\ exit' = "error" \/ InExport'
<1>0. PICK p : p = program.on
  OBVIOUS
<1>1. /\ program \in Examples /\ p \in Products /\ p \in Words
      /\ p \in DOMAIN config /\ p \in DOMAIN line /\ p \in DOMAIN known
  BY <1>0, TransferContext
<1>2. /\ AtExport' = AtExport /\ AtChunk' = AtChunk /\ UNCHANGED <<program, bus>>
  BY SameSteps, StepGiven
<1>3. todo # <<>> /\ Head(todo) = Chunk(Exporting) /\ Tail(todo) = AtExport
  BY <1>0, <1>1, ExportSteps DEF AboutToRead
<1>4. /\ Chunk(Exporting).op = "chunk" /\ Chunk(Exporting).on = p /\ Chunk(Exporting).when = "always"
      /\ Chunk(Exporting).failing = "stops"
  BY <1>0, <1>1, TransferSteps
<1>5. ReadChunkUart \/ ReadChunkI2c
  <2>1. Holds(Head(todo).when, Head(todo).on)
    BY <1>3, <1>4 DEF Holds
  <2> QED
    BY <1>3, <1>4, <2>1 DEF Next, Skip, OpenSession, Discard, Query, Command, ReadOk,
       SendExport, ImportResultUart, ImportResultI2c, ConvertToCelsius, Decide,
       RaiseFirstError, Finish, Ended, Due
<1>6. UNCHANGED <<config, known>>
  BY <1>5 DEF ReadChunkUart, ReadChunkI2c
<1>7. Fails => todo' = <<>> /\ exit' = "error"
  BY <1>3, <1>4 DEF Fails, Stops
<1>8. /\ export.asked \in 1 .. Announced /\ Announced \in Nat
      /\ Sending = line[p] /\ Sending' = line'[p]
  BY <1>0, <1>2 DEF AboutToRead, Announces, Sending
<1>9. ASSUME UNCHANGED export
      PROVE  Announces' /\ ExportFields \subseteq DOMAIN export'
  BY <1>2, <1>6, <1>9 DEF Announces, Announced
<1>10. Announced' = Announced /\ known'[program'.on].chunks = Announced'
  BY <1>0, <1>2, <1>6 DEF Announced, AboutToRead
<1>11. ASSUME NextChunk, Prints(Head(Sending).value)
       PROVE  /\ Announces' /\ ExportFields \subseteq DOMAIN export'
              /\ export'.saw = TRUE /\ export'.asked = export.asked /\ export'.ending = export.ending
              /\ Exported(export.asked)' /\ Printed(export.asked)'
  <2>1. /\ DOMAIN export' = DOMAIN export
        /\ export'.saw = TRUE /\ export'.asked = export.asked /\ export'.next = export.next
        /\ export'.first = export.first /\ export'.ending = export.ending
        /\ export'.printed = [i \in 1 .. export.asked |-> export.first + i - 1]
    BY <1>8, <1>11, PrintedOneMore
  <2>2. Announces'
    BY <1>2, <1>6, <2>1 DEF Announces, Announced
  <2>3. Exported(export.asked)'
    BY <1>10, <1>11, <2>1 DEF NextChunk, Exported
  <2>4. Printed(export.asked)'
    BY <2>1 DEF Printed
  <2> QED
    BY <2>1, <2>2, <2>3, <2>4
<1>12. CASE ReadChunkI2c
  <2>1. bus = "i2c"
    BY <1>12 DEF ReadChunkI2c
  <2>2. CASE Sending # <<>> /\ Sending[1].kind = "DATA"
    <3>1. Prints(Sending[1].value) /\ Proceeds
      BY <1>3, <1>4, <1>8, <1>12, <2>2 DEF ReadChunkI2c
    <3>2. Head(Sending) = Sending[1]
      BY <2>2
    <3>3. NextChunk
      BY <2>1, <2>2, <3>2 DEF AboutToRead, NoChunk
    <3>4. todo' = AtExport'
      BY <1>2, <1>3, <3>1 DEF Proceeds
    <3> QED
      BY <1>2, <1>8, <1>10, <1>11, <2>1, <3>1, <3>2, <3>3, <3>4 DEF InExport
  <2>3. CASE ~(Sending # <<>> /\ Sending[1].kind = "DATA")
    <3>1. Fails /\ UNCHANGED export
      BY <1>3, <1>4, <1>8, <1>12, <2>3 DEF ReadChunkI2c
    <3> QED
      BY <1>7, <1>9, <3>1
  <2> QED
    BY <2>2, <2>3
<1>13. CASE ReadChunkUart
  <2>1. bus = "uart" /\ bus' = "uart"
    BY <1>2, <1>13 DEF ReadChunkUart
  <2>2. \/ line[p] = <<>> /\ Fails /\ UNCHANGED <<line, export>>
        \/ /\ line[p] # <<>> /\ line' = [line EXCEPT ![p] = Tail(@)]
           /\ \/ Head(line[p]).kind = "DATA" /\ Prints(Head(line[p]).value) /\ UNCHANGED <<todo, exit, failed>>
              \/ Head(line[p]).kind # "DATA" /\ Answered(Head(line[p])) /\ Proceeds /\ UNCHANGED export
              \/ Head(line[p]).kind # "DATA" /\ ~Answered(Head(line[p])) /\ Fails /\ UNCHANGED export
    BY <1>3, <1>4, <1>13 DEF ReadChunkUart
  <2>3. CASE Fails /\ UNCHANGED export
    BY <1>7, <1>9, <2>3
  <2>4. CASE line[p] # <<>> /\ line' = [line EXCEPT ![p] = Tail(@)]
    <3>1. Sending' = Tail(Sending) /\ Sending # <<>>
      BY <1>1, <1>8, <2>4
    <3>2. CASE Head(line[p]).kind = "DATA" /\ Prints(Head(line[p]).value) /\ UNCHANGED <<todo, exit, failed>>
      <4>1. ~Ends(Sending)
        BY <1>8, <3>2 DEF Ends
      <4>2. NextChunk
        BY <1>8, <3>1, <3>2, <4>1 DEF AboutToRead, NoChunk
      <4>3. Ends(Tail(Sending))
        BY <2>1, <4>2 DEF NextChunk
      <4>4. Prints(Head(Sending).value)
        BY <1>8, <3>2
      <4>5. Ends(Sending)'
        BY <1>11, <3>1, <4>2, <4>3, <4>4 DEF Ends
      <4>6. todo' = AtChunk'
        BY <1>2, <3>2 DEF AboutToRead
      <4>7. /\ Announces' /\ ExportFields \subseteq DOMAIN export'
            /\ export'.saw = TRUE /\ export'.asked = export.asked
            /\ Exported(export.asked)' /\ Printed(export.asked)'
        BY <1>11, <4>2, <4>4
      <4>8. export'.asked \in 0 .. Announced' /\ export'.asked > 0
        BY <1>8, <1>10, <4>7
      <4>9. InExport'
        BY <1>10, <2>1, <4>5, <4>6, <4>7, <4>8 DEF InExport
      <4> QED
        BY <4>7, <4>9
    <3>3. CASE Head(line[p]).kind # "DATA" /\ Answered(Head(line[p])) /\ Proceeds /\ UNCHANGED export
      <4>1. export.saw
        BY <3>3 DEF Answered
      <4>2. Ends(Sending) /\ Exported(export.asked) /\ Printed(export.asked)
        BY <4>1 DEF AboutToRead
      <4>3. todo' = AtExport'
        BY <1>2, <1>3, <3>3 DEF Proceeds
      <4>4. Sending' = <<>> \/ (export'.ending = "after" /\ Sending' = Line("DONE", "chunk", 0))
        BY <3>1, <3>3, <4>2 DEF Ends
      <4>5. Exported(export.asked)' /\ Printed(export.asked)'
        BY <1>10, <3>3, <4>2 DEF Exported, Printed
      <4> QED
        BY <1>8, <1>9, <1>10, <2>1, <3>3, <4>3, <4>4, <4>5 DEF InExport
    <3>4. CASE Head(line[p]).kind # "DATA" /\ ~Answered(Head(line[p])) /\ Fails /\ UNCHANGED export
      BY <1>7, <1>9, <3>4
    <3> QED
      BY <2>2, <2>4, <3>2, <3>3, <3>4
  <2> QED
    BY <2>2, <2>3, <2>4
<1> QED
  BY <1>5, <1>12, <1>13

(* The result of an import is awaited with at most a restart behind it. *)
LEMMA RestartSettled ==
  /\ Settled(<<>>) /\ \A kind, what, value : Settled(Tail(Line(kind, what, value)))
  /\ \A what, value : Settled(Tail(Line("OK", what, value) \o Line("RESET", what, value)))
<1>1. Settled(<<>>)
  BY EmptySeq DEF Settled
<1>2. ASSUME NEW kind, NEW what, NEW value PROVE Settled(Tail(Line(kind, what, value)))
  <2>1. Tail(Line(kind, what, value)) = <<>>
    BY LineIs
  <2> QED
    BY <2>1 DEF Settled
<1>3. ASSUME NEW what, NEW value
      PROVE  Settled(Tail(Line("OK", what, value) \o Line("RESET", what, value)))
  <2>1. PICK reset : reset = Line("RESET", what, value)
    OBVIOUS
  <2>2. reset \in Seq({reset[1]}) /\ Len(reset) = 1 /\ reset[1].kind = "RESET"
    <3>1. Line("RESET", what, value) \in Seq({Line("RESET", what, value)[1]})
      BY LineIs
    <3>2. Len(Line("RESET", what, value)) = 1 /\ Line("RESET", what, value)[1].kind = "RESET"
      BY LineIs
    <3> QED
      BY <2>1, <3>1, <3>2
  <2>3. Tail(Line("OK", what, value) \o reset) = reset
    <3>1. PICK ok : ok = Line("OK", what, value)
      OBVIOUS
    <3>2. PICK S : S = {reset[1]}
      OBVIOUS
    <3>3. reset \in Seq(S)
      BY <2>2, <3>2
    <3>4. Tail(ok \o reset) = reset
      BY <3>1, <3>3, LineThen
    <3> QED
      BY <3>1, <3>4
  <2>4. DOMAIN reset = {1}
    BY <2>2
  <2>5. Settled(reset)
    BY <2>2, <2>4 DEF Settled
  <2> QED
    BY <2>1, <2>3, <2>5
<1> QED
  BY <1>1, <1>2, <1>3

LEMMA AfterExportStep ==
  ASSUME Typed, program.name = "calibration_transfer", Announces, AfterExport, exit = "running", Next
  PROVE  /\ Announces' /\ UNCHANGED export
         /\ exit' = "error" \/ AfterExport'
<1>0. PICK p : p = program.on
  OBVIOUS
<1>1. /\ program \in Examples /\ p \in Products /\ p \in Words
      /\ p \in DOMAIN config /\ p \in DOMAIN line /\ p \in DOMAIN known
  BY <1>0, TransferContext
<1>2. /\ AtImport' = AtImport /\ UNCHANGED <<program, bus>>
  BY SameSteps, StepGiven
<1> DEFINE r == Step("result", p, "import")
<1>3. /\ "apply" \notin flags => AtImport = <<>>
      /\ "apply" \in flags =>
           /\ AtImport # <<>> /\ Head(AtImport).op = "tell"
           /\ Head(AtImport).on = p /\ Head(AtImport).what = "import"
           /\ Head(AtImport).when = "always" /\ Head(AtImport).failing = "stops"
           /\ Tail(AtImport) = r
      /\ r # <<>> /\ Head(r).op = "result"
      /\ Head(r).on = p /\ Head(r).when = "always" /\ Head(r).failing = "stops" /\ Tail(r) = <<>>
  BY <1>0, <1>1, ImportSteps
<1>4. Sending = line[p] /\ Sending' = line'[p] /\ Step("result", program.on, "import") = r
  BY <1>0, <1>2 DEF Sending
<1> HIDE DEF r
<1>5. (todo = AtImport /\ AtImport # <<>>) \/ todo = r \/ todo = <<>>
  BY <1>4 DEF AfterExport
<1>6. UNCHANGED export
  <2>1. todo # <<>> => Head(todo).op \in {"tell", "result"}
    BY <1>3, <1>5
  <2> QED
    BY <2>1 DEF Next, Skip, OpenSession, Discard, Query, Command, ReadOk, SendExport,
       ReadChunkUart, ReadChunkI2c, ImportResultUart, ImportResultI2c, ConvertToCelsius, Decide,
       RaiseFirstError, Finish, Ended, vars, Due
<1>7. Announced' = Announced /\ Announces'
  <2>1. Head(todo).op = "tell" /\ todo # <<>> => Head(todo).what = "import"
    BY <1>3, <1>5
  <2>2. "chunks" \in DOMAIN config'[p] /\ config'[p].chunks = config[p].chunks
    BY <1>0, <1>1, <2>1, AnnouncedStays DEF Announces
  <2> QED
    BY <1>0, <1>2, <1>6, <2>2 DEF Announces, Announced
<1>8. Printed(Announced)' /\ (Announced' = 0 \/ export'.first = 1)
  BY <1>6, <1>7 DEF AfterExport, Printed
<1>9. Fails /\ todo # <<>> => exit' = "error"
  BY <1>3, <1>5 DEF Fails, Stops
<1>10. CASE todo = AtImport /\ AtImport # <<>>
  <2>1. Head(todo).op = "tell" /\ Holds(Head(todo).when, Head(todo).on) /\ todo # <<>>
    BY <1>3, <1>10 DEF Holds
  <2>2. Command
    BY <2>1 DEF Next, Skip, OpenSession, Discard, Query, ReadOk, SendExport,
       ReadChunkUart, ReadChunkI2c, ImportResultUart, ImportResultI2c, ConvertToCelsius, Decide,
       RaiseFirstError, Finish, Ended, Due
  <2>3. Fails \/ Proceeds
    BY <2>2 DEF Command
  <2>4. Proceeds => todo' = r
    BY <1>3, <1>10 DEF Proceeds
  <2> DEFINE before == IF bus = "i2c" THEN <<>> ELSE line[p]
             ok == Line("OK", "import", "none")
             reset == Line("RESET", "import", "none")
  <2>5. \E l \in {<<>>, ok, ok \o reset, Line("ERROR", "import", "none"), Line("WAKE", "import", "none")} :
          (bus = "uart" => line' = [line EXCEPT ![p] = before \o l])
    <3>1. \E l : /\ line' = [line EXCEPT ![p] = before \o l]
                 /\ \/ l \in Acknowledged(p, "import", Sent(Head(todo)))
                    \/ l \in {<<>>, Line("ERROR", "import", "none"), Line("WAKE", "import", "none")}
      <4>1. Head(todo).on = p /\ Head(todo).what = "import"
        BY <1>3, <1>10
      <4> QED
        BY <2>2, <4>1 DEF Command
    <3>2. bus = "uart" => Acknowledged(p, "import", Sent(Head(todo))) = {ok, ok \o reset}
      BY DEF Acknowledged
    <3> QED
      BY <3>1, <3>2
  <2>6. ASSUME bus' = "uart", export'.ending # "after" PROVE Settled(Tail(Sending'))
    <3>1. Sending = <<>> /\ bus = "uart"
      <4>1. todo # r /\ todo # <<>>
        BY <1>3, <2>1
      <4> QED
        BY <1>2, <1>4, <1>6, <2>6, <4>1 DEF AfterExport
    <3>2. before = <<>>
      BY <1>4, <3>1
    <3>3. PICK l \in {<<>>, ok, ok \o reset, Line("ERROR", "import", "none"), Line("WAKE", "import", "none")} :
            line'[p] = <<>> \o l
      BY <1>1, <2>5, <3>1, <3>2
    <3>4. <<>> \o l = l
      <4>1. /\ <<>> \o <<>> = <<>> /\ <<>> \o ok = ok
            /\ \A kind \in {"ERROR", "WAKE"} :
                 <<>> \o Line(kind, "import", "none") = Line(kind, "import", "none")
        <5>1. <<>> \o <<>> = <<>>
          BY EmptySeq, ConcatEmptySeq
        <5>2. <<>> \o ok = ok
          BY LineIs
        <5>3. ASSUME NEW kind \in {"ERROR", "WAKE"}
              PROVE  <<>> \o Line(kind, "import", "none") = Line(kind, "import", "none")
          BY LineIs
        <5> QED
          BY <5>1, <5>2, <5>3
      <4>2. <<>> \o (ok \o reset) = ok \o reset
        <5>1. ok \in Seq({ok[1]}) /\ reset \in Seq({reset[1]})
          BY LineIs
        <5>2. PICK S : S = {ok[1], reset[1]}
          OBVIOUS
        <5> HIDE DEF ok, reset
        <5>3. ok \in Seq(S) /\ reset \in Seq(S)
          BY <5>1, <5>2, SeqMonotonic
        <5>4. ok \o reset \in Seq(S)
          BY <5>3, Joint
        <5> QED
          BY <5>4, ConcatEmptySeq
      <4> QED
        BY <3>3, <4>1, <4>2
    <3>5. Settled(Tail(l)) \/ l = <<>>
      BY <3>3, RestartSettled
    <3>6. Tail(<<>>) = <<>>
      OBVIOUS
    <3> QED
      BY <1>4, <3>3, <3>4, <3>5, <3>6, RestartSettled
  <2>7. Proceeds => AfterExport'
    BY <1>2, <1>4, <1>8, <2>4, <2>6 DEF AfterExport, r
  <2> QED
    BY <1>6, <1>7, <1>9, <2>1, <2>3, <2>7
<1>11. CASE todo = r
  <2>1. Head(todo).op = "result" /\ Holds(Head(todo).when, Head(todo).on) /\ todo # <<>>
        /\ Head(todo).on = p /\ Tail(todo) = <<>>
    BY <1>3, <1>11 DEF Holds
  <2>2. ImportResultUart \/ ImportResultI2c
    BY <2>1 DEF Next, Skip, OpenSession, Discard, Query, Command, ReadOk, SendExport,
       ReadChunkUart, ReadChunkI2c, ConvertToCelsius, Decide, RaiseFirstError, Finish, Ended, Due
  <2>3. Fails \/ Proceeds
    BY <2>2 DEF ImportResultUart, ImportResultI2c
  <2>4. Proceeds => todo' = <<>>
    BY <2>1 DEF Proceeds
  <2>5. bus = "uart" => line' = [line EXCEPT ![p] = IF @ = <<>> THEN @ ELSE Tail(@)]
    BY <2>1, <2>2 DEF ImportResultUart, ImportResultI2c
  <2>6. ASSUME bus' = "uart", export'.ending # "after" PROVE Settled(Sending')
    <3>1. bus = "uart" /\ (Sending = <<>> \/ Settled(Tail(Sending)) \/ Settled(Sending))
      <4>1. todo # AtImport
        BY <1>3, <2>1
      <4> QED
        BY <1>2, <1>4, <1>6, <2>1, <2>6, <4>1 DEF AfterExport
    <3>2. Sending' = IF Sending = <<>> THEN <<>> ELSE Tail(Sending)
      BY <1>1, <1>4, <2>5, <3>1
    <3>3. Sending # <<>> => Settled(Tail(Sending))
      <4>1. todo # <<>> /\ todo # AtImport
        BY <1>3, <2>1
      <4> QED
        BY <1>2, <1>4, <1>6, <2>6, <3>1, <4>1 DEF AfterExport
    <3> QED
      BY <3>2, <3>3, RestartSettled
  <2>7. Proceeds => AfterExport'
    BY <1>2, <1>8, <2>4, <2>6 DEF AfterExport
  <2> QED
    BY <1>6, <1>7, <1>9, <2>1, <2>3, <2>7
<1>12. CASE todo = <<>>
  <2>1. UNCHANGED <<todo, line>>
    BY <1>12 DEF Next, Skip, OpenSession, Discard, Query, Command, ReadOk, SendExport,
       ReadChunkUart, ReadChunkI2c, ImportResultUart, ImportResultI2c, ConvertToCelsius, Decide,
       RaiseFirstError, Finish, Ended, vars, Due
  <2>2. bus' = "uart" /\ export'.ending # "after" => Settled(Sending')
    <3>1. todo # r
      BY <1>3, <1>12
    <3>2. Settled(<<>>)
      BY RestartSettled
    <3>3. Sending' = Sending
      BY <1>4, <2>1
    <3>4. UNCHANGED bus
      BY <1>2
    <3>5. bus = "uart" /\ export.ending # "after" => Sending = <<>> \/ Settled(Sending)
      BY <1>4, <3>1 DEF AfterExport
    <3> QED
      BY <1>6, <3>2, <3>3, <3>4, <3>5
  <2> QED
    BY <1>6, <1>7, <1>8, <1>12, <2>1, <2>2 DEF AfterExport
<1> QED
  BY <1>5, <1>10, <1>11, <1>12

(***************************************************************************)
(* From the first phase to the last.                                       *)
(***************************************************************************)
LEMMA OverI2cJoint ==
  ASSUME NEW s \in Seq(AnyStep), NEW t \in Seq(AnyStep)
  PROVE  OverI2c(s \o t) = OverI2c(s) \o OverI2c(t)
<1> DEFINE u == OverI2c(s \o t)
           v == OverI2c(s) \o OverI2c(t)
           made(e) == IF OnlyOverUart(e) THEN Made(e, "never", e.failing) ELSE e
<1>1. /\ s \o t \in Seq(AnyStep) /\ Len(s) \in Nat /\ Len(t) \in Nat /\ Len(s \o t) = Len(s) + Len(t)
      /\ \A i \in 1 .. Len(s) : (s \o t)[i] = s[i]
      /\ \A i \in 1 .. Len(t) : (s \o t)[Len(s) + i] = t[i]
      /\ \A i \in 1 .. Len(s \o t) :
           i \in 1 .. Len(s) \/ (i - Len(s) \in 1 .. Len(t) /\ i = Len(s) + (i - Len(s)))
  BY JointParts
<1>2. /\ OverI2c(s) \in Seq(AnyStep) /\ Len(OverI2c(s)) = Len(s)
      /\ \A i \in 1 .. Len(s) : OverI2c(s)[i] = made(s[i])
  BY OverI2cParts
<1>3. /\ OverI2c(t) \in Seq(AnyStep) /\ Len(OverI2c(t)) = Len(t)
      /\ \A i \in 1 .. Len(t) : OverI2c(t)[i] = made(t[i])
  BY OverI2cParts
<1>4. u \in Seq(AnyStep) /\ Len(u) = Len(s \o t) /\ \A i \in 1 .. Len(s \o t) : u[i] = made((s \o t)[i])
  BY <1>1, OverI2cParts
<1>5. /\ v \in Seq(AnyStep) /\ Len(v) = Len(s) + Len(t)
      /\ \A i \in 1 .. Len(s) : v[i] = OverI2c(s)[i]
      /\ \A i \in 1 .. Len(t) : v[Len(s) + i] = OverI2c(t)[i]
  <2>1. PICK x, y : x = OverI2c(s) /\ y = OverI2c(t)
    OBVIOUS
  <2>2. x \in Seq(AnyStep) /\ y \in Seq(AnyStep) /\ Len(x) = Len(s) /\ Len(y) = Len(t) /\ v = x \o y
    BY <1>2, <1>3, <2>1
  <2> HIDE DEF u, v
  <2>3. /\ x \o y \in Seq(AnyStep) /\ Len(x \o y) = Len(x) + Len(y)
        /\ \A i \in 1 .. Len(x) : (x \o y)[i] = x[i]
        /\ \A i \in 1 .. Len(y) : (x \o y)[Len(x) + i] = y[i]
    BY <2>2, JointParts
  <2> QED
    BY <2>1, <2>2, <2>3
<1> HIDE DEF u, v, made
<1>6. ASSUME NEW i \in 1 .. Len(u) PROVE u[i] = v[i]
  <2>1. i \in 1 .. Len(s \o t) /\ u[i] = made((s \o t)[i])
    BY <1>4
  <2>2. CASE i \in 1 .. Len(s)
    BY <1>1, <1>2, <1>5, <2>1, <2>2
  <2>3. CASE i - Len(s) \in 1 .. Len(t) /\ i = Len(s) + (i - Len(s))
    <3>1. PICK j \in 1 .. Len(t) : i = Len(s) + j
      BY <2>3
    <3>2. (s \o t)[i] = t[j] /\ v[i] = OverI2c(t)[j] /\ OverI2c(t)[j] = made(t[j])
      BY <1>1, <1>3, <1>5, <3>1
    <3> QED
      BY <2>1, <3>2
  <2> QED
    BY <1>1, <2>1, <2>2, <2>3
<1>7. Len(u) = Len(v)
  BY <1>1, <1>4, <1>5
<1>8. u = v
  BY <1>4, <1>5, <1>6, <1>7, SeqEqual
<1> QED
  BY <1>8 DEF u, v

LEMMA OverI2cSame ==
  ASSUME NEW e \in AnyStep, ~OnlyOverUart(e)
  PROVE  OverI2c(<<e>>) = <<e>>
<1>1. <<e>> \in Seq(AnyStep) /\ Len(<<e>>) = 1 /\ <<e>>[1] = e
  BY One
<1> DEFINE s == <<e>>
           t == OverI2c(s)
<1> HIDE DEF s
<1>2. t \in Seq(AnyStep) /\ Len(t) = Len(s)
      /\ \A i \in 1 .. Len(s) : t[i] = IF OnlyOverUart(s[i]) THEN Made(s[i], "never", s[i].failing) ELSE s[i]
  BY <1>1, OverI2cParts DEF s
<1> HIDE DEF t
<1>3. \A i \in 1 .. Len(t) : t[i] = s[i]
  BY <1>1, <1>2 DEF s
<1>4. t = s
  BY <1>1, <1>2, <1>3, SeqEqual DEF s
<1> QED
  BY <1>4 DEF t, s

LEMMA TransferBegins ==
  ASSUME NEW p \in Products, p = program.on
  PROVE  /\ \E l \in Seq(Looking({p})) :
              Applied(flags, CalibrationTransferLook(p), CalibrationTransferApply(p)) = l \o AtAsk
         /\ \E l \in Seq(Looking({p})) :
              Applied(flags, CalibrationTransferLookI2c(p), CalibrationTransferApplyI2c(p)) = l \o AtAsk
<1> DEFINE b == Begin(p)
           a == Ask(p, "chunks")
           e == <<Exporting>>
           look == (b \o a) \o e
           c == Call("ask", p, "chunks", "none")
<1>1. p \in Words /\ "ask" \in Words /\ "chunks" \in Words /\ "none" \in Words
  BY ProductsAreWords, AllWords
<1>2. c \in AnyStep /\ c.op = "ask" /\ c.what = "chunks" /\ a = <<c>>
  BY <1>1, CallIsStep DEF Ask, Step
<1>3. Exporting \in AnyStep /\ Exporting.op = "export" /\ Exporting.what = "chunks"
  BY <1>1, TransferSteps DEF Exporting, Call
<1>4. b \in Seq(Looking({p})) /\ b \in Seq(AnyStep)
  BY <1>1, BeginOpens, KindsOf DEF Opened
<1>5. a \in Seq(AnyStep) /\ e \in Seq(AnyStep) /\ AtImport \in Seq(AnyStep)
      /\ AtExport = e \o AtImport /\ AtAsk = a \o AtExport /\ AtExport \in Seq(AnyStep)
      /\ b \o a \in Seq(AnyStep) /\ a \o e \in Seq(AnyStep)
  BY <1>2, <1>3, <1>4, One, Joint, ImportSteps, ExportSteps DEF AtExport, AtAsk
<1>6. CalibrationTransferLook(p) = look
  BY DEF CalibrationTransferLook, Step, Exporting
<1> HIDE DEF a, b, c, e
<1>7. ASSUME NEW d \in Seq(AnyStep) PROVE ((d \o a) \o e) \o AtImport = d \o AtAsk
  <2>1. d \o a \in Seq(AnyStep)
    BY <1>5, Joint
  <2>2. ((d \o a) \o e) \o AtImport = (d \o a) \o (e \o AtImport)
    <3>1. e \in Seq(AnyStep) /\ AtImport \in Seq(AnyStep)
      BY <1>5
    <3> QED
      BY <2>1, <3>1, Assoc
  <2>3. (d \o a) \o AtExport = d \o (a \o AtExport)
    <3>1. PICK t : t = AtExport
      OBVIOUS
    <3>2. t \in Seq(AnyStep) /\ a \in Seq(AnyStep)
      BY <1>5, <3>1
    <3>3. (d \o a) \o t = d \o (a \o t)
      BY <3>2, Assoc
    <3> QED
      BY <3>1, <3>3
  <2> QED
    BY <1>5, <2>2, <2>3
<1>8. Applied(flags, CalibrationTransferLook(p), CalibrationTransferApply(p)) = b \o AtAsk
  BY <1>4, <1>6, <1>7 DEF Applied, AtImport
<1> DEFINE o == OverI2c(b)
<1>9. o \in Seq(Looking({p})) /\ o \in Seq(AnyStep)
  <2>1. \A s \in Looking({p}) : Made(s, "never", s.failing) \in Looking({p})
    <3> SUFFICES ASSUME NEW s \in Looking({p}) PROVE Made(s, "never", s.failing) \in Looking({p})
      OBVIOUS
    <3>1. s \in AnyStep /\ "never" \in Words
      BY AllWords DEF Looking
    <3> DEFINE m == Made(s, "never", s.failing)
    <3>2. m \in AnyStep /\ m.op = s.op /\ m.on = s.on /\ m.what = s.what /\ m.value = s.value
          /\ m.failing = s.failing
      BY <3>1, MadeWhen DEF Made
    <3> HIDE DEF m
    <3>3. m \in Looking({p})
      BY <3>2 DEF Looking, Looks
    <3> QED
      BY <3>3 DEF m
  <2> QED
    BY <1>4, <2>1, OverI2cOf, KindsOf
<1>10. OverI2c(a) = a
  <2>1. ~OnlyOverUart(c)
    BY <1>2 DEF OnlyOverUart
  <2> QED
    BY <1>2, <2>1, OverI2cSame
<1>11. OverI2c(e) = e
  <2>1. ~OnlyOverUart(Exporting)
    BY <1>3 DEF OnlyOverUart
  <2> QED
    BY <1>3, <2>1, OverI2cSame DEF e
<1>12. OverI2c(look) = (o \o a) \o e
  <2>1. OverI2c(look) = OverI2c(b \o a) \o OverI2c(e)
    BY <1>5, OverI2cJoint
  <2>2. OverI2c(b \o a) = o \o OverI2c(a)
    BY <1>4, <1>5, OverI2cJoint
  <2> QED
    BY <1>10, <1>11, <2>1, <2>2
<1>13. CalibrationTransferApplyI2c(p) = CalibrationTransferApply(p)
  <2> DEFINE i == Call("tell", p, "import", "imported")
             r == Call("result", p, "import", "none")
  <2>1. p \in Words
    BY <1>1
  <2>2. i \in AnyStep /\ i.op = "tell" /\ i.what = "import"
    <3>1. "tell" \in Words /\ "import" \in Words /\ "imported" \in Words
      BY AllWords
    <3> QED
      BY <2>1, <3>1, CallIsStep
  <2>3. r \in AnyStep /\ r.op = "result" /\ r.what = "import"
    <3>1. "result" \in Words /\ "import" \in Words /\ "none" \in Words
      BY AllWords
    <3> QED
      BY <2>1, <3>1, CallIsStep
  <2>4. CalibrationTransferApply(p) = <<i>> \o <<r>>
    BY DEF CalibrationTransferApply, Tell, Step
  <2> HIDE DEF i, r
  <2>5. ~OnlyOverUart(i) /\ ~OnlyOverUart(r)
    BY <2>2, <2>3 DEF OnlyOverUart
  <2>6. OverI2c(<<i>>) = <<i>> /\ OverI2c(<<r>>) = <<r>>
    BY <2>2, <2>3, <2>5, OverI2cSame
  <2>7. <<i>> \in Seq(AnyStep) /\ <<r>> \in Seq(AnyStep)
    BY <2>2, <2>3, One
  <2>8. OverI2c(<<i>> \o <<r>>) = <<i>> \o <<r>>
    BY <2>6, <2>7, OverI2cJoint
  <2> QED
    BY <2>4, <2>8 DEF CalibrationTransferApplyI2c
<1>14. Applied(flags, CalibrationTransferLookI2c(p), CalibrationTransferApplyI2c(p)) = o \o AtAsk
  <2>1. CalibrationTransferLookI2c(p) = (o \o a) \o e
    BY <1>6, <1>12 DEF CalibrationTransferLookI2c
  <2> HIDE DEF o
  <2> QED
    BY <1>7, <1>9, <1>13, <2>1 DEF Applied, AtImport
<1> QED
  BY <1>4, <1>8, <1>9, <1>14

LEMMA InitTransferring ==
  ASSUME Init
  PROVE  Transferring
<1>0. Typed
  BY InitTyped
<1>1. /\ export.first \in 1 .. 2 /\ ExportFields \subseteq DOMAIN export
      /\ export = NewExport(export.ending, export.first)
  BY DEF Init, NewExport, ExportFields
<1> SUFFICES ASSUME program.name = "calibration_transfer", bus = "uart" \/ export.first = 1
             PROVE  Announces /\ BeforeExport
  BY <1>1 DEF Transferring
<1>2. PICK p : p = program.on
  OBVIOUS
<1>3. program \in Programs /\ p \in Products /\ p \in DOMAIN config
  BY <1>0, <1>2, TransferContext DEF Init
<1>4. config[p] \in Circuits[p]
  BY <1>3 DEF Init, SettingsOf
<1>5. "chunks" \in DOMAIN config[p] /\ config[p].chunks \in Nat
  BY <1>2, <1>3, <1>4, ProgramAssumption
<1>6. Announces
  BY <1>1, <1>2, <1>5 DEF Announces, Announced
<1>7. \E l \in Seq(Looking({p})) : todo = l \o AtAsk
  <2>1. bus = "uart" => todo = Applied(flags, CalibrationTransferLook(p), CalibrationTransferApply(p))
    BY <1>2 DEF Init, Script
  <2>2. bus # "uart" => todo = Applied(flags, CalibrationTransferLookI2c(p), CalibrationTransferApplyI2c(p))
    BY <1>2 DEF Init, ScriptOverI2c
  <2> QED
    BY <1>2, <1>3, <2>1, <2>2, TransferBegins
<1> QED
  BY <1>1, <1>2, <1>6, <1>7 DEF BeforeExport

LEMMA ExportStays ==
  ASSUME ExportFields \subseteq DOMAIN export, [Next]_vars
  PROVE  /\ ExportFields \subseteq DOMAIN export'
         /\ export'.first = export.first /\ export'.ending = export.ending
<1>1. "first" \in DOMAIN export /\ "ending" \in DOMAIN export
  BY DEF ExportFields
<1>2. CASE UNCHANGED export
  BY <1>2
<1>3. CASE SendExport
  BY <1>1, <1>3 DEF SendExport
<1>4. CASE ReadChunkUart \/ ReadChunkI2c
  BY <1>1, <1>4 DEF ReadChunkUart, ReadChunkI2c, Prints
<1> QED
  BY <1>2, <1>3, <1>4 DEF Next, Skip, OpenSession, Discard, Query, Command, ReadOk,
     ImportResultUart, ImportResultI2c, ConvertToCelsius, Decide, RaiseFirstError, Finish, Ended, vars

LEMMA SameTransferring ==
  ASSUME Transferring, UNCHANGED vars
  PROVE  Transferring'
  BY DEF Transferring, Announces, Announced, BeforeExport, InExport, AfterExport, Exported, Printed,
     Sending, NoChunk, NextChunk, Ends, Settled, AtAsk, AtChunk, AtExport, AtImport, Exporting,
     vars, given

LEMMA StepTransferring ==
  ASSUME Typed, Steady, Stopped, Transferring, [Next]_vars
  PROVE  Transferring'
<1>1. /\ ExportFields \subseteq DOMAIN export' /\ export'.first = export.first
      /\ UNCHANGED <<program, bus>>
  BY ExportStays, StepGiven DEF Transferring
<1> SUFFICES ASSUME program.name = "calibration_transfer", bus = "uart" \/ export.first = 1
             PROVE  /\ Announces'
                    /\ exit' \in {"error", "blocked"} \/ BeforeExport' \/ InExport' \/ AfterExport'
  BY <1>1 DEF Transferring
<1>2. CASE UNCHANGED vars
  BY <1>1, <1>2, SameTransferring DEF Transferring
<1>3. CASE exit # "running"
  BY <1>2, <1>3, EndedStays
<1>4. CASE exit = "running" /\ Next
  <2>1. Announces /\ ExportFields \subseteq DOMAIN export /\ (BeforeExport \/ InExport \/ AfterExport)
    BY <1>4 DEF Transferring
  <2>2. CASE BeforeExport
    BY <1>4, <2>1, <2>2, BeforeExportStep
  <2>3. CASE InExport
    <3>1. AboutToExport \/ AboutToRead
      BY <2>3 DEF InExport, AboutToExport, AboutToRead
    <3>2. CASE AboutToExport
      BY <1>4, <2>1, <3>2, ExportingStep
    <3>3. CASE AboutToRead
      BY <1>4, <2>1, <3>3, ReadingStep
    <3> QED
      BY <3>1, <3>2, <3>3
  <2>4. CASE AfterExport
    BY <1>4, <2>1, <2>4, AfterExportStep
  <2> QED
    BY <2>1, <2>2, <2>3, <2>4
<1> QED
  BY <1>2, <1>3, <1>4

LEMMA InitStopped ==
  ASSUME Init
  PROVE  Stopped
  BY DEF Init, Stopped

(* Where a transfer that succeeded has got to. *)
LEMMA TransferEnd ==
  ASSUME Typed, Stopped, Transferring, program.name = "calibration_transfer",
         bus = "uart" \/ export.first = 1, exit = "ok"
  PROVE  AfterExport /\ todo = <<>> /\ Announces
<1>1. PICK p : p = program.on
  OBVIOUS
<1>2. todo = <<>>
  BY DEF Stopped
<1>3. AtExport \in Seq(AnyStep) /\ AtExport # <<>> /\ AtChunk # <<>>
      /\ AtAsk \in Seq(AnyStep) /\ AtAsk # <<>>
  BY <1>1, TransferContext, ExportSteps
<1>4. ~InExport
  BY <1>2, <1>3 DEF InExport
<1>5. ~BeforeExport
  <2> SUFFICES ASSUME BeforeExport PROVE FALSE
    OBVIOUS
  <2>1. PICK l \in Seq(Looking({p})) : todo = l \o AtAsk
    BY <1>1 DEF BeforeExport
  <2>2. l \in Seq(AnyStep)
    BY KindsOf
  <2>3. CASE l = <<>>
    BY <1>2, <1>3, <2>1, <2>3, ConcatEmptySeq
  <2>4. CASE l # <<>>
    BY <1>2, <1>3, <2>1, <2>2, <2>4, HeadJoint
  <2> QED
    BY <2>3, <2>4
<1> QED
  BY <1>2, <1>4, <1>5 DEF Transferring

(***************************************************************************)
(* A program that succeeds has printed the circuit's calibration, every    *)
(* chunk of it once and in order (ExportIsWhole), however the circuit ends *)
(* its answers and however many chunks it has.                             *)
(***************************************************************************)
THEOREM ExportsAreWhole == Spec => []ExportIsWhole
<1>1. Init => Typed /\ Steady /\ Stopped /\ Transferring
  BY InitTyped, InitSteady, InitStopped, InitTransferring
<1>2. Typed /\ Steady /\ Stopped /\ Transferring /\ [Next]_vars
        => Typed' /\ Steady' /\ Stopped' /\ Transferring'
  BY StepTyped, StepSteady, StaysStopped, StepTransferring
<1>3. Typed /\ Stopped /\ Transferring => ExportIsWhole
  <2> SUFFICES ASSUME Typed, Stopped, Transferring, exit = "ok", program.name = "calibration_transfer",
                      bus = "uart" \/ export.first = 1
               PROVE  export.printed = [i \in 1 .. config[program.on].chunks |-> i]
    BY DEF ExportIsWhole
  <2>1. AfterExport /\ Announces
    BY TransferEnd
  <2> DEFINE n == config[program.on].chunks
  <2>2. export.printed = [i \in 1 .. n |-> export.first + i - 1] /\ (n = 0 \/ export.first = 1)
    BY <2>1 DEF AfterExport, Printed, Announced
  <2>3. n \in Nat
    BY <2>1 DEF Announces, Announced
  <2> HIDE DEF n
  <2>4. PICK first : first = export.first
    OBVIOUS
  <2>5. [i \in 1 .. n |-> first + i - 1] = [i \in 1 .. n |-> i]
    BY <2>2, <2>3, <2>4
  <2> QED
    BY <2>2, <2>4, <2>5 DEF n
<1> QED
  BY <1>1, <1>2, <1>3, PTL DEF Spec

-----------------------------------------------------------------------------
(***************************************************************************)
(* What the other programs leave on the lines.                             *)
(***************************************************************************)
(* The steps of the programs that transfer no calibration. *)
IsPlain(s) ==
  /\ s.failing = "stops"
  /\ s.op \in {"open", "discard", "ask", "celsius", "need", "tell", "ack"}
  /\ s.op = "tell" => s.what # "import"

Plain == {s \in AnyStep : IsPlain(s)}

(* The input of every circuit is discarded. *)
Tidy(s, cs) == s \in Seq(Plain) /\ \A p \in cs : Has(s, Discards(p))

LEMMA PlainKinds ==
  ASSUME NEW cs
  PROVE  /\ Plain \subseteq AnyStep /\ Looking(cs) \subseteq Plain /\ Taming(cs) \subseteq Plain
  BY DEF Plain, IsPlain, Looking, Looks, Taming, Tames

LEMMA TamePlain ==
  ASSUME NEW cs, NEW s, Tame(s, cs)
  PROVE  s \in Seq(Plain)
  BY PlainKinds, SeqMonotonic DEF Tame

LEMMA OpenedTidy ==
  ASSUME NEW cs, NEW s, Opened(s, cs)
  PROVE  Tidy(s, cs)
  BY PlainKinds, SeqMonotonic DEF Opened, Tidy

LEMMA AppliedTidy ==
  ASSUME NEW cs, NEW f, NEW look, NEW apply, Opened(look, cs), apply \in Seq(Plain)
  PROVE  Tidy(Applied(f, look, apply), cs)
<1> DEFINE t == If("apply" \in f, apply)
<1>1. Tidy(look, cs)
  BY OpenedTidy
<1>2. t \in Seq(Plain)
  BY Optional
<1>3. look \in Seq(AnyStep) /\ t \in Seq(AnyStep) /\ look \in Seq(Plain)
  BY <1>1, <1>2, PlainKinds, SeqMonotonic DEF Tidy
<1> HIDE DEF t
<1>4. look \o t \in Seq(Plain)
  BY <1>2, <1>3, Joint
<1>5. \A p \in cs : Has(look \o t, Discards(p))
  BY <1>1, <1>3, HasJoint DEF Tidy
<1> QED
  BY <1>4, <1>5 DEF Tidy, Applied, t

LEMMA ModePlain ==
  ASSUME NEW p \in Words, NEW value \in Words
  PROVE  Tell(p, "mode", value) \in Seq(Plain)
<1> DEFINE a == Call("tell", p, "mode", value)
<1>1. "tell" \in Words /\ "mode" \in Words
  BY AllWords
<1>2. a \in AnyStep /\ a.op = "tell" /\ a.on = p /\ a.what = "mode" /\ a.failing = "stops"
  BY <1>1, CallIsStep
<1>3. Tell(p, "mode", value) = <<a>>
  BY DEF Tell
<1> HIDE DEF a
<1>4. a \in Plain
  BY <1>2 DEF Plain, IsPlain
<1> QED
  BY <1>3, <1>4, One

LEMMA TransportSwitchPlain ==
  ASSUME NEW p \in Products, NEW f
  PROVE  TransportSwitchApply(p, f) \in Seq(Plain)
<1>1. p \in Words
  BY ProductsAreWords
<1>2. Need(p, "unlocked") \in Seq(Plain)
  BY <1>1, AllWords, NeedTame, TamePlain
<1>3. Tell(p, "mode", "new baud") \in Seq(Plain) /\ Tell(p, "mode", "i2c") \in Seq(Plain)
  BY <1>1, AllWords, ModePlain
<1> QED
  BY <1>2, <1>3, Joint DEF TransportSwitchApply

LEMMA ControlWorkflowPlain ==
  ASSUME NEW p \in Products, NEW f
  PROVE  ControlWorkflowApply(p, f) \o ControlWorkflowAfter(p, f) \in Seq(Plain)
<1>1. p \in Words
  BY ProductsAreWords
<1>2. ASSUME NEW b, NEW what \in Words \ {"mode", "import"}, NEW value \in Words
      PROVE  If(b, Set(p, what, value)) \in Seq(Plain)
  BY <1>1, <1>2, SetTame, TameIf, TamePlain
<1>3. ASSUME NEW b, NEW value \in Words PROVE If(b, Tell(p, "mode", value)) \in Seq(Plain)
  BY <1>1, <1>3, ModePlain, Optional
<1>4. ControlWorkflowApply(p, f) \in Seq(Plain)
  <2>1. If("set-name" \in f, Set(p, "name", "planned")) \in Seq(Plain)
    BY <1>2, AllWords
  <2>2. If("set-led" \in f, Set(p, "led", "planned")) \in Seq(Plain)
    BY <1>2, AllWords
  <2>3. If("set-protocol-lock" \in f, SetLock(p, f)) \in Seq(Plain)
    BY <1>1, SetLockTame, TameIf, TamePlain
  <2>4. If("send-find" \in f, Set(p, "find", "planned")) \in Seq(Plain)
    BY <1>2, AllWords
  <2>5. If("send-sleep" \in f, Tell(p, "mode", "asleep")) \in Seq(Plain)
    BY <1>3, AllWords
  <2>6. If("factory-reset" \in f, Tell(p, "mode", "reset")) \in Seq(Plain)
    BY <1>3, AllWords
  <2> QED
    BY <2>1, <2>2, <2>3, <2>4, <2>5, <2>6, Joint DEF ControlWorkflowApply
<1>5. ControlWorkflowAfter(p, f) \in Seq(Plain)
  <2>1. Asks(p, <<"name", "led", "plock", "baud">>) \in Seq(Plain)
    <3>1. <<"name", "led", "plock", "baud">> \in Seq(Words)
      BY AllWords, Four
    <3> QED
      BY <1>1, <3>1, AsksTame, TamePlain
  <2>2. SetCodes(p, f) \in Seq(Plain)
    BY <1>1, SetCodesTame, TamePlain
  <2>3. Ask(p, "codes") \in Seq(Plain)
    <3>1. Ask(p, "codes") \in Seq(Asking({p}) \cap Looking({p}))
      BY <1>1, AllWords, AskAsks
    <3>2. Asking({p}) \cap Looking({p}) \subseteq Plain
      BY PlainKinds
    <3> QED
      BY <3>1, <3>2, SeqMonotonic
  <2> QED
    BY <2>1, <2>2, <2>3, Joint, Optional DEF ControlWorkflowAfter
<1> QED
  BY <1>4, <1>5, Joint

(* Every script for a UART but one. *)
LEMMA ScriptsTidy ==
  ASSUME NEW n, NEW p \in MadeFor(n), NEW f \in OptionsOf(n), n # "calibration_transfer"
  PROVE  Tidy(Script(n, p, f), Uses(n, p))
<1>1. ASSUME n = "read_ph" PROVE Tidy(Script(n, p, f), Uses(n, p))
  <2>1. p = "PH" /\ Uses(n, p) = {"PH"}
    BY <1>1 DEF MadeFor, Uses, Products
  <2> QED
    BY <1>1, <2>1, ReadPhOpens, OpenedTidy DEF Script
<1>2. ASSUME n = "read_orp" PROVE Tidy(Script(n, p, f), Uses(n, p))
  <2>1. p = "ORP" /\ Uses(n, p) = {"ORP"}
    BY <1>2 DEF MadeFor, Uses, Products
  <2> QED
    BY <1>2, <2>1, ReadOrpOpens, OpenedTidy DEF Script
<1>3. ASSUME n = "read_ec" PROVE Tidy(Script(n, p, f), Uses(n, p))
  <2>1. p = "EC" /\ Uses(n, p) = {"EC"}
    BY <1>3 DEF MadeFor, Uses, Products
  <2> QED
    BY <1>3, <2>1, ReadEcOpens, OpenedTidy DEF Script
<1>4. ASSUME n = "read_do" PROVE Tidy(Script(n, p, f), Uses(n, p))
  <2>1. p = "DO" /\ Uses(n, p) = {"DO"}
    BY <1>4 DEF MadeFor, Uses, Products
  <2> QED
    BY <1>4, <2>1, ReadDoOpens, OpenedTidy DEF Script
<1>5. ASSUME n = "read_hum" PROVE Tidy(Script(n, p, f), Uses(n, p))
  <2>1. p = "HUM" /\ Uses(n, p) = {"HUM"}
    BY <1>5 DEF MadeFor, Uses, Products
  <2> QED
    BY <1>5, <2>1, ReadHumOpens, OpenedTidy DEF Script
<1>6. ASSUME n = "read_rtd" PROVE Tidy(Script(n, p, f), Uses(n, p))
  <2>1. p = "RTD" /\ Uses(n, p) = {"RTD"}
    BY <1>6 DEF MadeFor, Uses, Products
  <2> QED
    BY <1>6, <2>1, ReadRtdOpens, OpenedTidy DEF Script
<1>7. ASSUME n = "ph_temp_comp_from_rtd" PROVE Tidy(Script(n, p, f), Uses(n, p))
  <2>1. p \in Products /\ Uses(n, p) = {"RTD", "PH"}
    BY <1>7 DEF MadeFor, Uses, Products
  <2> QED
    BY <1>7, <2>1, PhTempCompLookOpens, PhTempCompApplyTame, TamePlain, AppliedTidy DEF Script
<1>8. ASSUME n = "ec_temp_comp_from_rtd" PROVE Tidy(Script(n, p, f), Uses(n, p))
  <2>1. p \in Products /\ Uses(n, p) = {"RTD", "EC"}
    BY <1>8 DEF MadeFor, Uses, Products
  <2> QED
    BY <1>8, <2>1, EcTempCompLookOpens, EcTempCompApplyTame, TamePlain, AppliedTidy DEF Script
<1>9. ASSUME n = "do_temp_comp_from_rtd" PROVE Tidy(Script(n, p, f), Uses(n, p))
  <2>1. p \in Products /\ Uses(n, p) = {"RTD", "DO"}
    BY <1>9 DEF MadeFor, Uses, Products
  <2> QED
    BY <1>9, <2>1, DoTempCompLookOpens, DoTempCompApplyTame, TamePlain, AppliedTidy DEF Script
<1>10. ASSUME n = "do_salinity_comp_from_ec" PROVE Tidy(Script(n, p, f), Uses(n, p))
  <2>1. p \in Products /\ Uses(n, p) = {"EC", "DO"}
    BY <1>10 DEF MadeFor, Uses, Products
  <2> QED
    BY <1>10, <2>1, DoSalinityCompLookOpens, DoSalinityCompApplyTame, TamePlain, AppliedTidy DEF Script
<1>11. ASSUME n = "do_full_compensation_chain" PROVE Tidy(Script(n, p, f), Uses(n, p))
  <2>1. p \in Products /\ Uses(n, p) = {"RTD", "EC", "DO"}
    BY <1>11 DEF MadeFor, Uses, Products
  <2> QED
    BY <1>11, <2>1, DoFullChainLookOpens, DoFullChainApplyTame, TamePlain, AppliedTidy DEF Script
<1>12. ASSUME n = "ph_calibration" PROVE Tidy(Script(n, p, f), Uses(n, p))
  <2>1. p = "PH" /\ Uses(n, p) = {"PH"}
    BY <1>12 DEF MadeFor, Uses, Products
  <2>2. StepOf(f) \in Words
    <3>1. f \in PhCalibrationOptions
      BY <1>12 DEF OptionsOf
    <3> QED
      BY <3>1, StepOfIs DEF PhCalibrationOptions, Steps
  <2> QED
    BY <1>12, <2>1, <2>2, PhCalibrationLookOpens, PhCalibrationApplyTame, TamePlain, AppliedTidy DEF Script
<1>13. ASSUME n = "orp_calibration" PROVE Tidy(Script(n, p, f), Uses(n, p))
  <2>1. p = "ORP" /\ Uses(n, p) = {"ORP"}
    BY <1>13 DEF MadeFor, Uses, Products
  <2>2. StepOf(f) \in Words
    <3>1. f \in OrpCalibrationOptions
      BY <1>13 DEF OptionsOf
    <3> QED
      BY <3>1, StepOfIs DEF OrpCalibrationOptions, Steps
  <2> QED
    BY <1>13, <2>1, <2>2, OrpCalibrationLookOpens, OrpCalibrationApplyTame, TamePlain, AppliedTidy DEF Script
<1>14. ASSUME n = "ec_calibration" PROVE Tidy(Script(n, p, f), Uses(n, p))
  <2>1. p = "EC" /\ Uses(n, p) = {"EC"}
    BY <1>14 DEF MadeFor, Uses, Products
  <2>2. StepOf(f) \in Words
    <3>1. f \in EcCalibrationOptions
      BY <1>14 DEF OptionsOf
    <3> QED
      BY <3>1, StepOfIs DEF EcCalibrationOptions, Steps
  <2> QED
    BY <1>14, <2>1, <2>2, EcCalibrationLookOpens, EcCalibrationApplyTame, TamePlain, AppliedTidy DEF Script
<1>15. ASSUME n = "do_calibration" PROVE Tidy(Script(n, p, f), Uses(n, p))
  <2>1. p = "DO" /\ Uses(n, p) = {"DO"}
    BY <1>15 DEF MadeFor, Uses, Products
  <2>2. StepOf(f) \in Words
    <3>1. f \in DoCalibrationOptions
      BY <1>15 DEF OptionsOf
    <3> QED
      BY <3>1, StepOfIs DEF DoCalibrationOptions, Steps
  <2> QED
    BY <1>15, <2>1, <2>2, DoCalibrationLookOpens, DoCalibrationApplyTame, TamePlain, AppliedTidy DEF Script
<1>16. ASSUME n = "rtd_calibration" PROVE Tidy(Script(n, p, f), Uses(n, p))
  <2>1. p = "RTD" /\ Uses(n, p) = {"RTD"}
    BY <1>16 DEF MadeFor, Uses, Products
  <2>2. StepOf(f) \in Words
    <3>1. f \in RtdCalibrationOptions
      BY <1>16 DEF OptionsOf
    <3> QED
      BY <3>1, StepOfIs DEF RtdCalibrationOptions, Steps
  <2> QED
    BY <1>16, <2>1, <2>2, RtdCalibrationLookOpens, RtdCalibrationApplyTame, TamePlain, AppliedTidy DEF Script
<1>17. ASSUME n = "hum_temperature_calibration" PROVE Tidy(Script(n, p, f), Uses(n, p))
  <2>1. p = "HUM" /\ Uses(n, p) = {"HUM"}
    BY <1>17 DEF MadeFor, Uses, Products
  <2>2. StepOf(f) \in Words
    <3>1. f \in HumCalibrationOptions
      BY <1>17 DEF OptionsOf
    <3> QED
      BY <3>1, StepOfIs DEF HumCalibrationOptions, Steps
  <2> QED
    BY <1>17, <2>1, <2>2, HumCalibrationLookOpens, HumCalibrationApplyTame, TamePlain, AppliedTidy DEF Script
<1>18. ASSUME n = "ph_workflow" PROVE Tidy(Script(n, p, f), Uses(n, p))
  <2>1. p = "PH" /\ Uses(n, p) = {"PH"}
    BY <1>18 DEF MadeFor, Uses, Products
  <2> QED
    BY <1>18, <2>1, PhWorkflowLookOpens, PhWorkflowApplyTame, TamePlain, AppliedTidy DEF Script
<1>19. ASSUME n = "orp_workflow" PROVE Tidy(Script(n, p, f), Uses(n, p))
  <2>1. p = "ORP" /\ Uses(n, p) = {"ORP"}
    BY <1>19 DEF MadeFor, Uses, Products
  <2> QED
    BY <1>19, <2>1, OrpWorkflowLookOpens, OrpWorkflowApplyTame, TamePlain, AppliedTidy DEF Script
<1>20. ASSUME n = "ec_workflow" PROVE Tidy(Script(n, p, f), Uses(n, p))
  <2>1. p = "EC" /\ Uses(n, p) = {"EC"}
    BY <1>20 DEF MadeFor, Uses, Products
  <2> QED
    BY <1>20, <2>1, EcWorkflowLookOpens, EcWorkflowApplyTame, TamePlain, AppliedTidy DEF Script
<1>21. ASSUME n = "do_workflow" PROVE Tidy(Script(n, p, f), Uses(n, p))
  <2>1. p = "DO" /\ Uses(n, p) = {"DO"}
    BY <1>21 DEF MadeFor, Uses, Products
  <2> QED
    BY <1>21, <2>1, DoWorkflowLookOpens, DoWorkflowApplyTame, TamePlain, AppliedTidy DEF Script
<1>22. ASSUME n = "hum_workflow" PROVE Tidy(Script(n, p, f), Uses(n, p))
  <2>1. p = "HUM" /\ Uses(n, p) = {"HUM"}
    BY <1>22 DEF MadeFor, Uses, Products
  <2> QED
    BY <1>22, <2>1, HumWorkflowLookOpens, HumWorkflowApplyTame, TamePlain, AppliedTidy DEF Script
<1>23. ASSUME n = "rtd_workflow" PROVE Tidy(Script(n, p, f), Uses(n, p))
  <2>1. p = "RTD" /\ Uses(n, p) = {"RTD"}
    BY <1>23 DEF MadeFor, Uses, Products
  <2> QED
    BY <1>23, <2>1, RtdWorkflowLookOpens, RtdWorkflowApplyTame, TamePlain, AppliedTidy DEF Script
<1>24. ASSUME n = "control_workflow" PROVE Tidy(Script(n, p, f), Uses(n, p))
  <2>1. p \in Products /\ Uses(n, p) = {p}
    BY <1>24 DEF MadeFor, Uses, Products
  <2> QED
    BY <1>24, <2>1, ControlWorkflowLookOpens, ControlWorkflowPlain, AppliedTidy DEF Script
<1>25. ASSUME n = "transport_switch" PROVE Tidy(Script(n, p, f), Uses(n, p))
  <2>1. p \in Products /\ Uses(n, p) = {p}
    BY <1>25 DEF MadeFor, Uses, Products
  <2> QED
    BY <1>25, <2>1, TransportSwitchLookOpens, TransportSwitchPlain, AppliedTidy DEF Script
<1>27. ASSUME n = "inspect_device" PROVE Tidy(Script(n, p, f), Uses(n, p))
  <2>1. p \in Products /\ Uses(n, p) = {p}
    BY <1>27 DEF MadeFor, Uses, Products
  <2> QED
    BY <1>27, <2>1, InspectDeviceOpens, OpenedTidy DEF Script
<1>28. ASSUME n = "readiness_check" PROVE Tidy(Script(n, p, f), Uses(n, p))
  <2>1. p \in Products /\ Uses(n, p) = {p}
    BY <1>28 DEF MadeFor, Uses, Products
  <2> QED
    BY <1>28, <2>1, ReadinessCheckOpens, OpenedTidy DEF Script
<1> QED
  BY <1>1, <1>2, <1>3, <1>4, <1>5, <1>6, <1>7, <1>8, <1>9, <1>10,
     <1>11, <1>12, <1>13, <1>14, <1>15, <1>16, <1>17, <1>18, <1>19, <1>20,
     <1>21, <1>22, <1>23, <1>24, <1>25, <1>27, <1>28 DEF MadeFor

(* The lines of the commands that nothing is awaited for. *)
Modes == {[kind |-> kind, what |-> "mode", value |-> "none"] : kind \in {"OK", "ERROR", "WAKE"}}

(* All that is on the line are such lines, or what the program is about to *)
(* discard, or to read as an acknowledgement.                              *)
Clean(p) ==
  \/ exit \in {"error", "blocked"}
  \/ Has(todo, Discards(p))
  \/ line[p] \in Seq(Modes)
  \/ Due("ack") /\ Head(todo).on = p /\ (line[p] = <<>> \/ Tail(line[p]) = <<>>)

Cleanly ==
  (bus = "uart" /\ program.name # "calibration_transfer") =>
    todo \in Seq(Plain) /\ \A p \in DOMAIN config : Clean(p)

LEMMA PlainMoves ==
  ASSUME todo \in Seq(Plain), todo # <<>>, Next
  PROVE  UNCHANGED todo \/ todo' = Tail(todo) \/ (todo' = <<>> /\ exit' \in {"error", "blocked"})
<1>1. Head(todo) \in Plain
  BY HeadTailProperties
<1>2. /\ Head(todo).op \in {"open", "discard", "ask", "celsius", "need", "tell", "ack"}
      /\ Fails => todo' = <<>> /\ exit' \in {"error", "blocked"}
  BY <1>1 DEF Plain, IsPlain, Fails, Stops
<1>3. CASE Skip \/ OpenSession \/ Discard \/ ConvertToCelsius \/ Decide \/ Finish \/ Ended
  BY <1>2, <1>3 DEF Skip, OpenSession, Discard, ConvertToCelsius, Decide, Finish, Ended, vars,
     Proceeds, Stops
<1>4. CASE Query
  BY <1>2, <1>4 DEF Query, Proceeds
<1>5. CASE Command
  BY <1>2, <1>5 DEF Command, Proceeds
<1>6. CASE ReadOk
  BY <1>2, <1>6 DEF ReadOk, Proceeds
<1>7. CASE \/ SendExport \/ ReadChunkUart \/ ReadChunkI2c \/ ImportResultUart \/ ImportResultI2c
           \/ RaiseFirstError
  BY <1>2, <1>7 DEF SendExport, ReadChunkUart, ReadChunkI2c, ImportResultUart, ImportResultI2c,
     RaiseFirstError, Due
<1> QED
  BY <1>3, <1>4, <1>5, <1>6, <1>7 DEF Next

(* The lines of a command that changes the mode. *)
LEMMA ModeAnswers ==
  ASSUME bus = "uart", NEW p \in DOMAIN line, todo # <<>>, Head(todo).on = p, Head(todo).what = "mode",
         Command, line[p] \in Seq(Modes)
  PROVE  line'[p] \in Seq(Modes)
<1> DEFINE ok == Line("OK", "mode", "none")
           error == Line("ERROR", "mode", "none")
           wake == Line("WAKE", "mode", "none")
<1>1. Acknowledged(p, "mode", Sent(Head(todo))) \subseteq {ok, <<>>}
  BY DEF Acknowledged
<1>2. \E l \in {<<>>, ok, error, wake} : line' = [line EXCEPT ![p] = line[p] \o l]
  <2>1. \E l : /\ line' = [line EXCEPT ![p] = line[p] \o l]
               /\ l \in Acknowledged(p, "mode", Sent(Head(todo))) \/ l \in {<<>>, error, wake}
    BY DEF Command
  <2> HIDE DEF ok, error, wake
  <2> QED
    BY <1>1, <2>1
<1>3. ok \in Seq(Modes) /\ error \in Seq(Modes) /\ wake \in Seq(Modes) /\ <<>> \in Seq(Modes)
  <2>1. ASSUME NEW kind \in {"OK", "ERROR", "WAKE"} PROVE Line(kind, "mode", "none") \in Seq(Modes)
    <3>1. [kind |-> kind, what |-> "mode", value |-> "none"] \in Modes
      BY DEF Modes
    <3> QED
      BY <3>1, One DEF Line
  <2> QED
    BY <2>1, EmptySeq
<1> HIDE DEF ok, error, wake
<1>4. PICK l \in Seq(Modes) : line' = [line EXCEPT ![p] = line[p] \o l]
  BY <1>2, <1>3
<1>5. line[p] \o l \in Seq(Modes)
  BY Joint
<1> QED
  BY <1>4, <1>5

LEMMA StaysClean ==
  ASSUME Typed, Steady, Stopped, program \in Examples, bus = "uart", todo \in Seq(Plain),
         NEW p \in DOMAIN config, Clean(p), [Next]_vars
  PROVE  Clean(p)'
<1>0. /\ p \in DOMAIN line /\ p \in Words /\ todo \in Seq(AnyStep)
      /\ Flows(todo, DOMAIN config) /\ InStep(p)
  <2>1. p \in Products
    BY ExamplePairs, UsesProducts DEF Typed, ProgramTypeOK
  <2> QED
    BY <2>1, ProductsAreWords, PlainKinds, SeqMonotonic DEF Typed, ProgramTypeOK, Steady
<1>1. CASE UNCHANGED vars
  BY <1>1 DEF vars, Clean, Has, Due, Holds
<1>2. CASE exit # "running"
  <2>1. UNCHANGED vars
    BY <1>2, EndedStays
  <2> QED
    BY <1>1, <2>1
<1>3. CASE todo = <<>> /\ Next
  <2>1. UNCHANGED <<todo, line, known>> /\ (exit' = "ok" \/ UNCHANGED exit)
    BY <1>3 DEF Next, Skip, OpenSession, Discard, Query, Command, ReadOk, SendExport,
       ReadChunkUart, ReadChunkI2c, ImportResultUart, ImportResultI2c, ConvertToCelsius, Decide,
       RaiseFirstError, Finish, Ended, vars, Due
  <2>2. CASE UNCHANGED exit
    BY <2>1, <2>2 DEF Clean, Has, Due, Holds
  <2>3. CASE exit = "running"
    <3>1. Has(todo, Discards(p)) \/ line[p] \in Seq(Modes)
      BY <1>3, <2>3 DEF Clean, Due
    <3> QED
      BY <2>1, <3>1 DEF Clean, Has
  <2> QED
    BY <1>2, <2>2, <2>3
<1>4. CASE exit = "running" /\ todo # <<>> /\ Next
  <2> DEFINE s == Head(todo)
  <2>1. UNCHANGED todo \/ todo' = Tail(todo) \/ exit' \in {"error", "blocked"}
    BY <1>4, PlainMoves
  <2>2. s \in Plain /\ s \in AnyStep
    BY <1>4, HeadTailProperties, PlainKinds
  <2>3. ASSUME s \notin Discards(p), Has(todo, Discards(p)) PROVE Clean(p)'
    <3>1. Has(Tail(todo), Discards(p))
      BY <1>0, <1>4, <2>3, HasTail
    <3> QED
      BY <2>1, <2>3, <3>1 DEF Clean, Has
  <2>4. ASSUME ~Due("ack") \/ s.on # p PROVE Has(todo, Discards(p)) \/ line[p] \in Seq(Modes)
    BY <1>4, <2>4 DEF Clean
  <2>5. CASE s.on # p
    <3>1. s \notin Discards(p)
      BY <2>5 DEF Discards
    <3>2. line'[p] = line[p]
      BY <1>0, <2>5, OtherLines
    <3> QED
      BY <2>3, <2>4, <2>5, <3>1, <3>2 DEF Clean
  <2>6. CASE s.on = p
    <3>1. CASE \/ Skip \/ OpenSession \/ ConvertToCelsius \/ Decide
      <4>1. UNCHANGED line /\ ~Due("ack") /\ s \notin Discards(p)
        BY <3>1 DEF Skip, OpenSession, ConvertToCelsius, Decide, Due, Holds, Discards
      <4> QED
        BY <2>3, <2>4, <4>1 DEF Clean
    <3>2. CASE Discard
      <4>1. line'[p] = <<>>
        BY <1>0, <2>6, <3>2 DEF Discard
      <4> QED
        BY <4>1, EmptySeq DEF Clean
    <3>3. CASE Query
      <4>1. exit' = "error" \/ line'[p] = <<>>
        BY <1>0, <2>6, <3>3, QueryTakes
      <4> QED
        BY <4>1, EmptySeq DEF Clean
    <3>4. CASE Command /\ s.what = "mode"
      <4>1. ~Due("ack") /\ s \notin Discards(p)
        BY <3>4 DEF Command, Due, Discards
      <4>2. CASE Has(todo, Discards(p))
        BY <2>3, <4>1, <4>2
      <4>3. CASE line[p] \in Seq(Modes)
        BY <1>0, <1>4, <2>6, <3>4, <4>3, ModeAnswers DEF Clean
      <4> QED
        BY <2>4, <4>1, <4>2, <4>3
    <3>5. CASE Command /\ s.what # "mode"
      <4>1. s \in Checked(p)
        BY <2>2, <2>6, <3>5 DEF Command, Due, Checked, Plain, IsPlain
      <4>2. exit' = "error" \/ (Due("ack")' /\ Head(todo').on = p /\ (line'[p] = <<>> \/ Tail(line'[p]) = <<>>))
        BY <1>0, <3>5, <4>1, CommandAwaits
      <4> QED
        BY <4>2 DEF Clean
    <3>6. CASE ReadOk
      <4>1. s \notin Discards(p)
        BY <3>6 DEF ReadOk, Due, Discards
      <4>2. line'[p] = IF line[p] = <<>> THEN <<>> ELSE Tail(line[p])
        BY <1>0, <2>6, <3>6 DEF ReadOk
      <4>3. CASE Has(todo, Discards(p))
        BY <2>3, <4>1, <4>3
      <4>4. CASE line[p] \in Seq(Modes)
        <5>1. line'[p] \in Seq(Modes)
          BY <4>2, <4>4, EmptySeq, HeadTailProperties
        <5> QED
          BY <5>1 DEF Clean
      <4>5. CASE line[p] = <<>> \/ Tail(line[p]) = <<>>
        <5>1. line'[p] \in Seq(Modes)
          BY <4>2, <4>5, EmptySeq
        <5> QED
          BY <5>1 DEF Clean
      <4> QED
        BY <1>4, <4>3, <4>4, <4>5 DEF Clean
    <3>7. CASE \/ SendExport \/ ReadChunkUart \/ ReadChunkI2c \/ ImportResultUart \/ ImportResultI2c
               \/ RaiseFirstError \/ Finish \/ Ended
      BY <1>4, <2>2, <3>7 DEF SendExport, ReadChunkUart, ReadChunkI2c, ImportResultUart,
         ImportResultI2c, RaiseFirstError, Finish, Ended, Due, Plain, IsPlain
    <3> QED
      BY <1>4, <3>1, <3>2, <3>3, <3>4, <3>5, <3>6, <3>7 DEF Next
  <2> QED
    BY <2>5, <2>6
<1> QED
  BY <1>1, <1>2, <1>3, <1>4

LEMMA StepCleanly ==
  ASSUME Typed, Steady, Stopped, Cleanly, [Next]_vars
  PROVE  Cleanly'
<1>1. program \in Examples /\ UNCHANGED <<program, bus>> /\ DOMAIN config' = DOMAIN config
  BY StepExamples, StepGiven, StepConfig
<1> SUFFICES ASSUME bus = "uart", program.name # "calibration_transfer"
             PROVE  todo' \in Seq(Plain) /\ \A p \in DOMAIN config : Clean(p)'
  BY <1>1 DEF Cleanly
<1>2. todo \in Seq(Plain) /\ \A p \in DOMAIN config : Clean(p)
  BY DEF Cleanly
<1>3. todo' \in Seq(Plain)
  <2>1. CASE UNCHANGED vars
    BY <1>2, <2>1 DEF vars
  <2>2. CASE todo = <<>> /\ Next
    <3>1. UNCHANGED todo
      BY <2>2 DEF Next, Skip, OpenSession, Discard, Query, Command, ReadOk, SendExport,
         ReadChunkUart, ReadChunkI2c, ImportResultUart, ImportResultI2c, ConvertToCelsius, Decide,
         RaiseFirstError, Finish, Ended, vars, Due
    <3> QED
      BY <1>2, <3>1
  <2>3. CASE todo # <<>> /\ Next
    BY <1>2, <2>3, PlainMoves, EmptySeq, HeadTailProperties
  <2> QED
    BY <2>1, <2>2, <2>3
<1> QED
  BY <1>1, <1>2, <1>3, StaysClean

LEMMA InitCleanly ==
  ASSUME Init
  PROVE  Cleanly
<1> SUFFICES ASSUME bus = "uart", program.name # "calibration_transfer"
             PROVE  todo \in Seq(Plain) /\ \A p \in DOMAIN config : Clean(p)
  BY DEF Cleanly
<1>1. program \in Examples /\ Typed
  BY InitTyped, ProgramAssumption DEF Init
<1>2. program.on \in MadeFor(program.name)
  BY <1>1, ExamplePairs
<1>3. flags \in OptionsOf(program.name) /\ todo = Script(program.name, program.on, flags)
  BY DEF Init
<1>4. Tidy(todo, DOMAIN config)
  BY <1>1, <1>2, <1>3, ScriptsTidy DEF Typed, ProgramTypeOK
<1> QED
  BY <1>4 DEF Tidy, Clean

(***************************************************************************)
(* A program that succeeds has taken every line the circuits sent, except  *)
(* those of the commands it does not wait for, a restart after an import,  *)
(* and what a circuit adds to an export that it has acknowledged           *)
(* (SuccessLeavesNothing): the next program to use the port starts with a  *)
(* line that answers no question of this one.                              *)
(***************************************************************************)
THEOREM SuccessLeavesClean == Spec => []SuccessLeavesNothing
<1>1. Init => Typed /\ Steady /\ Stopped /\ Transferring /\ Cleanly
  BY InitTyped, InitSteady, InitStopped, InitTransferring, InitCleanly
<1>2. Typed /\ Steady /\ Stopped /\ Transferring /\ Cleanly /\ [Next]_vars
        => Typed' /\ Steady' /\ Stopped' /\ Transferring' /\ Cleanly'
  BY StepTyped, StepSteady, StaysStopped, StepTransferring, StepCleanly
<1>3. Typed /\ Stopped /\ Transferring /\ Cleanly => SuccessLeavesNothing
  <2> SUFFICES ASSUME Typed, Stopped, Transferring, Cleanly, bus = "uart", exit = "ok",
                      export.ending # "after", NEW p \in DOMAIN line
               PROVE  Settled(line[p])
    BY DEF SuccessLeavesNothing, Settled
  <2>1. todo = <<>> /\ p \in DOMAIN config
    BY DEF Stopped, Typed, ProgramTypeOK
  <2>2. CASE program.name = "calibration_transfer"
    <3>1. AfterExport
      BY <2>2, TransferEnd
    <3>2. p = program.on
      <4>1. Uses(program.name, program.on) = {program.on}
        BY <2>2 DEF Uses
      <4> QED
        BY <2>1, <4>1 DEF Typed, ProgramTypeOK
    <3>3. Step("result", p, "import") # <<>>
      BY <2>2, <3>2, TransferContext, ImportSteps
    <3>4. Sending = <<>> \/ Settled(Sending)
      BY <2>1, <3>1, <3>2, <3>3 DEF AfterExport
    <3> QED
      BY <3>2, <3>4, RestartSettled DEF Sending
  <2>3. CASE program.name # "calibration_transfer"
    <3>1. ~Has(todo, Discards(p))
      <4>1. Len(<<>>) = 0 /\ 1 .. 0 = {}
        OBVIOUS
      <4> QED
        BY <2>1, <4>1 DEF Has
    <3>2. line[p] \in Seq(Modes)
      BY <2>1, <2>3, <3>1 DEF Cleanly, Clean, Due
    <3>3. \A i \in DOMAIN line[p] : line[p][i] \in Modes
      <4>1. PICK l : l = line[p]
        OBVIOUS
      <4>2. l \in Seq(Modes)
        BY <3>2, <4>1
      <4>3. DOMAIN l = 1 .. Len(l) /\ \A i \in 1 .. Len(l) : l[i] \in Modes
        BY <4>2, LenProperties, ElementOfSeq
      <4> QED
        BY <4>1, <4>3
    <3> QED
      BY <3>3 DEF Settled, Modes
  <2> QED
    BY <2>2, <2>3
<1> QED
  BY <1>1, <1>2, <1>3, PTL DEF Spec

-----------------------------------------------------------------------------
(***************************************************************************)
(* What the programs ask again.                                            *)
(***************************************************************************)
(* What may be a setting: no reading and no command. *)
Settable(p, x) ==
  /\ x \notin {"read", "read_compensated", "memory_all", "memory_next", "celsius",
               "find", "output_on", "output_off", "import"}
  /\ x = "slope" => p = "PH"

(* The commands that change a setting, and those of them that a script has *)
(* to ask after: the bootstrap knows what it has done.                     *)
Changing(x) ==
  {x} \cup (IF x = "output" THEN {"output_on", "output_off"} ELSE {})
      \cup (IF x \in {"calibration", "slope"} THEN {"calibration", "import"} ELSE {})

Alters(p, x) ==
  {s \in AnyStep : s.op = "tell" /\ s.on = p /\ s.what \in Changing(x) /\ ~TurnsCodesOn(s)}

(* Any question about a setting; AsksFor has those that must be answered.  *)
Questions(p, x) == {s \in AnyStep : s.op = "ask" /\ s.on = p /\ s.what = x}

(* Whatever is changed is asked for after the change, or it never is, and  *)
(* no circuit is put to sleep or moved.                                    *)
Reviews(s) ==
  \A p \in Words :
    /\ ~Has(s, Alters(p, "mode"))
    /\ \A x : Settable(p, x) =>
         \/ Before(s, Alters(p, x), AsksFor(p, x))
         \/ x # "codes" /\ ~Has(s, Questions(p, x))

(* Commands to one circuit that change no settings but those of ws, their  *)
(* acknowledgements, and decisions.                                        *)
Telling(p, ws) ==
  {s \in AnyStep : \/ s.op = "need"
                   \/ s.op = "ack" /\ s.what = "OK"
                   \/ s.op = "tell" /\ s.on = p /\ s.what \in ws /\ ~TurnsCodesOn(s)}

(* A script that asks again after whatever it changes.                     *)
Rereads(s) ==
  \A p \in Words :
    /\ ~Has(s, Alters(p, "mode"))
    /\ \A x : Settable(p, x) => Before(s, Alters(p, x), AsksFor(p, x))

Mindful(s) == s \in Seq(AnyStep) /\ Coupled(s) /\ Rereads(s)

(* It changes nothing that it cannot ask for over I2C.                     *)
Kept(s) == \A p \in Words : ~Has(s, Alters(p, "codes")) /\ ~Has(s, Alters(p, "baud"))

LEMMA MindfulReviews ==
  ASSUME NEW s, Mindful(s)
  PROVE  s \in Seq(AnyStep) /\ Coupled(s) /\ Reviews(s)
  BY DEF Mindful, Rereads, Reviews

LEMMA MindfulJoint ==
  ASSUME NEW s, NEW t, Mindful(s), Mindful(t)
  PROVE  Mindful(s \o t) /\ (Kept(s) /\ Kept(t) => Kept(s \o t))
<1>1. s \in Seq(AnyStep) /\ t \in Seq(AnyStep)
  BY DEF Mindful
<1>2. s \o t \in Seq(AnyStep)
  BY <1>1, Joint
<1>3. Coupled(s \o t)
  BY <1>1, CoupledJoint DEF Mindful
<1>4. ASSUME NEW p \in Words PROVE ~Has(s \o t, Alters(p, "mode"))
  BY <1>1, HasJoint DEF Mindful, Rereads
<1>5. ASSUME NEW p \in Words, NEW x, Settable(p, x)
      PROVE  Before(s \o t, Alters(p, x), AsksFor(p, x))
  <2>1. Before(s, Alters(p, x), AsksFor(p, x)) /\ Before(t, Alters(p, x), AsksFor(p, x))
    BY <1>5 DEF Mindful, Rereads
  <2> QED
    BY <1>1, <2>1, BeforeJoint
<1>6. Kept(s) /\ Kept(t) => Kept(s \o t)
  BY <1>1, HasJoint DEF Kept
<1> QED
  BY <1>2, <1>3, <1>4, <1>5, <1>6 DEF Mindful, Rereads

(* A script without commands, but those that turn the codes on.            *)
LEMMA InspectingMindful ==
  ASSUME NEW s \in Seq(Inspecting), Coupled(s)
  PROVE  Mindful(s) /\ Kept(s)
<1>1. s \in Seq(AnyStep)
  <2>1. Inspecting \subseteq AnyStep
    BY DEF Inspecting
  <2> QED
    BY <2>1, SeqMonotonic
<1>2. ASSUME NEW p \in Words, NEW x PROVE ~Has(s, Alters(p, x))
  <2>1. \A e \in Inspecting : e \notin Alters(p, x)
    BY DEF Inspecting, Inspects, Alters, TurnsCodesOn
  <2> QED
    BY <2>1, LacksKind
<1>3. \A p \in Words : \A x : Before(s, Alters(p, x), AsksFor(p, x))
  BY <1>2, LacksOrders
<1> QED
  BY <1>1, <1>2, <1>3 DEF Mindful, Rereads, Kept

LEMMA OpenedMindful ==
  ASSUME NEW cs, NEW s, Opened(s, cs)
  PROVE  Mindful(s) /\ Kept(s)
<1>1. s \in Seq(Inspecting) /\ Coupled(s)
  BY OpenedInspects DEF Opened
<1> QED
  BY <1>1, InspectingMindful

(* Over I2C. *)
LEMMA CoupledOverI2c ==
  ASSUME NEW s \in Seq(AnyStep), Coupled(s)
  PROVE  Coupled(OverI2c(s))
<1> DEFINE t == OverI2c(s)
<1>1. /\ t \in Seq(AnyStep) /\ Len(t) = Len(s) /\ Len(s) \in Nat
      /\ \A i \in 1 .. Len(s) :
           /\ s[i] \in AnyStep
           /\ t[i] = IF OnlyOverUart(s[i]) THEN Made(s[i], "never", s[i].failing) ELSE s[i]
  BY OverI2cParts
<1> HIDE DEF t
<1>2. ASSUME NEW i \in 1 .. Len(s), NEW p \in Words
      PROVE  /\ t[i] \in CodesTold(p) <=> s[i] \in CodesTold(p)
             /\ t[i] \in CodesAcked(p) <=> s[i] \in CodesAcked(p)
             /\ t[i].failing = s[i].failing
             /\ s[i] \in CodesTold(p) \/ s[i] \in CodesAcked(p) => t[i].when = "never"
  <2>1. CASE OnlyOverUart(s[i])
    <3> DEFINE e == s[i]
               m == Made(e, "never", e.failing)
    <3>1. e \in AnyStep /\ "never" \in Words /\ t[i] = m
      BY <1>1, <2>1, AllWords
    <3> HIDE DEF e
    <3>2. /\ m \in AnyStep /\ m.op = e.op /\ m.on = e.on /\ m.what = e.what /\ m.value = e.value
          /\ m.when = "never" /\ m.failing = e.failing
      BY <3>1, MadeWhen
    <3> HIDE DEF m
    <3>3. /\ m \in CodesTold(p) <=> e \in CodesTold(p)
          /\ m \in CodesAcked(p) <=> e \in CodesAcked(p)
      BY <3>1, <3>2 DEF CodesTold, TurnsCodesOn, CodesAcked
    <3> QED
      BY <3>1, <3>2, <3>3 DEF e
  <2>2. CASE ~OnlyOverUart(s[i])
    <3>1. t[i] = s[i]
      BY <1>1, <2>2
    <3>2. s[i] \notin CodesTold(p) /\ s[i] \notin CodesAcked(p)
      BY <2>2 DEF OnlyOverUart, CodesTold, TurnsCodesOn, CodesAcked
    <3> QED
      BY <3>1, <3>2
  <2> QED
    BY <2>1, <2>2
<1>3. ASSUME NEW p \in Words, NEW i \in 1 .. Len(t)
      PROVE  /\ t[i] \in CodesTold(p) =>
                  i + 1 \in 1 .. Len(t) /\ t[i + 1] \in CodesAcked(p) /\ t[i + 1].when = t[i].when
             /\ t[i] \in CodesAcked(p) =>
                  t[i].failing = "stops" /\ (i = 1 \/ t[i - 1] \in CodesTold(p))
  <2>1. i \in 1 .. Len(s)
    BY <1>1
  <2>2. ASSUME t[i] \in CodesTold(p)
        PROVE  i + 1 \in 1 .. Len(t) /\ t[i + 1] \in CodesAcked(p) /\ t[i + 1].when = t[i].when
    <3>1. s[i] \in CodesTold(p) /\ t[i].when = "never"
      BY <1>2, <2>1, <2>2
    <3>2. i + 1 \in 1 .. Len(s) /\ s[i + 1] \in CodesAcked(p)
      BY <2>1, <3>1 DEF Coupled, Paired
    <3>3. t[i + 1] \in CodesAcked(p) /\ t[i + 1].when = "never"
      BY <1>2, <3>2
    <3> QED
      BY <1>1, <3>1, <3>2, <3>3
  <2>3. ASSUME t[i] \in CodesAcked(p)
        PROVE  t[i].failing = "stops" /\ (i = 1 \/ t[i - 1] \in CodesTold(p))
    <3>1. s[i] \in CodesAcked(p) /\ t[i].failing = s[i].failing
      BY <1>2, <2>1, <2>3
    <3>2. s[i].failing = "stops" /\ (i = 1 \/ s[i - 1] \in CodesTold(p))
      BY <2>1, <3>1 DEF Coupled, Paired
    <3>3. i = 1 \/ i - 1 \in 1 .. Len(s)
      BY <1>1, <2>1
    <3> QED
      BY <1>2, <3>1, <3>2, <3>3
  <2> QED
    BY <2>2, <2>3
<1>4. Paired(t)
  BY <1>3 DEF Paired
<1>5. ASSUME NEW p \in Words PROVE t = <<>> \/ t[1] \notin CodesAcked(p)
  <2>1. CASE t = <<>>
    BY <2>1
  <2>2. CASE t # <<>>
    <3>1. 1 \in 1 .. Len(t)
      BY <1>1, <2>2, TailParts
    <3>2. 1 \in 1 .. Len(s) /\ s # <<>>
      BY <1>1, <3>1, EmptySeq
    <3>3. s[1] \notin CodesAcked(p)
      BY <3>2 DEF Coupled
    <3> QED
      BY <1>2, <3>2, <3>3
  <2> QED
    BY <2>1, <2>2
<1>6. Coupled(t)
  BY <1>4, <1>5 DEF Coupled
<1> QED
  BY <1>6 DEF t

LEMMA MindfulOverI2c ==
  ASSUME NEW s, Mindful(s), Kept(s)
  PROVE  Mindful(OverI2c(s))
<1> DEFINE t == OverI2c(s)
<1>0. s \in Seq(AnyStep)
  BY DEF Mindful
<1>1. /\ t \in Seq(AnyStep) /\ Len(t) = Len(s) /\ Len(s) \in Nat
      /\ \A i \in 1 .. Len(s) :
           /\ s[i] \in AnyStep
           /\ t[i] = IF OnlyOverUart(s[i]) THEN Made(s[i], "never", s[i].failing) ELSE s[i]
  BY <1>0, OverI2cParts
<1>2. Coupled(t)
  BY <1>0, CoupledOverI2c DEF Mindful
<1> HIDE DEF t
<1>3. ASSUME NEW i \in 1 .. Len(s), NEW p \in Words, NEW x
      PROVE  /\ t[i] \in Alters(p, x) => s[i] \in Alters(p, x)
             /\ s[i] \in AsksFor(p, x) /\ x \notin {"codes", "baud"} => t[i] \in AsksFor(p, x)
  <2>1. CASE OnlyOverUart(s[i])
    <3> DEFINE e == s[i]
               m == Made(e, "never", e.failing)
    <3>1. e \in AnyStep /\ "never" \in Words /\ t[i] = m
      BY <1>1, <2>1, AllWords
    <3>2. e \in AsksFor(p, x) => x \in {"codes", "baud"}
      BY <2>1 DEF OnlyOverUart, AsksFor
    <3> HIDE DEF e
    <3>3. m \in AnyStep /\ m.op = e.op /\ m.on = e.on /\ m.what = e.what /\ m.value = e.value
      BY <3>1, MadeWhen
    <3> HIDE DEF m
    <3>4. m \in Alters(p, x) => e \in Alters(p, x)
      BY <3>1, <3>3 DEF Alters, TurnsCodesOn
    <3> QED
      BY <3>1, <3>2, <3>4 DEF e
  <2>2. CASE ~OnlyOverUart(s[i])
    BY <1>1, <2>2
  <2> QED
    BY <2>1, <2>2
<1>4. ASSUME NEW p \in Words, NEW x, ~Has(s, Alters(p, x)) PROVE ~Has(t, Alters(p, x))
  BY <1>1, <1>3, <1>4 DEF Has
<1>5. ASSUME NEW p \in Words, NEW x, Settable(p, x)
      PROVE  Before(t, Alters(p, x), AsksFor(p, x))
  <2>1. CASE x \in {"codes", "baud"}
    <3>1. ~Has(s, Alters(p, x))
      BY <2>1 DEF Kept
    <3> QED
      BY <1>4, <3>1, LacksOrders
  <2>2. CASE x \notin {"codes", "baud"}
    <3> SUFFICES ASSUME NEW i \in 1 .. Len(t), t[i] \in Alters(p, x)
                 PROVE  \E j \in 1 .. Len(t) : i < j /\ t[j] \in AsksFor(p, x)
      BY DEF Before
    <3>1. i \in 1 .. Len(s) /\ s[i] \in Alters(p, x)
      BY <1>1, <1>3
    <3>2. PICK j \in 1 .. Len(s) : i < j /\ s[j] \in AsksFor(p, x)
      BY <1>5, <3>1 DEF Mindful, Rereads, Before
    <3>3. j \in 1 .. Len(t) /\ t[j] \in AsksFor(p, x)
      BY <1>1, <1>3, <2>2, <3>2
    <3> QED
      BY <3>2, <3>3
  <2> QED
    BY <2>1, <2>2
<1>6. \A p \in Words : ~Has(t, Alters(p, "mode"))
  BY <1>4 DEF Mindful, Rereads
<1>7. Mindful(t)
  BY <1>1, <1>2, <1>5, <1>6 DEF Mindful, Rereads
<1> QED
  BY <1>7 DEF t

LEMMA MindfulNothing == Mindful(<<>>) /\ Kept(<<>>)
<1>1. <<>> \in Seq(Inspecting) /\ Len(<<>>) = 0 /\ 1 .. 0 = {}
  BY EmptySeq
<1>2. Coupled(<<>>)
  BY <1>1 DEF Coupled, Paired
<1> QED
  BY <1>1, <1>2, InspectingMindful

LEMMA MindfulIf ==
  ASSUME NEW b, NEW s, b => Mindful(s), b => Kept(s)
  PROVE  Mindful(If(b, s)) /\ Kept(If(b, s))
  BY MindfulNothing DEF If

(* A program of which both parts ask again, over both transports.          *)
LEMMA MindfulApplied ==
  ASSUME NEW cs, NEW f, NEW look, NEW apply, Opened(look, cs), Mindful(apply)
  PROVE  /\ Mindful(Applied(f, look, apply))
         /\ Kept(apply) => Mindful(Applied(f, OverI2c(look), OverI2c(apply)))
<1>1. Mindful(look) /\ Kept(look)
  BY OpenedMindful
<1>2. Mindful(If("apply" \in f, apply))
  BY MindfulNothing DEF If
<1>3. Mindful(OverI2c(look))
  BY <1>1, MindfulOverI2c
<1>4. Kept(apply) => Mindful(If("apply" \in f, OverI2c(apply)))
  BY MindfulOverI2c, MindfulNothing DEF If
<1> QED
  BY <1>1, <1>2, <1>3, <1>4, MindfulJoint DEF Applied

LEMMA OpenedReviews ==
  ASSUME NEW cs, NEW s, Opened(s, cs)
  PROVE  Mindful(s) /\ Mindful(OverI2c(s))
  BY OpenedMindful, MindfulOverI2c

(* What the programs apply, and ask for afterwards.                        *)
LEMMA TellingKinds ==
  ASSUME NEW p, NEW ws
  PROVE  /\ Telling(p, ws) \subseteq AnyStep
         /\ \A e \in Telling(p, ws) : \A q \in Words : e \notin CodesTold(q) /\ e \notin CodesAcked(q)
         /\ \A e \in Telling(p, ws) : \A q, x : e \in Alters(q, x) => q = p /\ Changing(x) \cap ws # {}
<1>1. Telling(p, ws) \subseteq AnyStep
  BY DEF Telling
<1>2. \A e \in Telling(p, ws) : \A q \in Words : e \notin CodesTold(q) /\ e \notin CodesAcked(q)
  BY DEF Telling, CodesTold, CodesAcked, TurnsCodesOn
<1>3. ASSUME NEW e \in Telling(p, ws), NEW q, NEW x, e \in Alters(q, x)
      PROVE  q = p /\ Changing(x) \cap ws # {}
  <2>1. e.op = "tell" /\ e.on = q /\ e.what \in Changing(x)
    BY <1>3 DEF Alters
  <2>2. e.on = p /\ e.what \in ws
    BY <2>1 DEF Telling
  <2> QED
    BY <2>1, <2>2
<1> QED
  BY <1>1, <1>2, <1>3

LEMMA CallTelling ==
  ASSUME NEW p \in Words, NEW ws, NEW what \in ws \cap Words, NEW value \in Words,
         what # "codes" \/ value # "on"
  PROVE  Tell(p, what, value) \in Seq(Telling(p, ws)) /\ Ack(p) \in Seq(Telling(p, ws))
<1> DEFINE c == Call("tell", p, what, value)
           d == Call("ack", p, "OK", "none")
           S == Telling(p, ws)
<1>1. "tell" \in Words /\ "ack" \in Words /\ "OK" \in Words /\ "none" \in Words
  BY AllWords
<1>2. c \in AnyStep /\ c.op = "tell" /\ c.on = p /\ c.what = what /\ c.value = value
  BY <1>1, CallIsStep
<1>3. d \in AnyStep /\ d.op = "ack" /\ d.what = "OK"
  BY <1>1, CallIsStep
<1>4. Tell(p, what, value) = <<c>> /\ Ack(p) = <<d>>
  BY DEF Tell, Ack, Step
<1> HIDE DEF c, d
<1>5. c \in S /\ d \in S
  BY <1>2, <1>3 DEF Telling, TurnsCodesOn
<1> HIDE DEF S
<1>6. <<c>> \in Seq(S) /\ <<d>> \in Seq(S)
  BY <1>5, One
<1> QED
  BY <1>4, <1>6 DEF S

LEMMA SetTelling ==
  ASSUME NEW p \in Words, NEW ws, NEW what \in ws \cap Words, NEW value \in Words,
         what # "codes" \/ value # "on"
  PROVE  Set(p, what, value) \in Seq(Telling(p, ws))
  BY CallTelling, Joint DEF Set

LEMMA NeedTelling ==
  ASSUME NEW p, NEW ws, NEW q \in Words, NEW condition \in Words
  PROVE  Need(q, condition) \in Seq(Telling(p, ws))
<1> DEFINE a == Call("need", q, condition, "none")
           S == Telling(p, ws)
<1>1. "need" \in Words /\ "none" \in Words
  BY AllWords
<1>2. a \in AnyStep /\ a.op = "need"
  BY <1>1, CallIsStep
<1>3. Need(q, condition) = <<a>>
  BY DEF Need, Step
<1> HIDE DEF a
<1>4. a \in S
  BY <1>2 DEF Telling
<1> HIDE DEF S
<1> QED
  BY <1>3, <1>4, One DEF S

LEMMA SetOutputTelling ==
  ASSUME NEW p \in Words, NEW ws, {"output_on", "output_off"} \subseteq ws, NEW f, NEW name \in Words
  PROVE  SetOutput(p, f, name) \in Seq(Telling(p, ws))
<1>1. "output_on" \in ws \cap Words /\ "output_off" \in ws \cap Words
  BY AllWords
<1>2. Set(p, "output_on", name) \in Seq(Telling(p, ws)) /\ Set(p, "output_off", name) \in Seq(Telling(p, ws))
  BY <1>1, SetTelling
<1> QED
  BY <1>2 DEF SetOutput

LEMMA AsksHas ==
  ASSUME NEW p \in Words, NEW whats \in Seq(Words), NEW i \in 1 .. Len(whats)
  PROVE  Has(Asks(p, whats), AsksFor(p, whats[i]))
<1> DEFINE s == Asks(p, whats)
<1>1. Len(whats) \in Nat /\ DOMAIN whats = 1 .. Len(whats) /\ whats[i] \in Words
  BY LenProperties, ElementOfSeq
<1>2. Len(s) = Len(whats)
  <2>1. \A what \in Words : Call("ask", p, what, "none") \in Asking({p})
    BY AskIs
  <2> QED
    BY <2>1, AsksOf
<1>3. s[i] = Call("ask", p, whats[i], "none")
  BY <1>1 DEF Asks
<1>4. s[i] \in AsksFor(p, whats[i])
  BY <1>1, <1>3, AskAside
<1> HIDE DEF s
<1>5. Has(s, AsksFor(p, whats[i]))
  BY <1>2, <1>4 DEF Has
<1> QED
  BY <1>5 DEF s

(* Whatever the commands to a circuit change is asked for afterwards.      *)
Answers(u, p, ws) ==
  /\ ws \cap {"mode", "import"} = {}
  /\ \A w \in ws : Settable(p, w) => Has(u, AsksFor(p, w))
  /\ ws \cap {"output_on", "output_off"} # {} => Has(u, AsksFor(p, "output"))
  /\ "calibration" \in ws /\ p = "PH" => Has(u, AsksFor(p, "slope"))

LEMMA AppliesMindful ==
  ASSUME NEW p \in Words, NEW ws, NEW t \in Seq(Telling(p, ws)), NEW u \in Seq(Asking({p})),
         Answers(u, p, ws)
  PROVE  /\ Mindful(t \o u)
         /\ ws \cap {"codes", "baud"} = {} => Kept(t \o u)
<1>1. t \in Seq(AnyStep) /\ u \in Seq(AnyStep) /\ t \o u \in Seq(AnyStep)
  BY TellingKinds, KindsOf, SeqMonotonic, Joint
<1>2. Coupled(t \o u)
  <2>1. Coupled(t)
    BY TellingKinds, Uncoupled
  <2>2. Coupled(u)
    <3>1. Asking({p}) \subseteq AnyStep /\ \A e \in Asking({p}) : e.op # "tell" /\ e.op # "ack"
      BY DEF Asking, OnlyAsks
    <3> QED
      BY <3>1, NoneCoupled
  <2> QED
    BY <1>1, <2>1, <2>2, CoupledJoint
<1>3. ASSUME NEW q, NEW x PROVE ~Has(u, Alters(q, x))
  <2>1. \A e \in Asking({p}) : e \notin Alters(q, x)
    BY DEF Asking, OnlyAsks, Alters
  <2> QED
    BY <2>1, LacksKind
<1>4. ASSUME NEW q, NEW x, q # p \/ Changing(x) \cap ws = {}
      PROVE  ~Has(t \o u, Alters(q, x))
  <2>1. \A e \in Telling(p, ws) : e \notin Alters(q, x)
    BY <1>4, TellingKinds
  <2>2. ~Has(t, Alters(q, x))
    BY <2>1, LacksKind
  <2> QED
    BY <1>1, <1>3, <2>2, HasJoint
<1>5. ASSUME NEW q \in Words PROVE ~Has(t \o u, Alters(q, "mode"))
  <2>1. Changing("mode") \cap ws = {}
    BY DEF Answers, Changing
  <2> QED
    BY <1>4, <2>1
<1>6. ASSUME NEW q \in Words, NEW x, Settable(q, x)
      PROVE  Before(t \o u, Alters(q, x), AsksFor(q, x))
  <2>1. CASE q # p \/ Changing(x) \cap ws = {}
    BY <1>4, <2>1, LacksOrders
  <2>2. CASE q = p /\ Changing(x) \cap ws # {}
    <3>1. Has(u, AsksFor(p, x))
      BY <1>6, <2>2 DEF Answers, Changing, Settable
    <3>2. Before(u, Alters(p, x), AsksFor(p, x))
      BY <1>3, LacksOrders
    <3> QED
      BY <1>1, <2>2, <3>1, <3>2, BeforeJoint
  <2> QED
    BY <2>1, <2>2
<1>7. ASSUME ws \cap {"codes", "baud"} = {} PROVE Kept(t \o u)
  <2>1. Changing("codes") \cap ws = {} /\ Changing("baud") \cap ws = {}
    BY <1>7 DEF Changing
  <2> QED
    BY <1>4, <2>1 DEF Kept
<1> QED
  BY <1>1, <1>2, <1>5, <1>6, <1>7 DEF Mindful, Rereads

LEMMA AsksMindful ==
  ASSUME NEW p \in Words, NEW ws, NEW t \in Seq(Telling(p, ws)), NEW whats \in Seq(Words),
         Answers(Asks(p, whats), p, ws)
  PROVE  /\ Mindful(t \o Asks(p, whats))
         /\ ws \cap {"codes", "baud"} = {} => Kept(t \o Asks(p, whats))
<1>1. Asks(p, whats) \in Seq(Asking({p}))
  <2>1. Asks(p, whats) \in Seq(Asking({p}) \cap Looking({p}))
    BY AsksAsk
  <2>2. Asking({p}) \cap Looking({p}) \subseteq Asking({p})
    OBVIOUS
  <2> QED
    BY <2>1, <2>2, SeqMonotonic
<1> QED
  BY <1>1, AppliesMindful

(* A program acknowledges its last command only if it has sent one.        *)
LEMMA ConfirmedMindful ==
  ASSUME NEW p \in Words, NEW ws, NEW t \in Seq(Telling(p, ws)), NEW whats \in Seq(Words),
         Answers(Asks(p, whats), p, ws), ws \cap {"codes", "baud"} = {},
         NEW b, ~b => t = <<>>
  PROVE  Mindful(t \o If(b, Ack(p) \o Asks(p, whats))) /\ Kept(t \o If(b, Ack(p) \o Asks(p, whats)))
<1> DEFINE a == Ack(p)
           u == Asks(p, whats)
<1>1. CASE b
  <2>1. a \in Seq(Telling(p, ws))
    <3> DEFINE d == Call("ack", p, "OK", "none")
    <3>1. "ack" \in Words /\ "OK" \in Words /\ "none" \in Words
      BY AllWords
    <3>2. d \in AnyStep /\ d.op = "ack" /\ d.what = "OK"
      BY <3>1, CallIsStep
    <3>3. a = <<d>>
      BY DEF Ack, Step
    <3> HIDE DEF d
    <3>4. d \in Telling(p, ws)
      BY <3>2 DEF Telling
    <3> QED
      BY <3>3, <3>4, One
  <2>2. u \in Seq(AnyStep)
    <3>1. Asks(p, whats) \in Seq(Asking({p}) \cap Looking({p}))
      BY AsksAsk
    <3>2. Asking({p}) \cap Looking({p}) \subseteq AnyStep
      BY KindsAreSteps
    <3> QED
      BY <3>1, <3>2, SeqMonotonic
  <2>3. If(b, a \o u) = a \o u
    BY <1>1 DEF If
  <2>4. t \in Seq(AnyStep) /\ a \in Seq(AnyStep) /\ t \o a \in Seq(Telling(p, ws))
    BY <2>1, TellingKinds, SeqMonotonic, Joint
  <2> HIDE DEF a, u
  <2>5. t \o (a \o u) = (t \o a) \o u
    BY <2>2, <2>4, Assoc
  <2>6. Mindful((t \o a) \o Asks(p, whats)) /\ Kept((t \o a) \o Asks(p, whats))
    BY <2>4, AsksMindful
  <2> QED
    BY <2>3, <2>5, <2>6 DEF a, u
<1>2. CASE ~b
  <2>1. t \o If(b, a \o u) = <<>>
    BY <1>2, ConcatEmptySeq, EmptySeq DEF If
  <2> QED
    BY <2>1, MindfulNothing
<1> QED
  BY <1>1, <1>2

(* A list of questions mentions whatever may be changed.                   *)
Mentions(whats, x) == \E i \in 1 .. Len(whats) : whats[i] = x

LEMMA MentionsAnswer ==
  ASSUME NEW p \in Words, NEW ws, NEW whats \in Seq(Words),
         ws \cap {"mode", "import"} = {},
         \A w \in ws : Settable(p, w) => Mentions(whats, w),
         ws \cap {"output_on", "output_off"} # {} => Mentions(whats, "output"),
         "calibration" \in ws /\ p = "PH" => Mentions(whats, "slope")
  PROVE  Answers(Asks(p, whats), p, ws)
<1>1. \A x : Mentions(whats, x) => Has(Asks(p, whats), AsksFor(p, x))
  BY AsksHas DEF Mentions
<1> QED
  BY <1>1 DEF Answers

LEMMA PhTempCompApplyMindful ==
  Mindful(PhTempCompApply) /\ Kept(PhTempCompApply)
<1> DEFINE ws == {"temperature"}
           w == <<"temperature", "read">>
           a == Set("PH", "temperature", "celsius")
           t == a
<1>1. "PH" \in Words /\ w \in Seq(Words)
  BY AllWords, Two
<1>2. t \in Seq(Telling("PH", ws))
  <2>1. a \in Seq(Telling("PH", ws))
    BY AllWords, SetTelling
  <2> HIDE DEF a
  <2> QED
    BY <2>1, Joint
<1>3. Answers(Asks("PH", w), "PH", ws)
  <2>1. Len(w) = 2 /\ 1 .. 2 = {1, 2}
    OBVIOUS
  <2>2. w[1] = "temperature" /\ w[2] = "read"
    OBVIOUS
  <2> HIDE DEF w
  <2>3. Mentions(w, "temperature") /\ Mentions(w, "read")
    BY <2>1, <2>2 DEF Mentions
  <2> QED
    BY <1>1, <2>3, MentionsAnswer DEF Settable
<1>4. PhTempCompApply = t \o Asks("PH", w) /\ ws \cap {"codes", "baud"} = {}
  BY DEF PhTempCompApply
<1> HIDE DEF t, w, ws
<1> QED
  BY <1>1, <1>2, <1>3, <1>4, AsksMindful

LEMMA EcTempCompApplyMindful ==
  Mindful(EcTempCompApply) /\ Kept(EcTempCompApply)
<1> DEFINE ws == {"temperature"}
           w == <<"temperature", "read">>
           a == Set("EC", "temperature", "celsius")
           t == a
<1>1. "EC" \in Words /\ w \in Seq(Words)
  BY AllWords, Two
<1>2. t \in Seq(Telling("EC", ws))
  <2>1. a \in Seq(Telling("EC", ws))
    BY AllWords, SetTelling
  <2> HIDE DEF a
  <2> QED
    BY <2>1, Joint
<1>3. Answers(Asks("EC", w), "EC", ws)
  <2>1. Len(w) = 2 /\ 1 .. 2 = {1, 2}
    OBVIOUS
  <2>2. w[1] = "temperature" /\ w[2] = "read"
    OBVIOUS
  <2> HIDE DEF w
  <2>3. Mentions(w, "temperature") /\ Mentions(w, "read")
    BY <2>1, <2>2 DEF Mentions
  <2> QED
    BY <1>1, <2>3, MentionsAnswer DEF Settable
<1>4. EcTempCompApply = t \o Asks("EC", w) /\ ws \cap {"codes", "baud"} = {}
  BY DEF EcTempCompApply
<1> HIDE DEF t, w, ws
<1> QED
  BY <1>1, <1>2, <1>3, <1>4, AsksMindful

LEMMA DoTempCompApplyMindful ==
  Mindful(DoTempCompApply) /\ Kept(DoTempCompApply)
<1> DEFINE ws == {"temperature"}
           w == <<"temperature", "read">>
           a == Set("DO", "temperature", "celsius")
           t == a
<1>1. "DO" \in Words /\ w \in Seq(Words)
  BY AllWords, Two
<1>2. t \in Seq(Telling("DO", ws))
  <2>1. a \in Seq(Telling("DO", ws))
    BY AllWords, SetTelling
  <2> HIDE DEF a
  <2> QED
    BY <2>1, Joint
<1>3. Answers(Asks("DO", w), "DO", ws)
  <2>1. Len(w) = 2 /\ 1 .. 2 = {1, 2}
    OBVIOUS
  <2>2. w[1] = "temperature" /\ w[2] = "read"
    OBVIOUS
  <2> HIDE DEF w
  <2>3. Mentions(w, "temperature") /\ Mentions(w, "read")
    BY <2>1, <2>2 DEF Mentions
  <2> QED
    BY <1>1, <2>3, MentionsAnswer DEF Settable
<1>4. DoTempCompApply = t \o Asks("DO", w) /\ ws \cap {"codes", "baud"} = {}
  BY DEF DoTempCompApply
<1> HIDE DEF t, w, ws
<1> QED
  BY <1>1, <1>2, <1>3, <1>4, AsksMindful

LEMMA DoSalinityCompApplyMindful ==
  Mindful(DoSalinityCompApply) /\ Kept(DoSalinityCompApply)
<1> DEFINE ws == {"salinity"}
           w == <<"salinity", "read">>
           a == Need("EC", "salinity measured")
           b == Set("DO", "salinity", "ppt")
           t == a \o b
<1>1. "DO" \in Words /\ w \in Seq(Words)
  BY AllWords, Two
<1>2. t \in Seq(Telling("DO", ws))
  <2>1. a \in Seq(Telling("DO", ws))
    BY AllWords, NeedTelling
  <2>2. b \in Seq(Telling("DO", ws))
    BY AllWords, SetTelling
  <2> HIDE DEF a, b
  <2> QED
    BY <2>1, <2>2, Joint
<1>3. Answers(Asks("DO", w), "DO", ws)
  <2>1. Len(w) = 2 /\ 1 .. 2 = {1, 2}
    OBVIOUS
  <2>2. w[1] = "salinity" /\ w[2] = "read"
    OBVIOUS
  <2> HIDE DEF w
  <2>3. Mentions(w, "salinity") /\ Mentions(w, "read")
    BY <2>1, <2>2 DEF Mentions
  <2> QED
    BY <1>1, <2>3, MentionsAnswer DEF Settable
<1>4. DoSalinityCompApply = t \o Asks("DO", w) /\ ws \cap {"codes", "baud"} = {}
  BY DEF DoSalinityCompApply
<1> HIDE DEF t, w, ws
<1> QED
  BY <1>1, <1>2, <1>3, <1>4, AsksMindful

LEMMA DoFullChainApplyMindful ==
  Mindful(DoFullChainApply) /\ Kept(DoFullChainApply)
<1> DEFINE ws == {"temperature", "salinity", "pressure"}
           w == <<"temperature", "salinity", "pressure", "read">>
           a == Need("EC", "salinity measured")
           b == Set("DO", "temperature", "celsius")
           c == Set("DO", "salinity", "ppt")
           d == Set("DO", "pressure", "planned")
           t == a \o b \o c \o d
<1>1. "DO" \in Words /\ w \in Seq(Words)
  BY AllWords, Four
<1>2. t \in Seq(Telling("DO", ws))
  <2>1. a \in Seq(Telling("DO", ws))
    BY AllWords, NeedTelling
  <2>2. b \in Seq(Telling("DO", ws))
    BY AllWords, SetTelling
  <2>3. c \in Seq(Telling("DO", ws))
    BY AllWords, SetTelling
  <2>4. d \in Seq(Telling("DO", ws))
    BY AllWords, SetTelling
  <2> HIDE DEF a, b, c, d
  <2> QED
    BY <2>1, <2>2, <2>3, <2>4, Joint
<1>3. Answers(Asks("DO", w), "DO", ws)
  <2>1. Len(w) = 4 /\ 1 .. 4 = {1, 2, 3, 4}
    OBVIOUS
  <2>2. w[1] = "temperature" /\ w[2] = "salinity" /\ w[3] = "pressure" /\ w[4] = "read"
    OBVIOUS
  <2> HIDE DEF w
  <2>3. Mentions(w, "temperature") /\ Mentions(w, "salinity") /\ Mentions(w, "pressure") /\ Mentions(w, "read")
    BY <2>1, <2>2 DEF Mentions
  <2> QED
    BY <1>1, <2>3, MentionsAnswer DEF Settable
<1>4. DoFullChainApply = t \o Asks("DO", w) /\ ws \cap {"codes", "baud"} = {}
  BY DEF DoFullChainApply
<1> HIDE DEF t, w, ws
<1> QED
  BY <1>1, <1>2, <1>3, <1>4, AsksMindful

LEMMA PhWorkflowApplyMindful ==
  Mindful(PhWorkflowApply) /\ Kept(PhWorkflowApply)
<1> DEFINE ws == {"temperature", "extended"}
           w == <<"temperature", "extended", "read">>
           a == Set("PH", "temperature", "planned")
           b == Set("PH", "extended", "planned")
           t == a \o b
<1>1. "PH" \in Words /\ w \in Seq(Words)
  BY AllWords, Three
<1>2. t \in Seq(Telling("PH", ws))
  <2>1. a \in Seq(Telling("PH", ws))
    BY AllWords, SetTelling
  <2>2. b \in Seq(Telling("PH", ws))
    BY AllWords, SetTelling
  <2> HIDE DEF a, b
  <2> QED
    BY <2>1, <2>2, Joint
<1>3. Answers(Asks("PH", w), "PH", ws)
  <2>1. Len(w) = 3 /\ 1 .. 3 = {1, 2, 3}
    OBVIOUS
  <2>2. w[1] = "temperature" /\ w[2] = "extended" /\ w[3] = "read"
    OBVIOUS
  <2> HIDE DEF w
  <2>3. Mentions(w, "temperature") /\ Mentions(w, "extended") /\ Mentions(w, "read")
    BY <2>1, <2>2 DEF Mentions
  <2> QED
    BY <1>1, <2>3, MentionsAnswer DEF Settable
<1>4. PhWorkflowApply = t \o Asks("PH", w) /\ ws \cap {"codes", "baud"} = {}
  BY DEF PhWorkflowApply
<1> HIDE DEF t, w, ws
<1> QED
  BY <1>1, <1>2, <1>3, <1>4, AsksMindful

LEMMA OrpWorkflowApplyMindful ==
  Mindful(OrpWorkflowApply) /\ Kept(OrpWorkflowApply)
<1> DEFINE ws == {"extended"}
           w == <<"extended", "read">>
           a == Set("ORP", "extended", "planned")
           t == a
<1>1. "ORP" \in Words /\ w \in Seq(Words)
  BY AllWords, Two
<1>2. t \in Seq(Telling("ORP", ws))
  <2>1. a \in Seq(Telling("ORP", ws))
    BY AllWords, SetTelling
  <2> HIDE DEF a
  <2> QED
    BY <2>1, Joint
<1>3. Answers(Asks("ORP", w), "ORP", ws)
  <2>1. Len(w) = 2 /\ 1 .. 2 = {1, 2}
    OBVIOUS
  <2>2. w[1] = "extended" /\ w[2] = "read"
    OBVIOUS
  <2> HIDE DEF w
  <2>3. Mentions(w, "extended") /\ Mentions(w, "read")
    BY <2>1, <2>2 DEF Mentions
  <2> QED
    BY <1>1, <2>3, MentionsAnswer DEF Settable
<1>4. OrpWorkflowApply = t \o Asks("ORP", w) /\ ws \cap {"codes", "baud"} = {}
  BY DEF OrpWorkflowApply
<1> HIDE DEF t, w, ws
<1> QED
  BY <1>1, <1>2, <1>3, <1>4, AsksMindful

LEMMA EcWorkflowApplyMindful ==
  ASSUME NEW f
  PROVE  Mindful(EcWorkflowApply(f)) /\ Kept(EcWorkflowApply(f))
<1> DEFINE ws == {"temperature", "probe_k", "tds", "output_on", "output_off"}
           w == <<"output", "temperature", "probe_k", "tds", "read">>
           a == Set("EC", "temperature", "planned")
           b == Set("EC", "probe_k", "planned")
           c == Set("EC", "tds", "planned")
           d == SetOutput("EC", f, "S")
           t == a \o b \o c \o d
<1>1. "EC" \in Words /\ w \in Seq(Words)
  BY AllWords, Five
<1>2. t \in Seq(Telling("EC", ws))
  <2>1. a \in Seq(Telling("EC", ws))
    BY AllWords, SetTelling
  <2>2. b \in Seq(Telling("EC", ws))
    BY AllWords, SetTelling
  <2>3. c \in Seq(Telling("EC", ws))
    BY AllWords, SetTelling
  <2>4. d \in Seq(Telling("EC", ws))
    BY AllWords, SetOutputTelling
  <2> HIDE DEF a, b, c, d
  <2> QED
    BY <2>1, <2>2, <2>3, <2>4, Joint
<1>3. Answers(Asks("EC", w), "EC", ws)
  <2>1. Len(w) = 5 /\ 1 .. 5 = {1, 2, 3, 4, 5}
    OBVIOUS
  <2>2. w[1] = "output" /\ w[2] = "temperature" /\ w[3] = "probe_k" /\ w[4] = "tds" /\ w[5] = "read"
    OBVIOUS
  <2> HIDE DEF w
  <2>3. Mentions(w, "output") /\ Mentions(w, "temperature") /\ Mentions(w, "probe_k") /\ Mentions(w, "tds") /\ Mentions(w, "read")
    BY <2>1, <2>2 DEF Mentions
  <2> QED
    BY <1>1, <2>3, MentionsAnswer DEF Settable
<1>4. EcWorkflowApply(f) = t \o Asks("EC", w) /\ ws \cap {"codes", "baud"} = {}
  BY DEF EcWorkflowApply
<1> HIDE DEF t, w, ws
<1> QED
  BY <1>1, <1>2, <1>3, <1>4, AsksMindful

LEMMA DoWorkflowApplyMindful ==
  ASSUME NEW f
  PROVE  Mindful(DoWorkflowApply(f)) /\ Kept(DoWorkflowApply(f))
<1> DEFINE ws == {"temperature", "salinity", "pressure", "output_on", "output_off"}
           w == <<"output", "temperature", "salinity", "pressure", "read">>
           a == Set("DO", "temperature", "planned")
           b == Set("DO", "salinity", "planned")
           c == Set("DO", "pressure", "planned")
           d == SetOutput("DO", f, "%")
           t == a \o b \o c \o d
<1>1. "DO" \in Words /\ w \in Seq(Words)
  BY AllWords, Five
<1>2. t \in Seq(Telling("DO", ws))
  <2>1. a \in Seq(Telling("DO", ws))
    BY AllWords, SetTelling
  <2>2. b \in Seq(Telling("DO", ws))
    BY AllWords, SetTelling
  <2>3. c \in Seq(Telling("DO", ws))
    BY AllWords, SetTelling
  <2>4. d \in Seq(Telling("DO", ws))
    BY AllWords, SetOutputTelling
  <2> HIDE DEF a, b, c, d
  <2> QED
    BY <2>1, <2>2, <2>3, <2>4, Joint
<1>3. Answers(Asks("DO", w), "DO", ws)
  <2>1. Len(w) = 5 /\ 1 .. 5 = {1, 2, 3, 4, 5}
    OBVIOUS
  <2>2. w[1] = "output" /\ w[2] = "temperature" /\ w[3] = "salinity" /\ w[4] = "pressure" /\ w[5] = "read"
    OBVIOUS
  <2> HIDE DEF w
  <2>3. Mentions(w, "output") /\ Mentions(w, "temperature") /\ Mentions(w, "salinity") /\ Mentions(w, "pressure") /\ Mentions(w, "read")
    BY <2>1, <2>2 DEF Mentions
  <2> QED
    BY <1>1, <2>3, MentionsAnswer DEF Settable
<1>4. DoWorkflowApply(f) = t \o Asks("DO", w) /\ ws \cap {"codes", "baud"} = {}
  BY DEF DoWorkflowApply
<1> HIDE DEF t, w, ws
<1> QED
  BY <1>1, <1>2, <1>3, <1>4, AsksMindful

LEMMA HumWorkflowApplyMindful ==
  ASSUME NEW f
  PROVE  Mindful(HumWorkflowApply(f)) /\ Kept(HumWorkflowApply(f))
<1> DEFINE ws == {"calibration", "output_on", "output_off"}
           w == <<"output", "calibration", "read">>
           a == SetOutput("HUM", f, "Dew")
           b == Set("HUM", "calibration", "calibrate")
           t == a \o b
<1>1. "HUM" \in Words /\ w \in Seq(Words)
  BY AllWords, Three
<1>2. t \in Seq(Telling("HUM", ws))
  <2>1. a \in Seq(Telling("HUM", ws))
    BY AllWords, SetOutputTelling
  <2>2. b \in Seq(Telling("HUM", ws))
    BY AllWords, SetTelling
  <2> HIDE DEF a, b
  <2> QED
    BY <2>1, <2>2, Joint
<1>3. Answers(Asks("HUM", w), "HUM", ws)
  <2>1. Len(w) = 3 /\ 1 .. 3 = {1, 2, 3}
    OBVIOUS
  <2>2. w[1] = "output" /\ w[2] = "calibration" /\ w[3] = "read"
    OBVIOUS
  <2> HIDE DEF w
  <2>3. Mentions(w, "output") /\ Mentions(w, "calibration") /\ Mentions(w, "read")
    BY <2>1, <2>2 DEF Mentions
  <2> QED
    BY <1>1, <2>3, MentionsAnswer DEF Settable
<1>4. HumWorkflowApply(f) = t \o Asks("HUM", w) /\ ws \cap {"codes", "baud"} = {}
  BY DEF HumWorkflowApply
<1> HIDE DEF t, w, ws
<1> QED
  BY <1>1, <1>2, <1>3, <1>4, AsksMindful

LEMMA RtdWorkflowApplyMindful ==
  ASSUME NEW f
  PROVE  Mindful(RtdWorkflowApply(f)) /\ Kept(RtdWorkflowApply(f))
<1> DEFINE ws == {"scale", "logger", "memory"}
           w == <<"scale", "logger", "memory">>
           a == Set("RTD", "scale", "k")
           b == Set("RTD", "logger", "planned")
           c == If("clear-memory" \in f, Set("RTD", "memory", "clear"))
           t == a \o b \o c
<1>1. "RTD" \in Words /\ w \in Seq(Words)
  BY AllWords, Three
<1>2. t \in Seq(Telling("RTD", ws))
  <2>1. a \in Seq(Telling("RTD", ws))
    BY AllWords, SetTelling
  <2>2. b \in Seq(Telling("RTD", ws))
    BY AllWords, SetTelling
  <2>3. c \in Seq(Telling("RTD", ws))
    BY AllWords, SetTelling, Optional
  <2> HIDE DEF a, b, c
  <2> QED
    BY <2>1, <2>2, <2>3, Joint
<1>3. Answers(Asks("RTD", w), "RTD", ws)
  <2>1. Len(w) = 3 /\ 1 .. 3 = {1, 2, 3}
    OBVIOUS
  <2>2. w[1] = "scale" /\ w[2] = "logger" /\ w[3] = "memory"
    OBVIOUS
  <2> HIDE DEF w
  <2>3. Mentions(w, "scale") /\ Mentions(w, "logger") /\ Mentions(w, "memory")
    BY <2>1, <2>2 DEF Mentions
  <2> QED
    BY <1>1, <2>3, MentionsAnswer DEF Settable
<1>4. RtdWorkflowApply(f) = t \o Asks("RTD", w) /\ ws \cap {"codes", "baud"} = {}
  BY DEF RtdWorkflowApply
<1> HIDE DEF t, w, ws
<1> QED
  BY <1>1, <1>2, <1>3, <1>4, AsksMindful

LEMMA CalibrateTelling ==
  ASSUME NEW p \in Words, NEW ws, "calibration" \in ws, NEW f, StepOf(f) \in Words
  PROVE  Calibrate(p, f) \in Seq(Telling(p, ws))
<1>1. "calibration" \in ws \cap Words
  BY AllWords
<1>2. Tell(p, "calibration", StepOf(f)) \in Seq(Telling(p, ws))
  BY <1>1, CallTelling
<1> QED
  BY <1>2, Optional DEF Calibrate

LEMMA PhCalibrationApplyMindful ==
  ASSUME NEW f, StepOf(f) \in Words
  PROVE  Mindful(PhCalibrationApply(f)) /\ Kept(PhCalibrationApply(f))
<1> DEFINE ws == {"calibration"}
           w == <<"calibration", "slope">>
           t == Calibrate("PH", f)
           b == StepOf(f) # "status"
<1>1. "PH" \in Words /\ w \in Seq(Words)
  BY AllWords, Two
<1>2. t \in Seq(Telling("PH", ws))
  BY <1>1, CalibrateTelling
<1>3. Answers(Asks("PH", w), "PH", ws)
  <2>1. Len(w) = 2 /\ 1 .. 2 = {1, 2}
    OBVIOUS
  <2>2. w[1] = "calibration" /\ w[2] = "slope"
    OBVIOUS
  <2> HIDE DEF w
  <2>3. Mentions(w, "calibration") /\ Mentions(w, "slope")
    BY <2>1, <2>2 DEF Mentions
  <2> QED
    BY <1>1, <2>3, MentionsAnswer DEF Settable
<1>4. ~b => t = <<>>
  BY DEF Calibrate, If
<1>5. PhCalibrationApply(f) = t \o If(b, Ack("PH") \o Asks("PH", w)) /\ ws \cap {"codes", "baud"} = {}
  BY DEF PhCalibrationApply, Confirmed
<1> HIDE DEF t, w, ws, b
<1> QED
  BY <1>1, <1>2, <1>3, <1>4, <1>5, ConfirmedMindful

LEMMA OrpCalibrationApplyMindful ==
  ASSUME NEW f, StepOf(f) \in Words
  PROVE  Mindful(OrpCalibrationApply(f)) /\ Kept(OrpCalibrationApply(f))
<1> DEFINE ws == {"calibration"}
           w == <<"calibration">>
           t == Calibrate("ORP", f)
           b == StepOf(f) # "status"
<1>1. "ORP" \in Words /\ w \in Seq(Words)
  BY AllWords, One
<1>2. t \in Seq(Telling("ORP", ws))
  BY <1>1, CalibrateTelling
<1>3. Answers(Asks("ORP", w), "ORP", ws)
  <2>1. Len(w) = 1 /\ 1 .. 1 = {1}
    OBVIOUS
  <2>2. w[1] = "calibration"
    OBVIOUS
  <2> HIDE DEF w
  <2>3. Mentions(w, "calibration")
    BY <2>1, <2>2 DEF Mentions
  <2> QED
    BY <1>1, <2>3, MentionsAnswer DEF Settable
<1>4. ~b => t = <<>>
  BY DEF Calibrate, If
<1>5. OrpCalibrationApply(f) = t \o If(b, Ack("ORP") \o Asks("ORP", w)) /\ ws \cap {"codes", "baud"} = {}
  BY DEF OrpCalibrationApply, Confirmed
<1> HIDE DEF t, w, ws, b
<1> QED
  BY <1>1, <1>2, <1>3, <1>4, <1>5, ConfirmedMindful

LEMMA RtdCalibrationApplyMindful ==
  ASSUME NEW f, StepOf(f) \in Words
  PROVE  Mindful(RtdCalibrationApply(f)) /\ Kept(RtdCalibrationApply(f))
<1> DEFINE ws == {"calibration"}
           w == <<"calibration">>
           t == Calibrate("RTD", f)
           b == StepOf(f) # "status"
<1>1. "RTD" \in Words /\ w \in Seq(Words)
  BY AllWords, One
<1>2. t \in Seq(Telling("RTD", ws))
  BY <1>1, CalibrateTelling
<1>3. Answers(Asks("RTD", w), "RTD", ws)
  <2>1. Len(w) = 1 /\ 1 .. 1 = {1}
    OBVIOUS
  <2>2. w[1] = "calibration"
    OBVIOUS
  <2> HIDE DEF w
  <2>3. Mentions(w, "calibration")
    BY <2>1, <2>2 DEF Mentions
  <2> QED
    BY <1>1, <2>3, MentionsAnswer DEF Settable
<1>4. ~b => t = <<>>
  BY DEF Calibrate, If
<1>5. RtdCalibrationApply(f) = t \o If(b, Ack("RTD") \o Asks("RTD", w)) /\ ws \cap {"codes", "baud"} = {}
  BY DEF RtdCalibrationApply, Confirmed
<1> HIDE DEF t, w, ws, b
<1> QED
  BY <1>1, <1>2, <1>3, <1>4, <1>5, ConfirmedMindful

LEMMA HumCalibrationApplyMindful ==
  ASSUME NEW f, StepOf(f) \in Words
  PROVE  Mindful(HumCalibrationApply(f)) /\ Kept(HumCalibrationApply(f))
<1> DEFINE ws == {"calibration"}
           w == <<"calibration">>
           t == Calibrate("HUM", f)
           b == StepOf(f) # "status"
<1>1. "HUM" \in Words /\ w \in Seq(Words)
  BY AllWords, One
<1>2. t \in Seq(Telling("HUM", ws))
  BY <1>1, CalibrateTelling
<1>3. Answers(Asks("HUM", w), "HUM", ws)
  <2>1. Len(w) = 1 /\ 1 .. 1 = {1}
    OBVIOUS
  <2>2. w[1] = "calibration"
    OBVIOUS
  <2> HIDE DEF w
  <2>3. Mentions(w, "calibration")
    BY <2>1, <2>2 DEF Mentions
  <2> QED
    BY <1>1, <2>3, MentionsAnswer DEF Settable
<1>4. ~b => t = <<>>
  BY DEF Calibrate, If
<1>5. HumCalibrationApply(f) = t \o If(b, Ack("HUM") \o Asks("HUM", w)) /\ ws \cap {"codes", "baud"} = {}
  BY DEF HumCalibrationApply, Confirmed
<1> HIDE DEF t, w, ws, b
<1> QED
  BY <1>1, <1>2, <1>3, <1>4, <1>5, ConfirmedMindful

LEMMA DoCalibrationApplyMindful ==
  ASSUME NEW f, StepOf(f) \in Words
  PROVE  Mindful(DoCalibrationApply(f)) /\ Kept(DoCalibrationApply(f))
<1> DEFINE ws == {"temperature", "calibration"}
           w == <<"temperature", "calibration">>
           a == If(StepOf(f) = "operating-temp-recal", Set("DO", "temperature", "planned"))
           c == Calibrate("DO", f)
           t == a \o c
           b == StepOf(f) # "status"
<1>1. "DO" \in Words /\ w \in Seq(Words)
  BY AllWords, Two
<1>2. t \in Seq(Telling("DO", ws))
  <2>1. a \in Seq(Telling("DO", ws))
    BY AllWords, SetTelling, Optional
  <2>2. c \in Seq(Telling("DO", ws))
    BY <1>1, CalibrateTelling
  <2> HIDE DEF a, c
  <2> QED
    BY <2>1, <2>2, Joint
<1>3. Answers(Asks("DO", w), "DO", ws)
  <2>1. Len(w) = 2 /\ 1 .. 2 = {1, 2}
    OBVIOUS
  <2>2. w[1] = "temperature" /\ w[2] = "calibration"
    OBVIOUS
  <2> HIDE DEF w
  <2>3. Mentions(w, "temperature") /\ Mentions(w, "calibration")
    BY <2>1, <2>2 DEF Mentions
  <2> QED
    BY <1>1, <2>3, MentionsAnswer DEF Settable
<1>4. ~b => t = <<>>
  BY ConcatEmptySeq, EmptySeq DEF Calibrate, If
<1>5. DoCalibrationApply(f) = t \o If(b, Ack("DO") \o Asks("DO", w)) /\ ws \cap {"codes", "baud"} = {}
  BY DEF DoCalibrationApply, Confirmed
<1> HIDE DEF t, w, ws, b
<1> QED
  BY <1>1, <1>2, <1>3, <1>4, <1>5, ConfirmedMindful

LEMMA EcCalibrationApplyMindful ==
  ASSUME NEW f, StepOf(f) \in Words
  PROVE  Mindful(EcCalibrationApply(f)) /\ Kept(EcCalibrationApply(f))
<1> DEFINE ws == {"probe_k", "calibration"}
           w == <<"probe_k", "calibration">>
           a == If("probe-k" \in f, Set("EC", "probe_k", "planned"))
           c == Calibrate("EC", f)
           t == a \o c
           b == StepOf(f) # "status" \/ "probe-k" \in f
<1>1. "EC" \in Words /\ w \in Seq(Words)
  BY AllWords, Two
<1>2. t \in Seq(Telling("EC", ws))
  <2>1. a \in Seq(Telling("EC", ws))
    BY AllWords, SetTelling, Optional
  <2>2. c \in Seq(Telling("EC", ws))
    BY <1>1, CalibrateTelling
  <2> HIDE DEF a, c
  <2> QED
    BY <2>1, <2>2, Joint
<1>3. Answers(Asks("EC", w), "EC", ws)
  <2>1. Len(w) = 2 /\ 1 .. 2 = {1, 2}
    OBVIOUS
  <2>2. w[1] = "probe_k" /\ w[2] = "calibration"
    OBVIOUS
  <2> HIDE DEF w
  <2>3. Mentions(w, "probe_k") /\ Mentions(w, "calibration")
    BY <2>1, <2>2 DEF Mentions
  <2> QED
    BY <1>1, <2>3, MentionsAnswer DEF Settable
<1>4. ~b => t = <<>>
  BY ConcatEmptySeq, EmptySeq DEF Calibrate, If
<1>5. EcCalibrationApply(f) = t \o If(b, Ack("EC") \o Asks("EC", w)) /\ ws \cap {"codes", "baud"} = {}
  BY DEF EcCalibrationApply
<1> HIDE DEF t, w, ws, b
<1> QED
  BY <1>1, <1>2, <1>3, <1>4, <1>5, ConfirmedMindful

LEMMA ControlAppliesTelling ==
  ASSUME NEW p \in Words, NEW f, {"send-sleep", "factory-reset"} \cap f = {}
  PROVE  ControlWorkflowApply(p, f) \in Seq(Telling(p, {"name", "led", "plock", "find"}))
<1> DEFINE ws == {"name", "led", "plock", "find"}
           S == Telling(p, ws)
           a == If("set-name" \in f, Set(p, "name", "planned"))
           b == If("set-led" \in f, Set(p, "led", "planned"))
           c == If("set-protocol-lock" \in f, SetLock(p, f))
           d == If("send-find" \in f, Set(p, "find", "planned"))
           e == If("send-sleep" \in f, Tell(p, "mode", "asleep"))
           g == If("factory-reset" \in f, Tell(p, "mode", "reset"))
<1>1. ASSUME NEW q, NEW what \in ws, NEW value \in {"planned", "on", "off"} PROVE If(q, Set(p, what, value)) \in Seq(S)
  <2>1. what \in ws \cap Words /\ value \in Words /\ what # "codes"
    BY AllWords
  <2> HIDE DEF ws
  <2>2. Set(p, what, value) \in Seq(S)
    BY <2>1, SetTelling
  <2> HIDE DEF S
  <2> QED
    BY <2>2, Optional
<1>2. a \in Seq(S) /\ b \in Seq(S) /\ c \in Seq(S) /\ d \in Seq(S)
  BY <1>1 DEF SetLock
<1>3. e = <<>> /\ g = <<>>
  BY DEF If
<1>4. e \in Seq(S) /\ g \in Seq(S)
  BY <1>3, EmptySeq
<1>5. ControlWorkflowApply(p, f) = a \o b \o c \o d \o e \o g
  BY DEF ControlWorkflowApply
<1> HIDE DEF a, b, c, d, e, g, S
<1>6. a \o b \o c \o d \o e \o g \in Seq(S)
  BY <1>2, <1>4, Joint
<1> QED
  BY <1>5, <1>6 DEF S

LEMMA CodesAskedAgain ==
  ASSUME NEW p \in Words
  PROVE  Mindful(Set(p, "codes", "off") \o Ask(p, "codes")) /\ Mindful(TurnsOn(p) \o Ask(p, "codes"))
<1> DEFINE c == Set(p, "codes", "off")
           d == Ask(p, "codes")
           t == TurnsOn(p)
<1>1. d \in Seq(Asking({p}) \cap Looking({p}))
  BY AllWords, AskAsks
<1>2. Mindful(c \o d)
  <2>1. "codes" \in {"codes"} \cap Words /\ "off" \in Words
    BY AllWords
  <2>2. c \in Seq(Telling(p, {"codes"}))
    BY <2>1, SetTelling
  <2>3. d \in Seq(Asking({p}))
    <3>1. Asking({p}) \cap Looking({p}) \subseteq Asking({p})
      OBVIOUS
    <3> HIDE DEF d
    <3> QED
      BY <1>1, <3>1, SeqMonotonic
  <2>4. Has(d, AsksFor(p, "codes"))
    <3> DEFINE e == Call("ask", p, "codes", "none")
    <3>1. e \in AsksFor(p, "codes")
      BY <2>1, AskAside
    <3>2. d = <<e>>
      BY DEF Ask, Step
    <3> HIDE DEF d, e
    <3>3. 1 \in 1 .. Len(d) /\ d[1] = e
      BY <3>2
    <3> QED
      BY <3>1, <3>3 DEF Has
  <2>5. Answers(d, p, {"codes"})
    BY <2>4 DEF Answers
  <2> HIDE DEF c, d
  <2> QED
    BY <2>2, <2>3, <2>5, AppliesMindful
<1>3. Mindful(t)
  <2>1. t \in Seq(Inspecting)
    <3>1. {e \in Looking({p}) : e.op \in {"tell", "ack"}} \subseteq Inspecting
      BY DEF Looking, Looks, Inspecting, Inspects
    <3> QED
      BY <3>1, TurnsOnIs, SeqMonotonic
  <2>2. Coupled(t)
    BY TurnsOnIs
  <2> QED
    BY <2>1, <2>2, InspectingMindful
<1>4. Mindful(d)
  <2>1. Asking({p}) \cap Looking({p}) \subseteq Inspecting
    BY DEF Asking, OnlyAsks, Looking, Inspecting, Inspects
  <2>2. d \in Seq(Inspecting) /\ d \in Seq(AnyStep)
    BY <1>1, <2>1, SeqMonotonic DEF Inspecting
  <2>3. Coupled(d)
    <3> DEFINE S == Asking({p}) \cap Looking({p})
    <3>1. S \subseteq AnyStep /\ \A e \in S : e.op # "tell" /\ e.op # "ack"
      BY DEF Asking, OnlyAsks
    <3> HIDE DEF S, d
    <3> QED
      BY <1>1, <3>1, NoneCoupled DEF S
  <2> QED
    BY <2>2, <2>3, InspectingMindful
<1> HIDE DEF c, d, t
<1>5. Mindful(t \o d)
  BY <1>3, <1>4, MindfulJoint
<1> QED
  BY <1>2, <1>5 DEF c, d, t

LEMMA ControlMindful ==
  ASSUME NEW p \in Products, NEW f, {"send-sleep", "factory-reset"} \cap f = {}
  PROVE  LET s == ControlWorkflowApply(p, f) \o ControlWorkflowAfter(p, f) IN
         Mindful(s) /\ ("set-response-codes" \notin f => Kept(s))
<1> DEFINE ws == {"name", "led", "plock", "find"}
           w == <<"name", "led", "plock", "baud">>
           t == ControlWorkflowApply(p, f)
           u == Asks(p, w)
           c == SetCodes(p, f)
           d == Ask(p, "codes")
           v == If("set-response-codes" \in f, c \o d)
<1>1. p \in Words /\ w \in Seq(Words)
  BY ProductsAreWords, AllWords, Four
<1>2. t \in Seq(Telling(p, ws))
  BY <1>1, ControlAppliesTelling
<1>3. Answers(u, p, ws)
  <2>1. Len(w) = 4 /\ 1 .. 4 = {1, 2, 3, 4}
    OBVIOUS
  <2>2. w[1] = "name" /\ w[2] = "led" /\ w[3] = "plock" /\ w[4] = "baud"
    OBVIOUS
  <2> HIDE DEF w
  <2>3. Mentions(w, "name") /\ Mentions(w, "led") /\ Mentions(w, "plock")
    BY <2>1, <2>2 DEF Mentions
  <2> QED
    BY <1>1, <2>3, MentionsAnswer DEF Settable
<1>4. Mindful(t \o u) /\ Kept(t \o u)
  <2>1. ws \cap {"codes", "baud"} = {}
    OBVIOUS
  <2> HIDE DEF w, ws, t
  <2> QED
    BY <1>1, <1>2, <1>3, <2>1, AsksMindful
<1>5. Mindful(c \o d)
  <2>1. c = TurnsOn(p) \/ c = Set(p, "codes", "off")
    BY DEF SetCodes, TurnsOn
  <2> QED
    BY <1>1, <2>1, CodesAskedAgain
<1>6. Mindful(v) /\ ("set-response-codes" \notin f => Kept(v))
  BY <1>5, MindfulNothing DEF If
<1>7. ControlWorkflowAfter(p, f) = u \o v
  BY DEF ControlWorkflowAfter, If
<1>8. t \o (u \o v) = (t \o u) \o v
  <2>1. t \in Seq(AnyStep)
    BY <1>2, TellingKinds, SeqMonotonic
  <2>2. u \in Seq(AnyStep)
    <3>1. u \in Seq(Asking({p}) \cap Looking({p}))
      BY <1>1, AsksAsk
    <3>2. Asking({p}) \cap Looking({p}) \subseteq AnyStep
      BY KindsAreSteps
    <3> QED
      BY <3>1, <3>2, SeqMonotonic
  <2>3. v \in Seq(AnyStep)
    BY <1>6 DEF Mindful
  <2> HIDE DEF t, u, v
  <2> QED
    BY <2>1, <2>2, <2>3, Assoc
<1>9. Mindful((t \o u) \o v) /\ ("set-response-codes" \notin f => Kept((t \o u) \o v))
  BY <1>4, <1>6, MindfulJoint
<1> QED
  BY <1>7, <1>8, <1>9 DEF t

(* The over-all inspection over I2C, of which no query stops it. *)
Quiet == {e \in AnyStep : e.op \notin {"tell", "ack"}}

LEMMA QuietMindful ==
  ASSUME NEW s \in Seq(Quiet)
  PROVE  Mindful(s) /\ Kept(s)
<1>1. Quiet \subseteq AnyStep /\ Quiet \subseteq Inspecting
  BY DEF Quiet, Inspecting, Inspects
<1>2. Coupled(s)
  <2>1. \A e \in Quiet : e.op # "tell" /\ e.op # "ack"
    BY DEF Quiet
  <2> QED
    BY <1>1, <2>1, NoneCoupled
<1>3. s \in Seq(Inspecting)
  BY <1>1, SeqMonotonic
<1> QED
  BY <1>2, <1>3, InspectingMindful

LEMMA StepQuiet ==
  ASSUME NEW op \in Words, op # "tell", op # "ack", NEW p \in Words, NEW what \in Words
  PROVE  Call(op, p, what, "none") \in Quiet /\ Step(op, p, what) \in Seq(Quiet)
<1> DEFINE a == Call(op, p, what, "none")
<1>0. "none" \in Words
  BY AllWords
<1>1. a \in AnyStep /\ a.op = op
  BY <1>0, CallIsStep
<1>2. Step(op, p, what) = <<a>>
  BY DEF Step
<1> HIDE DEF a
<1>3. a \in Quiet
  BY <1>1 DEF Quiet
<1> QED
  BY <1>2, <1>3, One DEF a

LEMMA InspectionQuiet ==
  ASSUME NEW p \in Products
  PROVE  InspectDeviceI2c(p) \in Seq(Quiet) /\ ReadinessCheckI2c(p) \in Seq(Quiet)
<1>1. Open(p) \in Seq(Quiet) /\ Ask(p, "info") \in Seq(Quiet)
      /\ Step("raise", p, "first error") \in Seq(Quiet)
  BY ProductsAreWords, AllWords, StepQuiet DEF Open, Ask
<1> DEFINE s == Asks(p, <<"name", "status", "led", "plock">>)
<1>2. s \in Seq(Quiet)
  <2>1. <<"name", "status", "led", "plock">> \in Seq(Words)
    BY AllWords, Four
  <2>2. \A what \in Words : Call("ask", p, what, "none") \in Quiet
    BY ProductsAreWords, AllWords, StepQuiet
  <2> QED
    BY <2>1, <2>2, ProductsAreWords, AsksOf
<1> HIDE DEF s
<1>3. GoingOn(s) \in Seq(Quiet)
  <2>1. ASSUME NEW e \in Quiet PROVE Made(e, e.when, "goes on") \in Quiet
    <3> DEFINE t == Made(e, e.when, "goes on")
    <3>1. e \in AnyStep /\ e.op \notin {"tell", "ack"}
      BY DEF Quiet
    <3>2. t \in AnyStep /\ t.op = e.op
      BY <3>1 DEF Made, AnyStep
    <3> HIDE DEF t
    <3>3. t \in Quiet
      BY <3>1, <3>2 DEF Quiet
    <3> QED
      BY <3>3 DEF t
  <2>2. Len(s) \in Nat /\ DOMAIN s = 1 .. Len(s) /\ \A i \in 1 .. Len(s) : s[i] \in Quiet
    BY <1>2, LenProperties, ElementOfSeq
  <2> QED
    BY <2>1, <2>2, SeqOf DEF GoingOn
<1>4. SharedControlI2c(p) \in Seq(Quiet)
  BY <1>1, <1>3, Joint DEF SharedControlI2c, s
<1>5. InspectDeviceI2c(p) \in Seq(Quiet)
  BY <1>1, <1>4, Joint DEF InspectDeviceI2c
<1>6. OverI2c(ProductReadiness(p)) \in Seq(Quiet)
  <2>1. ProductReadiness(p) \in Seq(Quiet)
    <3>1. Asking({p}) \cap Looking({p}) \subseteq Quiet
      BY DEF Asking, OnlyAsks, Quiet
    <3> QED
      BY <3>1, ProductReadinessAsks, SeqMonotonic
  <2>2. ASSUME NEW e \in Quiet PROVE Made(e, "never", e.failing) \in Quiet
    <3> DEFINE t == Made(e, "never", e.failing)
    <3>1. e \in AnyStep /\ e.op \notin {"tell", "ack"} /\ "never" \in Words
      BY AllWords DEF Quiet
    <3>2. t \in AnyStep /\ t.op = e.op
      BY <3>1, MadeWhen
    <3> HIDE DEF t
    <3>3. t \in Quiet
      BY <3>1, <3>2 DEF Quiet
    <3> QED
      BY <3>3 DEF t
  <2> QED
    BY <2>1, <2>2, OverI2cOf
<1> QED
  BY <1>5, <1>6, Joint DEF ReadinessCheckI2c, ProductReadinessI2c

(* A transfer changes the calibration and asks for the response codes and  *)
(* the size of the calibration alone.                                      *)
Conveys(e) ==
  /\ e.op = "tell" => TurnsCodesOn(e) \/ e.what = "import"
  /\ e.op = "ask" => e.what \in {"codes", "chunks"}

Conveying == {e \in AnyStep : Conveys(e)}

LEMMA ConveyingReviews ==
  ASSUME NEW s \in Seq(Conveying), Coupled(s)
  PROVE  s \in Seq(AnyStep) /\ Coupled(s) /\ Reviews(s)
<1>1. s \in Seq(AnyStep)
  <2>1. Conveying \subseteq AnyStep
    BY DEF Conveying
  <2> QED
    BY <2>1, SeqMonotonic
<1>2. ASSUME NEW p, NEW x, "import" \notin Changing(x) PROVE ~Has(s, Alters(p, x))
  <2>1. \A e \in Conveying : e \notin Alters(p, x)
    BY <1>2 DEF Conveying, Conveys, Alters
  <2> QED
    BY <2>1, LacksKind
<1>3. ASSUME NEW p, NEW x, x \notin {"codes", "chunks"} PROVE ~Has(s, Questions(p, x))
  <2>1. \A e \in Conveying : e \notin Questions(p, x)
    BY <1>3 DEF Conveying, Conveys, Questions
  <2> QED
    BY <2>1, LacksKind
<1>4. \A p \in Words : ~Has(s, Alters(p, "mode"))
  BY <1>2 DEF Changing
<1>5. ASSUME NEW p \in Words, NEW x, Settable(p, x)
      PROVE  \/ Before(s, Alters(p, x), AsksFor(p, x))
             \/ x # "codes" /\ ~Has(s, Questions(p, x))
  <2>1. CASE x \in {"calibration", "slope"}
    BY <1>3, <2>1
  <2>2. CASE x \notin {"calibration", "slope"}
    <3>1. "import" \notin Changing(x)
      BY <1>5, <2>2 DEF Changing, Settable
    <3> QED
      BY <1>2, <3>1, LacksOrders
  <2> QED
    BY <2>1, <2>2
<1> QED
  BY <1>1, <1>4, <1>5 DEF Reviews

LEMMA ConveyingOverI2c ==
  ASSUME NEW s \in Seq(Conveying)
  PROVE  OverI2c(s) \in Seq(Conveying)
<1>1. ASSUME NEW e \in Conveying PROVE Made(e, "never", e.failing) \in Conveying
  <2> DEFINE t == Made(e, "never", e.failing)
  <2>1. e \in AnyStep /\ Conveys(e) /\ "never" \in Words
    BY AllWords DEF Conveying
  <2>2. t \in AnyStep /\ t.op = e.op /\ t.what = e.what /\ t.value = e.value
    BY <2>1, MadeWhen
  <2> HIDE DEF t
  <2>3. t \in Conveying
    BY <2>1, <2>2 DEF Conveying, Conveys, TurnsCodesOn
  <2> QED
    BY <2>3 DEF t
<1> QED
  BY <1>1, OverI2cOf

LEMMA StepConveying ==
  ASSUME NEW op \in Words, NEW p \in Words, NEW what \in Words, NEW value \in Words,
         op = "tell" => what = "import" \/ (what = "codes" /\ value = "on"),
         op = "ask" => what \in {"codes", "chunks"}
  PROVE  <<Call(op, p, what, value)>> \in Seq(Conveying)
<1> DEFINE a == Call(op, p, what, value)
<1>1. a \in AnyStep /\ a.op = op /\ a.what = what /\ a.value = value
  BY CallIsStep
<1> HIDE DEF a
<1>2. a \in Conveying
  BY <1>1 DEF Conveying, Conveys, TurnsCodesOn
<1>3. <<a>> \in Seq(Conveying)
  BY <1>2, One
<1> QED
  BY <1>3 DEF a

LEMMA BeginConveying ==
  ASSUME NEW p \in Words
  PROVE  Begin(p) \in Seq(Conveying)
<1> DEFINE S == Conveying
           t == Tell(p, "codes", "on") \o Step("ack", p, "codes")
<1>0. /\ "discard" \in Words /\ "input" \in Words /\ "none" \in Words /\ "codes" \in Words
      /\ "tell" \in Words /\ "on" \in Words /\ "ack" \in Words /\ "codes off" \in Words
      /\ "open" \in Words /\ "session" \in Words /\ "ask" \in Words
  BY AllWords
<1>1. Open(p) \in Seq(S)
  BY <1>0, StepConveying DEF Open, Step
<1>2. Step("discard", p, "input") \in Seq(S)
  BY <1>0, StepConveying DEF Step
<1>3. Ask(p, "codes") \in Seq(S)
  BY <1>0, StepConveying DEF Ask, Step
<1>4. t \in Seq(S)
  <2>1. Tell(p, "codes", "on") \in Seq(S)
    BY <1>0, StepConveying DEF Tell
  <2>2. Step("ack", p, "codes") \in Seq(S)
    BY <1>0, StepConveying DEF Step
  <2> QED
    BY <2>1, <2>2, Joint
<1>5. When("codes off", t) \in Seq(S)
  <2>1. ASSUME NEW e \in S PROVE Made(e, "codes off", e.failing) \in S
    <3> DEFINE m == Made(e, "codes off", e.failing)
    <3>1. e \in AnyStep /\ Conveys(e)
      BY DEF Conveying
    <3>2. m \in AnyStep /\ m.op = e.op /\ m.what = e.what /\ m.value = e.value
      BY <1>0, <3>1, MadeWhen
    <3> HIDE DEF m
    <3>3. m \in S
      BY <3>1, <3>2 DEF Conveying, Conveys, TurnsCodesOn
    <3> QED
      BY <3>3 DEF m
  <2> HIDE DEF t, S
  <2> QED
    BY <1>4, <2>1, WhenOf
<1>6. Begin(p) = Open(p) \o (Step("discard", p, "input") \o Ask(p, "codes") \o When("codes off", t))
  BY DEF Begin, Boot
<1> HIDE DEF t
<1> QED
  BY <1>1, <1>2, <1>3, <1>5, <1>6, Joint

LEMMA TransferReviews ==
  ASSUME NEW p \in Products, NEW f
  PROVE  LET s == Applied(f, CalibrationTransferLook(p), CalibrationTransferApply(p))
             t == Applied(f, CalibrationTransferLookI2c(p), CalibrationTransferApplyI2c(p))
         IN /\ s \in Seq(AnyStep) /\ Coupled(s) /\ Reviews(s)
            /\ t \in Seq(AnyStep) /\ Coupled(t) /\ Reviews(t)
<1> DEFINE S == Conveying
           b == Begin(p)
           c == Ask(p, "chunks")
           e == Step("export", p, "chunks")
           i == Tell(p, "import", "imported")
           r == Step("result", p, "import")
           look == CalibrationTransferLook(p)
           apply == CalibrationTransferApply(p)
<1>0. /\ p \in Words /\ "ask" \in Words /\ "chunks" \in Words /\ "export" \in Words /\ "none" \in Words
      /\ "tell" \in Words /\ "import" \in Words /\ "imported" \in Words /\ "result" \in Words
  BY ProductsAreWords, AllWords
<1>1. b \in Seq(S) /\ Coupled(b)
  BY <1>0, BeginConveying, BeginOpens DEF Opened
<1>2. c \in Seq(S) /\ c \in Seq(Quiet)
  BY <1>0, StepConveying, StepQuiet DEF Ask, Step
<1>3. e \in Seq(S) /\ e \in Seq(Quiet)
  BY <1>0, StepConveying, StepQuiet DEF Step
<1>4. r \in Seq(S) /\ r \in Seq(Quiet)
  BY <1>0, StepConveying, StepQuiet DEF Step
<1>5. i \in Seq(S) /\ Coupled(i)
  <2>1. i \in Seq(S)
    BY <1>0, StepConveying DEF Tell
  <2>2. "import" \in {"import"} \cap Words /\ "imported" \in Words
    BY <1>0
  <2>3. i \in Seq(Telling(p, {"import"}))
    BY <1>0, <2>2, CallTelling
  <2> HIDE DEF i
  <2> QED
    BY <2>1, <2>3, TellingKinds, Uncoupled
<1>6. Coupled(c) /\ Coupled(e) /\ Coupled(r)
  BY <1>2, <1>3, <1>4, QuietMindful DEF Mindful
<1>7. look = (b \o c) \o e /\ apply = i \o r
  BY DEF CalibrationTransferLook, CalibrationTransferApply
<1>8. S \subseteq AnyStep
  BY DEF Conveying
<1> HIDE DEF S, b, c, e, i, r
<1>9. ASSUME NEW s \in Seq(S), NEW t \in Seq(S), Coupled(s), Coupled(t)
      PROVE  s \o t \in Seq(S) /\ Coupled(s \o t)
  <2>1. s \in Seq(AnyStep) /\ t \in Seq(AnyStep)
    BY <1>8, SeqMonotonic
  <2> QED
    BY <1>9, <2>1, Joint, CoupledJoint
<1>10. b \o c \in Seq(S) /\ Coupled(b \o c)
  BY <1>1, <1>2, <1>6, <1>9
<1>11. look \in Seq(S) /\ Coupled(look)
  BY <1>3, <1>6, <1>7, <1>9, <1>10
<1>12. apply \in Seq(S) /\ Coupled(apply)
  BY <1>4, <1>5, <1>6, <1>7, <1>9
<1>13. CalibrationTransferLookI2c(p) = OverI2c(look) /\ CalibrationTransferApplyI2c(p) = OverI2c(apply)
  BY DEF CalibrationTransferLookI2c, CalibrationTransferApplyI2c
<1> HIDE DEF look, apply
<1>14. ASSUME NEW s \in Seq(S), Coupled(s) PROVE OverI2c(s) \in Seq(S) /\ Coupled(OverI2c(s))
  <2>1. s \in Seq(AnyStep)
    BY <1>8, SeqMonotonic
  <2> QED
    BY <1>14, <2>1, ConveyingOverI2c, CoupledOverI2c DEF S
<1>15. <<>> \in Seq(S) /\ Coupled(<<>>)
  BY MindfulNothing, EmptySeq DEF Mindful
<1>16. ASSUME NEW s \in Seq(S), NEW t \in Seq(S), Coupled(s), Coupled(t)
       PROVE  /\ Applied(f, s, t) \in Seq(S) /\ Coupled(Applied(f, s, t))
  <2>1. If("apply" \in f, t) \in Seq(S) /\ Coupled(If("apply" \in f, t))
    BY <1>15, <1>16 DEF If
  <2> QED
    BY <1>9, <1>16, <2>1 DEF Applied
<1>17. /\ Applied(f, look, apply) \in Seq(S) /\ Coupled(Applied(f, look, apply))
       /\ Applied(f, OverI2c(look), OverI2c(apply)) \in Seq(S)
       /\ Coupled(Applied(f, OverI2c(look), OverI2c(apply)))
  BY <1>11, <1>12, <1>14, <1>16
<1> QED
  BY <1>13, <1>17, ConveyingReviews DEF S, look, apply

LEMMA ControlAfterIsSteps ==
  ASSUME NEW p \in Products, NEW f
  PROVE  ControlWorkflowAfter(p, f) \in Seq(AnyStep)
<1> DEFINE u == Asks(p, <<"name", "led", "plock", "baud">>)
           c == SetCodes(p, f)
           d == Ask(p, "codes")
<1>1. p \in Words /\ "codes" \in Words
  BY ProductsAreWords, AllWords
<1>2. Asking({p}) \cap Looking({p}) \subseteq AnyStep
  BY KindsAreSteps
<1>3. u \in Seq(AnyStep)
  <2>1. <<"name", "led", "plock", "baud">> \in Seq(Words)
    BY AllWords, Four
  <2> QED
    BY <1>1, <1>2, <2>1, AsksAsk, SeqMonotonic
<1>4. c \in Seq(AnyStep)
  BY <1>1, SetCodesTame, MoreKinds, SeqMonotonic DEF Tame
<1>5. d \in Seq(AnyStep)
  BY <1>1, <1>2, AskAsks, SeqMonotonic
<1>6. ControlWorkflowAfter(p, f) = If({"send-sleep", "factory-reset"} \cap f = {}, u \o If("set-response-codes" \in f, c \o d))
  BY DEF ControlWorkflowAfter
<1> HIDE DEF u, c, d
<1> DEFINE v == If("set-response-codes" \in f, c \o d)
<1>7. v \in Seq(AnyStep)
  BY <1>4, <1>5, Joint, Optional
<1> HIDE DEF v
<1>8. u \o v \in Seq(AnyStep)
  BY <1>3, <1>7, Joint
<1> DEFINE w == u \o v
           b == {"send-sleep", "factory-reset"} \cap f = {}
<1>9. ControlWorkflowAfter(p, f) = If(b, w)
  BY <1>6 DEF v
<1> HIDE DEF w, b
<1>10. If(b, w) \in Seq(AnyStep)
  BY <1>8, Optional DEF w
<1> QED
  BY <1>9, <1>10

(* Over I2C no program can set the response codes. *)
OffUart(n, f) == n = "control_workflow" => "set-response-codes" \notin f

LEMMA OptionsOverI2cAre ==
  ASSUME NEW n, NEW f \in OptionsOverI2c(n), n # "transport_switch"
  PROVE  f \in OptionsOf(n) /\ OffUart(n, f)
<1>1. CASE n = "control_workflow"
  <2>1. PICK g \in ControlWorkflowOptions : f = g \ {"set-response-codes"}
    BY <1>1 DEF OptionsOverI2c, ControlWorkflowOptionsI2c
  <2>2. f \in ControlWorkflowOptions
    BY <2>1 DEF ControlWorkflowOptions, Flags
  <2> QED
    BY <1>1, <2>1, <2>2 DEF OptionsOf, OffUart
<1>2. CASE n # "control_workflow"
  <2>1. f \in OptionsOf(n)
    BY <1>2
       DEF OptionsOf, OptionsOverI2c, PhTempCompOptionsI2c, EcTempCompOptionsI2c,
           DoTempCompOptionsI2c, DoSalinityCompOptionsI2c, DoFullChainOptionsI2c,
           PhCalibrationOptionsI2c, OrpCalibrationOptionsI2c, EcCalibrationOptionsI2c,
           DoCalibrationOptionsI2c, RtdCalibrationOptionsI2c, HumCalibrationOptionsI2c,
           PhWorkflowOptionsI2c, OrpWorkflowOptionsI2c, EcWorkflowOptionsI2c,
           DoWorkflowOptionsI2c, HumWorkflowOptionsI2c, RtdWorkflowOptionsI2c,
           CalibrationTransferOptionsI2c
  <2> QED
    BY <1>2, <2>1 DEF OffUart
<1> QED
  BY <1>1, <1>2

(* Every script asks again, but the one that switches the transport, and   *)
(* unless it was told to put its circuit to sleep or to reset it.          *)
Reviewing(s) == s \in Seq(AnyStep) /\ Coupled(s) /\ Reviews(s)

LEMMA ScriptsReview ==
  ASSUME NEW n, NEW p \in MadeFor(n), NEW f \in OptionsOf(n), n # "transport_switch",
         {"send-sleep", "factory-reset"} \cap f = {}
  PROVE  /\ Reviewing(Script(n, p, f))
         /\ OffUart(n, f) => Reviewing(ScriptOverI2c(n, p, f))
<1> DEFINE G == /\ Reviewing(Script(n, p, f))
                /\ OffUart(n, f) => Reviewing(ScriptOverI2c(n, p, f))
<1>0. p \in Products
  BY DEF MadeFor, Products
<1>m. \A s : Mindful(s) => Reviewing(s)
  BY MindfulReviews DEF Reviewing
<1>1. ASSUME n = "read_ph" PROVE G
  <2>1. Mindful(ReadPh) /\ Mindful(ReadPhI2c)
    BY ReadPhOpens, OpenedReviews DEF ReadPhI2c
  <2> QED
    BY <1>m, <1>1, <2>1 DEF Script, ScriptOverI2c
<1>2. ASSUME n = "read_orp" PROVE G
  <2>1. Mindful(ReadOrp) /\ Mindful(ReadOrpI2c)
    BY ReadOrpOpens, OpenedReviews DEF ReadOrpI2c
  <2> QED
    BY <1>m, <1>2, <2>1 DEF Script, ScriptOverI2c
<1>3. ASSUME n = "read_ec" PROVE G
  <2>1. Mindful(ReadEc) /\ Mindful(ReadEcI2c)
    BY ReadEcOpens, OpenedReviews DEF ReadEcI2c
  <2> QED
    BY <1>m, <1>3, <2>1 DEF Script, ScriptOverI2c
<1>4. ASSUME n = "read_do" PROVE G
  <2>1. Mindful(ReadDo) /\ Mindful(ReadDoI2c)
    BY ReadDoOpens, OpenedReviews DEF ReadDoI2c
  <2> QED
    BY <1>m, <1>4, <2>1 DEF Script, ScriptOverI2c
<1>5. ASSUME n = "read_hum" PROVE G
  <2>1. Mindful(ReadHum) /\ Mindful(ReadHumI2c)
    BY ReadHumOpens, OpenedReviews DEF ReadHumI2c
  <2> QED
    BY <1>m, <1>5, <2>1 DEF Script, ScriptOverI2c
<1>6. ASSUME n = "read_rtd" PROVE G
  <2>1. Mindful(ReadRtd) /\ Mindful(ReadRtdI2c)
    BY ReadRtdOpens, OpenedReviews DEF ReadRtdI2c
  <2> QED
    BY <1>m, <1>6, <2>1 DEF Script, ScriptOverI2c
<1>7. ASSUME n = "ph_temp_comp_from_rtd" PROVE G
  <2>2. /\ Mindful(Applied(f, PhTempCompLook, PhTempCompApply))
        /\ Mindful(Applied(f, PhTempCompLookI2c, PhTempCompApplyI2c))
    BY PhTempCompLookOpens, PhTempCompApplyMindful, MindfulApplied DEF PhTempCompLookI2c, PhTempCompApplyI2c
  <2> QED
    BY <1>m, <1>7, <2>2 DEF Script, ScriptOverI2c
<1>8. ASSUME n = "ec_temp_comp_from_rtd" PROVE G
  <2>2. /\ Mindful(Applied(f, EcTempCompLook, EcTempCompApply))
        /\ Mindful(Applied(f, EcTempCompLookI2c, EcTempCompApplyI2c))
    BY EcTempCompLookOpens, EcTempCompApplyMindful, MindfulApplied DEF EcTempCompLookI2c, EcTempCompApplyI2c
  <2> QED
    BY <1>m, <1>8, <2>2 DEF Script, ScriptOverI2c
<1>9. ASSUME n = "do_temp_comp_from_rtd" PROVE G
  <2>2. /\ Mindful(Applied(f, DoTempCompLook, DoTempCompApply))
        /\ Mindful(Applied(f, DoTempCompLookI2c, DoTempCompApplyI2c))
    BY DoTempCompLookOpens, DoTempCompApplyMindful, MindfulApplied DEF DoTempCompLookI2c, DoTempCompApplyI2c
  <2> QED
    BY <1>m, <1>9, <2>2 DEF Script, ScriptOverI2c
<1>10. ASSUME n = "do_salinity_comp_from_ec" PROVE G
  <2>2. /\ Mindful(Applied(f, DoSalinityCompLook, DoSalinityCompApply))
        /\ Mindful(Applied(f, DoSalinityCompLookI2c, DoSalinityCompApplyI2c))
    BY DoSalinityCompLookOpens, DoSalinityCompApplyMindful, MindfulApplied DEF DoSalinityCompLookI2c, DoSalinityCompApplyI2c
  <2> QED
    BY <1>m, <1>10, <2>2 DEF Script, ScriptOverI2c
<1>11. ASSUME n = "do_full_compensation_chain" PROVE G
  <2>2. /\ Mindful(Applied(f, DoFullChainLook, DoFullChainApply))
        /\ Mindful(Applied(f, DoFullChainLookI2c, DoFullChainApplyI2c))
    BY DoFullChainLookOpens, DoFullChainApplyMindful, MindfulApplied DEF DoFullChainLookI2c, DoFullChainApplyI2c
  <2> QED
    BY <1>m, <1>11, <2>2 DEF Script, ScriptOverI2c
<1>12. ASSUME n = "ph_calibration" PROVE G
  <2>1. StepOf(f) \in Words
    <3>1. f \in PhCalibrationOptions
      BY <1>12 DEF OptionsOf
    <3> QED
      BY <3>1, StepOfIs DEF PhCalibrationOptions, Steps
  <2>2. /\ Mindful(Applied(f, PhCalibrationLook(f), PhCalibrationApply(f)))
        /\ Mindful(Applied(f, PhCalibrationLookI2c(f), PhCalibrationApplyI2c(f)))
    BY <2>1, PhCalibrationLookOpens, PhCalibrationApplyMindful, MindfulApplied DEF PhCalibrationLookI2c, PhCalibrationApplyI2c
  <2> QED
    BY <1>m, <1>12, <2>2 DEF Script, ScriptOverI2c
<1>13. ASSUME n = "orp_calibration" PROVE G
  <2>1. StepOf(f) \in Words
    <3>1. f \in OrpCalibrationOptions
      BY <1>13 DEF OptionsOf
    <3> QED
      BY <3>1, StepOfIs DEF OrpCalibrationOptions, Steps
  <2>2. /\ Mindful(Applied(f, OrpCalibrationLook(f), OrpCalibrationApply(f)))
        /\ Mindful(Applied(f, OrpCalibrationLookI2c(f), OrpCalibrationApplyI2c(f)))
    BY <2>1, OrpCalibrationLookOpens, OrpCalibrationApplyMindful, MindfulApplied DEF OrpCalibrationLookI2c, OrpCalibrationApplyI2c
  <2> QED
    BY <1>m, <1>13, <2>2 DEF Script, ScriptOverI2c
<1>14. ASSUME n = "ec_calibration" PROVE G
  <2>1. StepOf(f) \in Words
    <3>1. f \in EcCalibrationOptions
      BY <1>14 DEF OptionsOf
    <3> QED
      BY <3>1, StepOfIs DEF EcCalibrationOptions, Steps
  <2>2. /\ Mindful(Applied(f, EcCalibrationLook(f), EcCalibrationApply(f)))
        /\ Mindful(Applied(f, EcCalibrationLookI2c(f), EcCalibrationApplyI2c(f)))
    BY <2>1, EcCalibrationLookOpens, EcCalibrationApplyMindful, MindfulApplied DEF EcCalibrationLookI2c, EcCalibrationApplyI2c
  <2> QED
    BY <1>m, <1>14, <2>2 DEF Script, ScriptOverI2c
<1>15. ASSUME n = "do_calibration" PROVE G
  <2>1. StepOf(f) \in Words
    <3>1. f \in DoCalibrationOptions
      BY <1>15 DEF OptionsOf
    <3> QED
      BY <3>1, StepOfIs DEF DoCalibrationOptions, Steps
  <2>2. /\ Mindful(Applied(f, DoCalibrationLook(f), DoCalibrationApply(f)))
        /\ Mindful(Applied(f, DoCalibrationLookI2c(f), DoCalibrationApplyI2c(f)))
    BY <2>1, DoCalibrationLookOpens, DoCalibrationApplyMindful, MindfulApplied DEF DoCalibrationLookI2c, DoCalibrationApplyI2c
  <2> QED
    BY <1>m, <1>15, <2>2 DEF Script, ScriptOverI2c
<1>16. ASSUME n = "rtd_calibration" PROVE G
  <2>1. StepOf(f) \in Words
    <3>1. f \in RtdCalibrationOptions
      BY <1>16 DEF OptionsOf
    <3> QED
      BY <3>1, StepOfIs DEF RtdCalibrationOptions, Steps
  <2>2. /\ Mindful(Applied(f, RtdCalibrationLook(f), RtdCalibrationApply(f)))
        /\ Mindful(Applied(f, RtdCalibrationLookI2c(f), RtdCalibrationApplyI2c(f)))
    BY <2>1, RtdCalibrationLookOpens, RtdCalibrationApplyMindful, MindfulApplied DEF RtdCalibrationLookI2c, RtdCalibrationApplyI2c
  <2> QED
    BY <1>m, <1>16, <2>2 DEF Script, ScriptOverI2c
<1>17. ASSUME n = "hum_temperature_calibration" PROVE G
  <2>1. StepOf(f) \in Words
    <3>1. f \in HumCalibrationOptions
      BY <1>17 DEF OptionsOf
    <3> QED
      BY <3>1, StepOfIs DEF HumCalibrationOptions, Steps
  <2>2. /\ Mindful(Applied(f, HumCalibrationLook(f), HumCalibrationApply(f)))
        /\ Mindful(Applied(f, HumCalibrationLookI2c(f), HumCalibrationApplyI2c(f)))
    BY <2>1, HumCalibrationLookOpens, HumCalibrationApplyMindful, MindfulApplied DEF HumCalibrationLookI2c, HumCalibrationApplyI2c
  <2> QED
    BY <1>m, <1>17, <2>2 DEF Script, ScriptOverI2c
<1>18. ASSUME n = "ph_workflow" PROVE G
  <2>2. /\ Mindful(Applied(f, PhWorkflowLook, PhWorkflowApply))
        /\ Mindful(Applied(f, PhWorkflowLookI2c, PhWorkflowApplyI2c))
    BY PhWorkflowLookOpens, PhWorkflowApplyMindful, MindfulApplied DEF PhWorkflowLookI2c, PhWorkflowApplyI2c
  <2> QED
    BY <1>m, <1>18, <2>2 DEF Script, ScriptOverI2c
<1>19. ASSUME n = "orp_workflow" PROVE G
  <2>2. /\ Mindful(Applied(f, OrpWorkflowLook, OrpWorkflowApply))
        /\ Mindful(Applied(f, OrpWorkflowLookI2c, OrpWorkflowApplyI2c))
    BY OrpWorkflowLookOpens, OrpWorkflowApplyMindful, MindfulApplied DEF OrpWorkflowLookI2c, OrpWorkflowApplyI2c
  <2> QED
    BY <1>m, <1>19, <2>2 DEF Script, ScriptOverI2c
<1>20. ASSUME n = "ec_workflow" PROVE G
  <2>2. /\ Mindful(Applied(f, EcWorkflowLook, EcWorkflowApply(f)))
        /\ Mindful(Applied(f, EcWorkflowLookI2c, EcWorkflowApplyI2c(f)))
    BY EcWorkflowLookOpens, EcWorkflowApplyMindful, MindfulApplied DEF EcWorkflowLookI2c, EcWorkflowApplyI2c
  <2> QED
    BY <1>m, <1>20, <2>2 DEF Script, ScriptOverI2c
<1>21. ASSUME n = "do_workflow" PROVE G
  <2>2. /\ Mindful(Applied(f, DoWorkflowLook, DoWorkflowApply(f)))
        /\ Mindful(Applied(f, DoWorkflowLookI2c, DoWorkflowApplyI2c(f)))
    BY DoWorkflowLookOpens, DoWorkflowApplyMindful, MindfulApplied DEF DoWorkflowLookI2c, DoWorkflowApplyI2c
  <2> QED
    BY <1>m, <1>21, <2>2 DEF Script, ScriptOverI2c
<1>22. ASSUME n = "hum_workflow" PROVE G
  <2>2. /\ Mindful(Applied(f, HumWorkflowLook, HumWorkflowApply(f)))
        /\ Mindful(Applied(f, HumWorkflowLookI2c, HumWorkflowApplyI2c(f)))
    BY HumWorkflowLookOpens, HumWorkflowApplyMindful, MindfulApplied DEF HumWorkflowLookI2c, HumWorkflowApplyI2c
  <2> QED
    BY <1>m, <1>22, <2>2 DEF Script, ScriptOverI2c
<1>23. ASSUME n = "rtd_workflow" PROVE G
  <2>2. /\ Mindful(Applied(f, RtdWorkflowLook, RtdWorkflowApply(f)))
        /\ Mindful(Applied(f, RtdWorkflowLookI2c, RtdWorkflowApplyI2c(f)))
    BY RtdWorkflowLookOpens, RtdWorkflowApplyMindful, MindfulApplied DEF RtdWorkflowLookI2c, RtdWorkflowApplyI2c
  <2> QED
    BY <1>m, <1>23, <2>2 DEF Script, ScriptOverI2c
<1>24. ASSUME n = "control_workflow" PROVE G
  <2> DEFINE look == ControlWorkflowLook(p)
             apply == ControlWorkflowApply(p, f)
             after == ControlWorkflowAfter(p, f)
  <2>1. Opened(look, {p}) /\ Mindful(apply \o after) /\ ("set-response-codes" \notin f => Kept(apply \o after))
    BY <1>0, ControlWorkflowLookOpens, ControlMindful
  <2>2. /\ Mindful(Applied(f, look, apply \o after))
        /\ "set-response-codes" \notin f => Mindful(Applied(f, OverI2c(look), OverI2c(apply \o after)))
    <3> HIDE DEF look, apply, after
    <3> QED
      BY <2>1, MindfulApplied
  <2>3. OverI2c(apply \o after) = OverI2c(apply) \o OverI2c(after)
    <3>1. apply \in Seq(AnyStep)
      BY <1>0, ProductsAreWords, ControlAppliesTelling, TellingKinds, SeqMonotonic
    <3>2. after \in Seq(AnyStep)
      BY <1>0, ControlAfterIsSteps
    <3> HIDE DEF apply, after
    <3> QED
      BY <3>1, <3>2, OverI2cJoint
  <2>4. /\ ControlWorkflowLookI2c(p) = OverI2c(look) /\ ControlWorkflowApplyI2c(p, f) = OverI2c(apply)
        /\ ControlWorkflowAfterI2c(p, f) = OverI2c(after)
    BY DEF ControlWorkflowLookI2c, ControlWorkflowApplyI2c, ControlWorkflowAfterI2c
  <2>5. /\ Script(n, p, f) = Applied(f, look, apply \o after)
        /\ ScriptOverI2c(n, p, f) = Applied(f, OverI2c(look), OverI2c(apply) \o OverI2c(after))
    BY <1>24, <2>4 DEF Script, ScriptOverI2c
  <2> HIDE DEF look, apply, after
  <2> QED
    BY <1>m, <1>24, <2>2, <2>3, <2>5 DEF OffUart
<1>26. ASSUME n = "calibration_transfer" PROVE G
  BY <1>26, <1>0, TransferReviews DEF Script, ScriptOverI2c, Reviewing
<1>27. ASSUME n = "inspect_device" PROVE G
  <2>1. Mindful(InspectDevice(p)) /\ Mindful(InspectDeviceI2c(p))
    BY <1>0, InspectDeviceOpens, OpenedReviews, InspectionQuiet, QuietMindful
  <2> QED
    BY <1>m, <1>27, <2>1 DEF Script, ScriptOverI2c
<1>28. ASSUME n = "readiness_check" PROVE G
  <2>1. Mindful(ReadinessCheck(p)) /\ Mindful(ReadinessCheckI2c(p))
    BY <1>0, ReadinessCheckOpens, OpenedReviews, InspectionQuiet, QuietMindful
  <2> QED
    BY <1>m, <1>28, <2>1 DEF Script, ScriptOverI2c
<1> HIDE DEF G
<1>29. G
  BY <1>1, <1>2, <1>3, <1>4, <1>5, <1>6, <1>7, <1>8, <1>9, <1>10, <1>11, <1>12, <1>13, <1>14,
     <1>15, <1>16, <1>17, <1>18, <1>19, <1>20, <1>21, <1>22, <1>23, <1>24, <1>26, <1>27, <1>28 DEF MadeFor
<1> QED
  BY <1>29 DEF G

-----------------------------------------------------------------------------
(***************************************************************************)
(* What the program knows of a circuit is what the circuit is set to, or   *)
(* the program is about to ask.                                            *)
(***************************************************************************)
(* The program awaits the acknowledgement of having turned the codes on.   *)
CodesAwaited(p) == Due("ack") /\ Head(todo) \in CodesAcked(p)

RightlyAcked(p) == CodesAwaited(p) /\ Matches(line[p], <<"OK">>) => config[p].codes = "on"

AsKnown(p, x) == x \in DOMAIN known[p] => known[p][x] = config[p][x]

Current(p, x) ==
  AsKnown(p, x) \/ Has(todo, AsksFor(p, x)) \/ (x = "codes" /\ CodesAwaited(p))

(* Whatever is yet to be changed is yet to be asked for, or never is.      *)
Reviewed(p, x) ==
  \/ Before(todo, Alters(p, x), AsksFor(p, x))
  \/ x # "codes" /\ x \notin DOMAIN known[p] /\ ~Has(todo, Questions(p, x))

UpToDate(p) ==
  /\ config[p].mode = "awake" /\ ~Has(todo, Alters(p, "mode"))
  /\ RightlyAcked(p)
  /\ \A x \in DOMAIN config[p] : Reviewed(p, x) /\ Current(p, x)

(* The inductive invariant. *)
Truthful ==
  LooksAgain =>
    \/ exit \in {"error", "blocked"}
    \/ todo \in Seq(AnyStep) /\ Paired(todo) /\ \A p \in DOMAIN config : UpToDate(p)

(* Every setting of a circuit may be one. *)
AllSettable == \A p \in DOMAIN config : \A x \in DOMAIN config[p] : Settable(p, x)

LEMMA InitTruthful ==
  ASSUME Init
  PROVE  AllSettable /\ Truthful
<1> DEFINE n == program.name
           on == program.on
<1>1. program \in Examples /\ on \in MadeFor(n) /\ on \in Products
  BY ProgramAssumption, ExamplePairs DEF Init
<1>2. DOMAIN config = Uses(n, on) /\ \A p \in DOMAIN config : config[p] \in Circuits[p]
  BY DEF Init, SettingsOf
<1>3. ASSUME NEW p \in DOMAIN config
      PROVE  p \in Products /\ config[p] \in Circuits[p] /\ known[p] = <<>>
  <2>1. p \in Products
    BY <1>1, <1>2, UsesProducts
  <2> QED
    BY <1>2, <2>1 DEF Init
<1>4. ASSUME NEW p \in DOMAIN config, NEW x \in DOMAIN config[p] PROVE Settable(p, x)
  <2>1. p \in Products /\ config[p] \in Circuits[p]
    BY <1>3
  <2>2. /\ DOMAIN config[p] \cap {"read", "read_compensated", "memory_all", "memory_next", "celsius",
                                  "find", "output_on", "output_off", "import"} = {}
        /\ "slope" \in DOMAIN config[p] => p = "PH"
    BY <2>1, ProgramAssumption
  <2> QED
    BY <2>2 DEF Settable
<1>5. ASSUME NEW p \in DOMAIN config PROVE config[p].mode = "awake"
  <2>1. p \in Products /\ config[p] \in Circuits[p]
    BY <1>3
  <2> QED
    BY <2>1, ProgramAssumption
<1>6. ASSUME LooksAgain PROVE Reviewing(todo)
  <2>1. n # "transport_switch" /\ {"send-sleep", "factory-reset"} \cap flags = {}
    BY <1>6 DEF LooksAgain
  <2>2. CASE bus = "uart"
    <3>1. todo = Script(n, on, flags) /\ flags \in OptionsOf(n)
      BY <2>2 DEF Init
    <3> QED
      BY <1>1, <2>1, <3>1, ScriptsReview
  <2>3. CASE bus # "uart"
    <3>1. todo = ScriptOverI2c(n, on, flags) /\ flags \in OptionsOverI2c(n)
      BY <2>3 DEF Init
    <3>2. flags \in OptionsOf(n) /\ OffUart(n, flags)
      BY <2>1, <3>1, OptionsOverI2cAre
    <3> QED
      BY <1>1, <2>1, <3>1, <3>2, ScriptsReview
  <2> QED
    BY <2>2, <2>3
<1>7. ASSUME LooksAgain, NEW p \in DOMAIN config PROVE UpToDate(p)
  <2>1. /\ todo \in Seq(AnyStep) /\ Coupled(todo) /\ Reviews(todo)
        /\ p \in Words
    BY <1>3, <1>6, <1>7, ProductsAreWords DEF Reviewing
  <2>2. known[p] = <<>> /\ DOMAIN <<>> = {}
    BY <1>3
  <2>3. ~CodesAwaited(p)
    <3>1. todo = <<>> \/ Head(todo) = todo[1]
      BY <2>1, TailParts
    <3> QED
      BY <2>1, <3>1 DEF CodesAwaited, Due, Coupled
  <2>4. ASSUME NEW x \in DOMAIN config[p] PROVE Reviewed(p, x) /\ Current(p, x)
    <3>1. \/ Before(todo, Alters(p, x), AsksFor(p, x))
          \/ x # "codes" /\ ~Has(todo, Questions(p, x))
      BY <1>4, <2>1 DEF Reviews
    <3> QED
      BY <2>2, <3>1 DEF Reviewed, Current, AsKnown
  <2>5. ~Has(todo, Alters(p, "mode"))
    BY <2>1 DEF Reviews
  <2> QED
    BY <1>5, <2>3, <2>4, <2>5 DEF UpToDate, RightlyAcked
<1> QED
  BY <1>4, <1>6, <1>7 DEF AllSettable, Truthful, Reviewing, Coupled

(* Unless it fails, a program goes on to its next step, stays at this one  *)
(* or reads the answer to an export first.                                 *)
LEMMA MovesOn ==
  ASSUME [Next]_vars, exit' \notin {"error", "blocked"}
  PROVE  \/ UNCHANGED <<todo, config, known>> /\ (UNCHANGED line \/ Due("chunk"))
         \/ todo # <<>> /\ todo' = Tail(todo)
         \/ Due("export") /\ todo' = <<Chunk(Head(todo))>> \o todo /\ UNCHANGED <<config, known>>
<1>1. CASE SendExport
  BY <1>1 DEF SendExport, Chunk, Due, Proceeds, Fails, Stops
<1>2. CASE Next /\ ~SendExport
  BY <1>2 DEF Next, Skip, OpenSession, Discard, Query, Command, ReadOk, ReadChunkUart,
     ReadChunkI2c, ImportResultUart, ImportResultI2c, ConvertToCelsius, Decide, RaiseFirstError,
     Finish, Ended, vars, Due, Proceeds, Fails, Stops
<1>3. CASE UNCHANGED vars
  BY <1>3 DEF vars
<1> QED
  BY <1>1, <1>2, <1>3

LEMMA AllSettableStays ==
  ASSUME Typed, AllSettable, [Next]_vars
  PROVE  AllSettable'
  BY StepConfig DEF AllSettable

(* What the guard of a step says of a circuit of which no more is known.   *)
LEMMA HoldsStill ==
  ASSUME NEW w, NEW p, known'[p] = known[p]
  PROVE  Holds(w, p)' <=> Holds(w, p)
BY DEF Holds

(* The acknowledgement is awaited after the command, if that was given.    *)
LEMMA AwaitedAfter ==
  ASSUME todo \in Seq(AnyStep), todo # <<>>, Paired(todo), NEW p \in Words, todo' = Tail(todo)
  PROVE  /\ CodesAwaited(p)' => Head(todo) \in CodesTold(p)
         /\ Head(todo) \in CodesTold(p) /\ known'[p] = known[p] =>
              (CodesAwaited(p)' <=> Holds(Head(todo).when, p))
<1> PICK s \in Seq(AnyStep) : s = todo
  OBVIOUS
<1> PICK t \in Seq(AnyStep) : t = Tail(s) /\ t = todo'
  BY TailParts
<1>1. /\ Head(s) \in CodesTold(p) =>
            t # <<>> /\ Head(t) \in CodesAcked(p) /\ Head(t).when = Head(s).when
      /\ t # <<>> /\ Head(t) \in CodesAcked(p) => Head(s) \in CodesTold(p)
  BY PairedTail
<1>2. CodesAwaited(p)' <=>
        t # <<>> /\ Head(t).op = "ack" /\ Holds(Head(t).when, Head(t).on)' /\ Head(t) \in CodesAcked(p)
  BY DEF CodesAwaited, Due
<1>3. Head(t) \in CodesAcked(p) => Head(t).op = "ack" /\ Head(t).on = p
  BY DEF CodesAcked
<1>4. CodesAwaited(p)' => Head(s) \in CodesTold(p)
  BY <1>1, <1>2
<1>5. ASSUME Head(s) \in CodesTold(p), known'[p] = known[p]
      PROVE  CodesAwaited(p)' <=> Holds(Head(s).when, p)
  <2> PICK w : w = Head(s).when
    OBVIOUS
  <2>1. Holds(w, p)' <=> Holds(w, p)
    BY <1>5, HoldsStill
  <2>2. t # <<>> /\ Head(t) \in CodesAcked(p) /\ Head(t).when = w /\ Head(t).on = p
    BY <1>1, <1>3, <1>5
  <2>3. CodesAwaited(p)' <=> Holds(w, p)'
    BY <1>2, <1>3, <2>2
  <2> QED
    BY <2>1, <2>3
<1> QED
  BY <1>4, <1>5

(* What is left of a script reviews whatever the script reviewed.          *)
LEMMA TailUpToDate ==
  ASSUME todo \in Seq(AnyStep), todo # <<>>, NEW p, UpToDate(p), todo' = Tail(todo),
         DOMAIN config'[p] = DOMAIN config[p], config'[p].mode = "awake", RightlyAcked(p)',
         \A x \in DOMAIN config[p] :
           /\ x \notin DOMAIN known[p] /\ Head(todo) \notin Questions(p, x) => x \notin DOMAIN known'[p]
           /\ Current(p, x)'
  PROVE  UpToDate(p)'
<1> PICK s \in Seq(AnyStep) : s = todo
  OBVIOUS
<1> PICK t : t = Tail(s) /\ t = todo'
  OBVIOUS
<1>1. ~Has(t, Alters(p, "mode"))
  BY HasTail DEF UpToDate
<1>2. ASSUME NEW x \in DOMAIN config[p] PROVE Reviewed(p, x)'
  <2>1. CASE Before(s, Alters(p, x), AsksFor(p, x))
    BY <2>1, BeforeTail DEF Reviewed
  <2>2. CASE x # "codes" /\ x \notin DOMAIN known[p] /\ ~Has(s, Questions(p, x))
    <3>1. Head(s) \notin Questions(p, x) /\ ~Has(t, Questions(p, x))
      BY <2>2, HasTail
    <3> QED
      BY <2>2, <3>1 DEF Reviewed
  <2> QED
    BY <2>1, <2>2 DEF UpToDate, Reviewed
<1> QED
  BY <1>1, <1>2 DEF UpToDate

LEMMA StaysCurrent ==
  ASSUME todo \in Seq(AnyStep), todo # <<>>, NEW p, NEW x, Current(p, x), todo' = Tail(todo),
         AsKnown(p, x) => AsKnown(p, x)', Head(todo) \notin AsksFor(p, x),
         x = "codes" => ~CodesAwaited(p)
  PROVE  Current(p, x)'
<1> PICK s \in Seq(AnyStep) : s = todo
  OBVIOUS
<1>1. Has(s, AsksFor(p, x)) => Has(Tail(s), AsksFor(p, x))
  BY HasTail
<1> QED
  BY <1>1 DEF Current

(* A step that says nothing to the circuit and learns nothing of it.       *)
LEMMA Idles ==
  ASSUME todo \in Seq(AnyStep), todo # <<>>, Paired(todo), NEW p \in Words, UpToDate(p),
         todo' = Tail(todo), config'[p] = config[p],
         \A x \in DOMAIN config[p] :
           SameFacts(known[p], known'[p], x) /\ Head(todo) \notin AsksFor(p, x),
         ~CodesAwaited(p),
         Head(todo) \in CodesTold(p) => known'[p] = known[p] /\ ~Holds(Head(todo).when, p)
  PROVE  UpToDate(p)'
<1>1. ~CodesAwaited(p)'
  BY AwaitedAfter
<1>2. ASSUME NEW x \in DOMAIN config[p]
      PROVE  /\ x \notin DOMAIN known[p] => x \notin DOMAIN known'[p]
             /\ Current(p, x)'
  <2>1. AsKnown(p, x) => AsKnown(p, x)'
    BY DEF AsKnown, SameFacts
  <2>2. Current(p, x)
    BY DEF UpToDate
  <2>3. Current(p, x)'
    BY <2>1, <2>2, StaysCurrent
  <2> QED
    BY <2>3 DEF SameFacts
<1>3. config'[p].mode = "awake" /\ RightlyAcked(p)'
  BY <1>1 DEF UpToDate, RightlyAcked
<1> QED
  BY <1>2, <1>3, TailUpToDate

(* A query that is answered. *)
LEMMA AnswerTold ==
  ASSUME NEW p, NEW x, Settable(p, x), x \in DOMAIN config[p]
  PROVE  Filed(p, x, Answer(p, x)) = config[p][x]
BY DEF Settable, Filed, Answer

LEMMA LearnsOf ==
  ASSUME todo \in Seq(AnyStep), todo # <<>>, Paired(todo), NEW p \in Words, UpToDate(p),
         todo' = Tail(todo), config'[p] = config[p], NEW what,
         Head(todo).op = "ask", Head(todo).on = p, Head(todo).what = what,
         known'[p] = Learnt(known[p], what, Filed(p, what, Answer(p, what))),
         \A x \in DOMAIN config[p] : Settable(p, x)
  PROVE  UpToDate(p)'
<1>1. ~CodesAwaited(p)' /\ ~CodesAwaited(p)
  <2>1. Head(todo) \notin CodesTold(p) /\ Head(todo) \notin CodesAcked(p)
    BY DEF CodesTold, TurnsCodesOn, CodesAcked
  <2> QED
    BY <2>1, AwaitedAfter DEF CodesAwaited
<1>2. ASSUME NEW x \in DOMAIN config[p], x # what
      PROVE  (x \notin DOMAIN known[p] => x \notin DOMAIN known'[p]) /\ Current(p, x)'
  <2>1. SameFacts(known[p], known'[p], x)
    BY <1>2, LearntFacts
  <2>2. AsKnown(p, x) => AsKnown(p, x)'
    BY <2>1 DEF AsKnown, SameFacts
  <2>3. Current(p, x) /\ Head(todo) \notin AsksFor(p, x)
    BY <1>2 DEF UpToDate, AsksFor
  <2>4. Current(p, x)'
    BY <1>1, <2>2, <2>3, StaysCurrent
  <2> QED
    BY <2>1, <2>4 DEF SameFacts
<1>3. ASSUME what \in DOMAIN config[p]
      PROVE  Head(todo) \in Questions(p, what) /\ Current(p, what)'
  <2>1. Head(todo) \in AnyStep
    BY TailParts
  <2>2. known'[p][what] = config[p][what]
    BY <1>3, AnswerTold, LearntIs
  <2> QED
    BY <2>1, <2>2 DEF Questions, Current, AsKnown
<1>4. config'[p].mode = "awake" /\ RightlyAcked(p)'
  BY <1>1 DEF UpToDate, RightlyAcked
<1>5. ASSUME NEW x \in DOMAIN config[p]
      PROVE  /\ x \notin DOMAIN known[p] /\ Head(todo) \notin Questions(p, x) => x \notin DOMAIN known'[p]
             /\ Current(p, x)'
  BY <1>2, <1>3
<1> QED
  BY <1>4, <1>5, TailUpToDate

(* The acknowledgement that the codes are on. *)
LEMMA AcksOf ==
  ASSUME todo \in Seq(AnyStep), todo # <<>>, Paired(todo), NEW p \in Words, UpToDate(p),
         todo' = Tail(todo), config'[p] = config[p], CodesAwaited(p), Matches(line[p], <<"OK">>),
         known'[p] = [known[p] EXCEPT !.codes = "on"]
  PROVE  UpToDate(p)'
<1>1. Head(todo).op = "ack" /\ config[p].codes = "on"
  BY DEF UpToDate, RightlyAcked, CodesAwaited, CodesAcked
<1>2. ~CodesAwaited(p)'
  <2>1. Head(todo) \notin CodesTold(p)
    BY <1>1 DEF CodesTold, TurnsCodesOn
  <2> QED
    BY <2>1, AwaitedAfter
<1>3. /\ DOMAIN known'[p] = DOMAIN known[p]
      /\ \A x \in DOMAIN known[p] : known'[p][x] = IF x = "codes" THEN "on" ELSE known[p][x]
  OBVIOUS
<1>4. ASSUME NEW x \in DOMAIN config[p]
      PROVE  /\ x \notin DOMAIN known[p] => x \notin DOMAIN known'[p]
             /\ Current(p, x)'
  <2>1. CASE x = "codes"
    <3>1. AsKnown(p, x)'
      BY <1>1, <1>3, <2>1 DEF AsKnown
    <3> QED
      BY <1>3, <3>1 DEF Current
  <2>2. CASE x # "codes"
    <3>1. AsKnown(p, x) => AsKnown(p, x)'
      BY <1>3, <2>2 DEF AsKnown
    <3>2. Current(p, x) /\ Head(todo) \notin AsksFor(p, x)
      BY <1>1 DEF UpToDate, AsksFor
    <3>3. Current(p, x)'
      BY <2>2, <3>1, <3>2, StaysCurrent
    <3> QED
      BY <1>3, <3>3
  <2> QED
    BY <2>1, <2>2
<1>5. config'[p].mode = "awake" /\ RightlyAcked(p)'
  BY <1>2 DEF UpToDate, RightlyAcked
<1> QED
  BY <1>4, <1>5, TailUpToDate

(* What a command may change, and that it leaves the rest alone.           *)
LEMMA EffectSpares ==
  ASSUME NEW c, NEW what, NEW value, NEW x \in DOMAIN c, what \notin Changing(x)
  PROVE  Effect(c, what, value)[x] = c[x]
BY DEF Effect, Changing

(* A command that is obeyed or is not. *)
LEMMA TellsTo ==
  ASSUME todo \in Seq(AnyStep), todo # <<>>, Paired(todo), NEW p \in Words, UpToDate(p),
         todo' = Tail(todo), Due("tell"), Head(todo).on = p, known'[p] = known[p],
         NEW what, what = Head(todo).what, NEW value,
         \/ config'[p] = config[p]
         \/ config'[p] = Effect(config[p], what, value),
         {"mode", "codes"} \subseteq DOMAIN config[p], RightlyAcked(p)'
  PROVE  UpToDate(p)'
<1> PICK s \in Seq(AnyStep) : s = todo
  OBVIOUS
<1> PICK h \in AnyStep : h = Head(s)
  BY TailParts
<1>1. h.op = "tell" /\ h.on = p /\ h.what = what /\ Holds(Head(todo).when, p) /\ ~CodesAwaited(p)
  BY DEF Due, CodesAwaited
<1>2. DOMAIN config'[p] = DOMAIN config[p]
  BY EffectKeepsDomain
<1>3. config'[p].mode = "awake"
  <2>1. config[p].mode = "awake" /\ h \notin Alters(p, "mode")
    BY HasTail DEF UpToDate
  <2>2. what # "mode"
    BY <1>1, <2>1 DEF Alters, Changing, TurnsCodesOn
  <2> QED
    BY <2>1, <2>2, EffectOn
<1>4. ASSUME NEW x \in DOMAIN config[p] PROVE Current(p, x)'
  <2>1. Current(p, x) /\ Reviewed(p, x)
    BY DEF UpToDate
  <2>2. CASE config'[p][x] = config[p][x]
    <3>1. AsKnown(p, x) => AsKnown(p, x)'
      BY <2>2 DEF AsKnown
    <3>2. Head(todo) \notin AsksFor(p, x)
      BY <1>1 DEF AsksFor
    <3> QED
      BY <1>1, <2>1, <3>1, <3>2, StaysCurrent
  <2>3. CASE config'[p][x] # config[p][x]
    <3>1. what \in Changing(x)
      BY <2>3, EffectSpares
    <3>2. CASE TurnsCodesOn(h)
      <4>1. x = "codes"
        BY <1>1, <3>1, <3>2 DEF TurnsCodesOn, Changing
      <4>2. Head(todo) \in CodesTold(p)
        BY <1>1, <3>2 DEF CodesTold
      <4>3. CodesAwaited(p)'
        BY <1>1, <4>2, AwaitedAfter
      <4> QED
        BY <4>1, <4>3 DEF Current
    <3>3. CASE ~TurnsCodesOn(h)
      <4>1. h \in Alters(p, x)
        BY <1>1, <3>1, <3>3 DEF Alters
      <4>2. CASE Before(s, Alters(p, x), AsksFor(p, x))
        <5>1. Has(Tail(s), AsksFor(p, x))
          BY <4>1, <4>2, BeforeTail
        <5> QED
          BY <5>1 DEF Current
      <4>3. CASE x \notin DOMAIN known[p]
        BY <4>3 DEF Current, AsKnown
      <4> QED
        BY <2>1, <4>2, <4>3 DEF Reviewed
    <3> QED
      BY <3>2, <3>3
  <2> QED
    BY <2>2, <2>3
<1>5. ASSUME NEW x \in DOMAIN config[p]
      PROVE  /\ x \notin DOMAIN known[p] /\ Head(todo) \notin Questions(p, x) => x \notin DOMAIN known'[p]
             /\ Current(p, x)'
  BY <1>4
<1> QED
  BY <1>2, <1>3, <1>5, TailUpToDate

LEMMA ErrorIs ==
  \E l : l = Line("ERROR", "codes", "none") /\ l[1].kind = "ERROR" /\ <<>> \o l = l
<1> DEFINE l == Line("ERROR", "codes", "none")
<1>1. l[1].kind = "ERROR" /\ <<>> \o l = l
  BY LineIs
<1> HIDE DEF l
<1>2. l = l /\ l[1].kind = "ERROR" /\ <<>> \o l = l
  BY <1>1
<1> QED
  BY <1>2 DEF l

(* A command that turns the codes on is answered to an empty line, by OK   *)
(* only if it is obeyed.                                                   *)
LEMMA CodesOnAcked ==
  ASSUME Typed, todo \in Seq(AnyStep), todo # <<>>, Paired(todo), NEW p \in DOMAIN config, p \in Words,
         todo' = Tail(todo), Command, Head(todo).on = p, config[p].mode = "awake",
         bus = "i2c" \/ (Head(todo) \in Checked(p) => line[p] = <<>>)
  PROVE  RightlyAcked(p)'
<1> SUFFICES ASSUME CodesAwaited(p)', Matches(line'[p], <<"OK">>)
             PROVE  config'[p].codes = "on"
  BY DEF RightlyAcked, Matches
<1> DEFINE before == IF bus = "i2c" THEN <<>> ELSE line[p]
<1>1. Head(todo) \in CodesTold(p)
  BY AwaitedAfter
<1>2. Head(todo).what = "codes" /\ Head(todo).value = "on" /\ Sent(Head(todo)) = "on"
  BY <1>1 DEF CodesTold, TurnsCodesOn, Sent
<1>3. before = <<>>
  <2>1. Head(todo) \in Checked(p)
    BY <1>1, <1>2 DEF CodesTold, Checked, TurnsCodesOn
  <2> QED
    BY <2>1
<1>4. "codes" \in DOMAIN config[p] /\ p \in DOMAIN line
  BY DEF Typed, ProgramTypeOK, Functional
<1>5. Effect(config[p], "codes", "on").codes = "on"
  BY <1>4 DEF Effect
<1>6. ASSUME NEW l, line' = [line EXCEPT ![p] = before \o l], l = <<>> PROVE FALSE
  <2>1. line'[p] = <<>>
    BY <1>3, <1>4, <1>6
  <2> QED
    BY <2>1 DEF Matches
<1>7. ASSUME line' = [line EXCEPT ![p] = before \o Line("ERROR", "codes", "none")] PROVE FALSE
  <2> PICK l : l = Line("ERROR", "codes", "none") /\ l[1].kind = "ERROR" /\ <<>> \o l = l
    BY ErrorIs
  <2>2. line' = [line EXCEPT ![p] = <<>> \o l]
    BY <1>3, <1>7
  <2>3. line'[p] = l
    BY <1>4, <2>2
  <2>4. line'[p][1].kind = "OK"
    BY DEF Matches
  <2> QED
    BY <2>3, <2>4
<1>8. \/ config' = [config EXCEPT ![p] = Effect(config[p], "codes", "on")]
      \/ line' = [line EXCEPT ![p] = before \o <<>>]
      \/ line' = [line EXCEPT ![p] = before \o Line("ERROR", "codes", "none")]
  BY <1>2 DEF Command
<1> QED
  BY <1>4, <1>5, <1>6, <1>7, <1>8

(* Whatever the step, the circuit is as well known as before it.           *)
LEMMA PassesOver ==
  ASSUME todo \in Seq(AnyStep), todo # <<>>, Paired(todo), NEW p \in Words, UpToDate(p),
         todo' = Tail(todo), config'[p] = config[p], known'[p] = known[p],
         \/ Head(todo).on # p
         \/ Head(todo).op \notin {"ask", "tell", "ack"}
         \/ ~Holds(Head(todo).when, Head(todo).on)
         \/ Head(todo).op = "ask" /\ Head(todo).failing = "goes on"
         \/ Head(todo).op = "ack" /\ Head(todo).what # "codes"
  PROVE  UpToDate(p)'
<1>1. \A x \in DOMAIN config[p] : Head(todo) \notin AsksFor(p, x)
  <2>1. Holds("always", p)
    BY DEF Holds
  <2> QED
    BY <2>1 DEF AsksFor
<1>2. ~CodesAwaited(p)
  BY DEF CodesAwaited, CodesAcked, Due
<1>3. Head(todo) \in CodesTold(p) => ~Holds(Head(todo).when, p)
  BY DEF CodesTold, TurnsCodesOn
<1>4. \A x \in DOMAIN config[p] : SameFacts(known[p], known'[p], x)
  BY DEF SameFacts
<1> QED
  BY <1>1, <1>2, <1>3, <1>4, Idles

LEMMA GoesOn ==
  ASSUME Fails, exit' # "error"
  PROVE  Head(todo).failing = "goes on" /\ todo' = Tail(todo)
BY DEF Fails, Stops

LEMMA StepUpToDate ==
  ASSUME Typed, Steady, AllSettable, program \in Examples, exit = "running",
         todo \in Seq(AnyStep), todo # <<>>, Paired(todo), NEW p \in DOMAIN config, UpToDate(p),
         Next, exit' # "error", todo' = Tail(todo)
  PROVE  UpToDate(p)'
<1>1. p \in Words /\ {"mode", "codes"} \subseteq DOMAIN config[p]
  BY HasMode, ProductsAreWords
<1>2. p \in DOMAIN line /\ p \in DOMAIN known
  BY DEF Typed, ProgramTypeOK
<1>3. \A x \in DOMAIN config[p] : Settable(p, x)
  BY DEF AllSettable
<1>4. CASE Skip \/ OpenSession \/ Discard \/ SendExport \/ ReadChunkUart \/ ReadChunkI2c
        \/ ImportResultUart \/ ImportResultI2c \/ Decide \/ RaiseFirstError
  <2>1. /\ UNCHANGED <<config, known>>
        /\ Head(todo).op \notin {"ask", "tell", "ack"} \/ ~Holds(Head(todo).when, Head(todo).on)
    BY <1>4 DEF Skip, OpenSession, Discard, SendExport, ReadChunkUart, ReadChunkI2c,
       ImportResultUart, ImportResultI2c, Decide, RaiseFirstError, Due
  <2>2. config'[p] = config[p] /\ known'[p] = known[p]
    BY <2>1
  <2> QED
    BY <1>1, <2>1, <2>2, PassesOver
<1>5. CASE Finish \/ Ended
  BY <1>5 DEF Finish, Ended
<1>6. CASE Query
  <2>1. Head(todo).op = "ask" /\ Due("ask") /\ UNCHANGED config
    BY <1>6 DEF Query, Due
  <2>2. CASE Head(todo).on # p
    <3>1. known'[p] = known[p]
      BY <1>2, <1>6, <2>2 DEF Query
    <3> QED
      BY <1>1, <2>1, <2>2, <3>1, PassesOver
  <2>3. CASE Head(todo).on = p
    <3> PICK what : what = Head(todo).what
      OBVIOUS
    <3>1. bus = "i2c" \/ line[p] = <<>>
      BY <2>1, <2>3, AsksInStep
    <3>2. CASE Fails /\ UNCHANGED known
      <4>1. Head(todo).failing = "goes on" /\ known'[p] = known[p]
        BY <3>2, GoesOn
      <4> QED
        BY <1>1, <2>1, <4>1, PassesOver
    <3>3. CASE known' = [known EXCEPT ![p] = Learnt(known[p], what, Filed(p, what, Answer(p, what)))]
      <4>1. known'[p] = Learnt(known[p], what, Filed(p, what, Answer(p, what)))
        BY <1>2, <3>3
      <4> QED
        BY <1>1, <1>3, <2>1, <2>3, <4>1, LearnsOf
    <3> QED
      BY <1>6, <2>3, <3>1, <3>2, <3>3, QueryReads
  <2> QED
    BY <2>2, <2>3
<1>7. CASE Command
  <2>1. Head(todo).op = "tell" /\ Due("tell") /\ UNCHANGED known
    BY <1>7 DEF Command, Due
  <2>2. Changes
    BY StepChanges
  <2>3. CASE Head(todo).on # p
    <3>1. config'[p] = config[p]
      BY <2>2, <2>3 DEF Changes
    <3> QED
      BY <1>1, <2>1, <2>3, <3>1, PassesOver
  <2>4. CASE Head(todo).on = p
    <3> PICK what : what = Head(todo).what
      OBVIOUS
    <3> PICK value : value = Sent(Head(todo))
      OBVIOUS
    <3>1. config[p].mode = "awake"
      BY DEF UpToDate
    <3>2. config'[p] = config[p] \/ config'[p] = Effect(config[p], what, value)
      BY <2>2, <2>4, <3>1 DEF Changes
    <3>3. bus = "i2c" \/ (Head(todo) \in Checked(p) => line[p] = <<>>)
      <4>1. CASE bus # "i2c" /\ Head(todo) \in Checked(p)
        <5>1. Head(todo) \in Needy(p) /\ bus = "uart"
          BY <4>1 DEF Needy, Typed, ProgramTypeOK
        <5>2. Flows(todo, DOMAIN config) /\ InStep(p)
          BY <5>1 DEF Steady
        <5> QED
          BY <1>1, <5>1, <5>2, NeedyLine
      <4> QED
        BY <4>1
    <3>4. RightlyAcked(p)'
      BY <1>1, <1>7, <2>4, <3>1, <3>3, CodesOnAcked
    <3> QED
      BY <1>1, <2>1, <2>4, <3>2, <3>4, TellsTo
  <2> QED
    BY <2>3, <2>4
<1>8. CASE ReadOk
  <2>1. Head(todo).op = "ack" /\ Due("ack") /\ UNCHANGED config
    BY <1>8 DEF ReadOk, Due
  <2>2. CASE Head(todo).on # p \/ Head(todo).what # "codes"
    <3>1. known'[p] = known[p]
      BY <1>2, <1>8, <2>2 DEF ReadOk
    <3> QED
      BY <1>1, <2>1, <2>2, <3>1, PassesOver
  <2>3. CASE Head(todo).on = p /\ Head(todo).what = "codes"
    <3>1. Head(todo) \in CodesAcked(p) /\ CodesAwaited(p)
      BY <2>1, <2>3, TailParts DEF CodesAcked, CodesAwaited
    <3>2. Head(todo).failing = "stops"
      BY <1>1, <3>1, PairedTail
    <3>3. ~Fails
      BY <3>2, GoesOn
    <3>4. Matches(line[p], <<"OK">>) /\ known' = [known EXCEPT ![p] = [@ EXCEPT !.codes = "on"]]
      BY <1>8, <2>3, <3>3 DEF ReadOk
    <3>5. known'[p] = [known[p] EXCEPT !.codes = "on"]
      BY <1>2, <3>4
    <3> QED
      BY <1>1, <2>1, <3>1, <3>4, <3>5, AcksOf
  <2> QED
    BY <2>2, <2>3
<1>9. CASE ConvertToCelsius
  <2>1. Head(todo).op = "celsius" /\ UNCHANGED config
    BY <1>9 DEF ConvertToCelsius, Due
  <2>2. \/ known'[p] = known[p]
        \/ known'[p] = Learnt(known[p], "celsius", ToCelsius(known[p].read))
    BY <1>2, <1>9 DEF ConvertToCelsius
  <2>3. ASSUME NEW x \in DOMAIN config[p] PROVE SameFacts(known[p], known'[p], x)
    <3>1. x # "celsius"
      BY <1>3 DEF Settable
    <3>2. CASE known'[p] = known[p]
      BY <3>2 DEF SameFacts
    <3> QED
      BY <2>2, <3>1, <3>2, LearntFacts
  <2>4. /\ \A x \in DOMAIN config[p] : Head(todo) \notin AsksFor(p, x)
        /\ ~CodesAwaited(p) /\ Head(todo) \notin CodesTold(p)
    BY <2>1 DEF AsksFor, CodesAwaited, Due, CodesTold, TurnsCodesOn
  <2> QED
    BY <1>1, <2>1, <2>3, <2>4, Idles
<1> QED
  BY <1>4, <1>5, <1>6, <1>7, <1>8, <1>9 DEF Next

(* A step that stays where it is, or reads the answer to an export first.  *)
LEMMA StaysUpToDate ==
  ASSUME NEW p, UpToDate(p), UNCHANGED <<todo, config, known>>, UNCHANGED line \/ Due("chunk")
  PROVE  UpToDate(p)'
<1>1. CodesAwaited(p)' <=> CodesAwaited(p)
  BY DEF CodesAwaited, Due, Holds
<1>2. Due("chunk") => ~CodesAwaited(p)
  BY DEF CodesAwaited, Due
<1>3. RightlyAcked(p)'
  BY <1>1, <1>2 DEF RightlyAcked, UpToDate
<1> QED
  BY <1>1, <1>3 DEF UpToDate, Reviewed, Current, AsKnown

LEMMA ChunkAddsNothing ==
  ASSUME todo \in Seq(AnyStep), todo # <<>>, Head(todo).op = "export", Paired(todo),
         todo' = <<Chunk(Head(todo))>> \o todo
  PROVE  /\ todo' \in Seq(AnyStep) /\ Paired(todo') /\ todo' # <<>> /\ Head(todo').op = "chunk"
         /\ \A A : (\A e \in A : e.op # "chunk") => (Has(todo', A) <=> Has(todo, A))
         /\ \A A, B : (\A e \in A : e.op # "chunk") /\ Before(todo, A, B) => Before(todo', A, B)
<1> PICK s \in Seq(AnyStep) : s = todo
  OBVIOUS
<1> PICK c \in AnyStep : c = Chunk(Head(s)) /\ c.op = "chunk" /\ <<c>> \in Seq(AnyStep)
  BY ChunkPrefix
<1> PICK t : t = <<c>> \o s /\ t = todo'
  OBVIOUS
<1>1. s # <<>> /\ Head(s).op = "export" /\ Head(s) = s[1]
  BY TailParts
<1> PICK S : S = {c}
  OBVIOUS
<1>0. <<c>> \in Seq(S) /\ S \subseteq AnyStep /\ \A e \in S : e = c
  OBVIOUS
<1>2. Coupled(<<c>>)
  <2>1. \A e \in S : e.op # "tell" /\ e.op # "ack"
    BY <1>0
  <2> QED
    BY <1>0, <2>1, NoneCoupled
<1>3. Coupled(s)
  BY <1>1 DEF Coupled, CodesAcked
<1>4. t \in Seq(AnyStep) /\ Coupled(t)
  <2>1. t \in Seq(AnyStep)
    BY Joint
  <2> QED
    BY <1>2, <1>3, <2>1, CoupledJoint
<1>5. t # <<>> /\ Head(t) = c
  <2>1. Len(<<c>>) = 1 /\ <<c>>[1] = c
    OBVIOUS
  <2>2. Len(t) = Len(<<c>>) + Len(s) /\ t[1] = <<c>>[1] /\ Len(s) \in Nat
    BY <2>1, ConcatProperties, LenProperties
  <2>3. t # <<>>
    BY <2>1, <2>2, EmptySeq
  <2> QED
    BY <1>4, <2>1, <2>2, <2>3, TailParts
<1>6. ASSUME NEW A, \A e \in A : e.op # "chunk"
      PROVE  ~Has(<<c>>, A) /\ (Has(t, A) <=> Has(s, A))
  <2>1. \A e \in S : e \notin A
    BY <1>0, <1>6
  <2>2. ~Has(<<c>>, A)
    BY <1>0, <2>1, LacksKind
  <2> PICK u \in Seq(AnyStep) : u = <<c>>
    OBVIOUS
  <2>3. Has(u \o s, A) <=> Has(u, A) \/ Has(s, A)
    BY HasJoint
  <2> QED
    BY <2>2, <2>3
<1>7. ASSUME NEW A, NEW B, \A e \in A : e.op # "chunk", Before(s, A, B)
      PROVE  Before(t, A, B)
  <2>1. Before(<<c>>, A, B)
    BY <1>6, <1>7, LacksOrders
  <2> QED
    BY <1>7, <2>1, BeforeJoint
<1> QED
  BY <1>4, <1>5, <1>6, <1>7 DEF Coupled

LEMMA ExportUpToDate ==
  ASSUME todo \in Seq(AnyStep), Due("export"), Paired(todo), NEW p, UpToDate(p),
         todo' = <<Chunk(Head(todo))>> \o todo, UNCHANGED <<config, known>>
  PROVE  UpToDate(p)'
<1>1. todo # <<>> /\ Head(todo).op = "export" /\ ~CodesAwaited(p)
  BY DEF Due, CodesAwaited
<1>2. ~CodesAwaited(p)'
  <2>1. todo' # <<>> /\ Head(todo').op = "chunk"
    BY <1>1, ChunkAddsNothing
  <2> QED
    BY <2>1 DEF CodesAwaited, CodesAcked
<1>3. ASSUME NEW x
      PROVE  /\ Has(todo', Alters(p, x)) <=> Has(todo, Alters(p, x))
             /\ Has(todo', AsksFor(p, x)) <=> Has(todo, AsksFor(p, x))
             /\ Has(todo', Questions(p, x)) <=> Has(todo, Questions(p, x))
             /\ Before(todo, Alters(p, x), AsksFor(p, x)) => Before(todo', Alters(p, x), AsksFor(p, x))
  <2>1. \A e \in Alters(p, x) : e.op # "chunk"
    BY DEF Alters
  <2>2. \A e \in AsksFor(p, x) : e.op # "chunk"
    BY DEF AsksFor
  <2>3. \A e \in Questions(p, x) : e.op # "chunk"
    BY DEF Questions
  <2> QED
    BY <1>1, <2>1, <2>2, <2>3, ChunkAddsNothing
<1>4. ASSUME NEW x \in DOMAIN config[p] PROVE Reviewed(p, x)' /\ Current(p, x)'
  <2>1. Reviewed(p, x) /\ Current(p, x)
    BY DEF UpToDate
  <2>2. Reviewed(p, x)'
    BY <1>3, <2>1 DEF Reviewed
  <2>3. Current(p, x)'
    BY <1>1, <1>3, <2>1 DEF Current, AsKnown
  <2> QED
    BY <2>2, <2>3
<1>5. config'[p].mode = "awake" /\ ~Has(todo', Alters(p, "mode")) /\ RightlyAcked(p)'
  BY <1>2, <1>3 DEF UpToDate, RightlyAcked
<1> QED
  BY <1>4, <1>5 DEF UpToDate

LEMMA StepTruthful ==
  ASSUME Typed, Steady, Stopped, AllSettable, Truthful, [Next]_vars
  PROVE  Truthful'
<1> SUFFICES ASSUME LooksAgain', exit' \notin {"error", "blocked"}
             PROVE  /\ todo' \in Seq(AnyStep) /\ Paired(todo')
                    /\ \A p \in DOMAIN config' : UpToDate(p)'
  BY DEF Truthful
<1>1. LooksAgain
  BY StepGiven DEF LooksAgain
<1>2. exit \notin {"error", "blocked"}
  BY StaysStopped
<1>3. todo \in Seq(AnyStep) /\ Paired(todo) /\ \A p \in DOMAIN config : UpToDate(p)
  BY <1>1, <1>2 DEF Truthful
<1>4. DOMAIN config' = DOMAIN config /\ program \in Examples
  BY StepConfig, StepExamples
<1>5. CASE UNCHANGED <<todo, config, known>> /\ (UNCHANGED line \/ Due("chunk"))
  <2>1. todo' \in Seq(AnyStep) /\ Paired(todo')
    BY <1>3, <1>5
  <2>2. ASSUME NEW p \in DOMAIN config PROVE UpToDate(p)'
    BY <1>3, <1>5, StaysUpToDate
  <2> QED
    BY <1>4, <2>1, <2>2
<1>6. CASE todo # <<>> /\ todo' = Tail(todo)
  <2>1. todo' \in Seq(AnyStep) /\ Paired(todo')
    BY <1>3, <1>6, TailParts, PairedTail
  <2>2. Next /\ exit = "running"
    <3>1. exit = "running"
      BY <1>6 DEF Stopped
    <3>2. todo # Tail(todo)
      <4>1. Len(Tail(todo)) = Len(todo) - 1 /\ Len(todo) \in Nat
        BY <1>3, <1>6, TailParts
      <4> QED
        BY <4>1
    <3>3. todo' # todo
      BY <1>6, <3>2
    <3> QED
      BY <3>1, <3>3 DEF vars
  <2>3. ASSUME NEW p \in DOMAIN config PROVE UpToDate(p)'
    BY <1>3, <1>4, <1>6, <2>2, StepUpToDate
  <2> QED
    BY <1>4, <2>1, <2>3
<1>7. CASE Due("export") /\ todo' = <<Chunk(Head(todo))>> \o todo /\ UNCHANGED <<config, known>>
  <2>1. todo # <<>> /\ Head(todo).op = "export"
    BY <1>7 DEF Due
  <2>2. todo' \in Seq(AnyStep) /\ Paired(todo')
    BY <1>3, <1>7, <2>1, ChunkAddsNothing
  <2>3. ASSUME NEW p \in DOMAIN config PROVE UpToDate(p)'
    BY <1>3, <1>7, ExportUpToDate
  <2> QED
    BY <1>4, <2>2, <2>3
<1> QED
  BY <1>5, <1>6, <1>7, MovesOn

LEMMA TruthfulReports ==
  ASSUME Stopped, Truthful
  PROVE  ReportIsTrue
<1> SUFFICES ASSUME exit = "ok", LooksAgain, NEW p \in DOMAIN config,
                    NEW x \in DOMAIN known[p] \cap DOMAIN config[p]
             PROVE  known[p][x] = config[p][x]
  BY DEF ReportIsTrue
<1>1. todo = <<>> /\ UpToDate(p)
  BY DEF Stopped, Truthful
<1>2. ~CodesAwaited(p)
  BY <1>1 DEF CodesAwaited, Due
<1>3. ~Has(<<>>, AsksFor(p, x))
  BY DEF Has
<1>4. Current(p, x)
  BY <1>1 DEF UpToDate
<1> QED
  BY <1>1, <1>2, <1>3, <1>4 DEF Current, AsKnown

(* What a program that succeeds has read last of a circuit's settings is   *)
(* what the circuit is set to, whether or not its commands were obeyed,    *)
(* unless it was told to put the circuit to sleep, to reset it or to       *)
(* switch it over: whatever a command changes is asked for after it, and   *)
(* the response codes are known to be on only when the circuit says so.    *)
THEOREM ReportsAreTrue == Spec => []ReportIsTrue
<1>1. Init => Typed /\ Steady /\ Stopped /\ AllSettable /\ Truthful
  BY InitTyped, InitSteady, InitStopped, InitTruthful
<1>2. /\ Typed /\ Steady /\ Stopped /\ AllSettable /\ Truthful
      /\ [Next]_vars
      => (Typed /\ Steady /\ Stopped /\ AllSettable /\ Truthful)'
  BY StepTyped, StepSteady, StaysStopped, AllSettableStays, StepTruthful
<1>3. Typed /\ Steady /\ Stopped /\ AllSettable /\ Truthful => ReportIsTrue
  BY TruthfulReports
<1> QED
  BY <1>1, <1>2, <1>3, PTL DEF Spec
=============================================================================
