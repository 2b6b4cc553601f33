-------------------------- MODULE EzoProgramProofs --------------------------
(***************************************************************************)
(* Proofs about the example programs, for circuits with any settings and   *)
(* any number of options and faults.                                       *)
(***************************************************************************)
EXTENDS EzoProgramProps, SequenceTheorems, TLAPS

-----------------------------------------------------------------------------
(***************************************************************************)
(* Types.                                                                  *)
(***************************************************************************)
(* A circuit's settings are a function; the shared ones are among them.    *)
Functional ==
  \A p \in DOMAIN config :
    /\ config[p] = [x \in DOMAIN config[p] |-> config[p][x]]
    /\ {"mode", "codes", "plock"} \subseteq DOMAIN config[p]

Typed == ProgramTypeOK /\ Functional

LEMMA ExamplePairs ==
  ASSUME NEW g \in Examples
  PROVE  g = [name |-> g.name, on |-> g.on] /\ g.name \in STRING /\ g.on \in Products
         /\ g.on \in MadeFor(g.name)
  BY DEF Examples

(* A program uses circuits of the six products. *)
LEMMA UsesProducts ==
  ASSUME NEW n, NEW p \in Products
  PROVE  Uses(n, p) \subseteq Products
  BY DEF Uses, Products

LEMMA InitTyped ==
  ASSUME Init
  PROVE  Typed
<1> DEFINE ps == Uses(program.name, program.on)
<1>1. ps \subseteq Products
  <2>1. program.on \in Products
    BY ExamplePairs, ProgramAssumption DEF Init
  <2> QED
    BY <2>1, UsesProducts
<1>2. DOMAIN config = ps /\ \A p \in ps : config[p] \in Circuits[p]
  BY DEF Init, SettingsOf
<1>3. ASSUME NEW p \in DOMAIN config, NEW c \in Circuits[p]
      PROVE  DOMAIN config[p] = DOMAIN c
  <2>1. p \in Products /\ config[p] \in Circuits[p]
    BY <1>1, <1>2
  <2> QED
    BY <2>1, ProgramAssumption
<1>4. ASSUME NEW p \in DOMAIN config
      PROVE  /\ config[p] = [x \in DOMAIN config[p] |-> config[p][x]]
             /\ {"mode", "codes", "plock"} \subseteq DOMAIN config[p]
  <2>1. p \in Products /\ config[p] \in Circuits[p]
    BY <1>1, <1>2
  <2> QED
    BY <2>1, ProgramAssumption
<1>5. DOMAIN line = DOMAIN config /\ DOMAIN known = DOMAIN config
  BY DEF Init
<1>6. program \in Programs /\ bus \in {"uart", "i2c"} /\ exit = "running" /\ failed = FALSE /\ faults = 0
  BY DEF Init
<1>7. 0 \in 0 .. MaxFaults
  BY ProgramAssumption
<1> QED
  BY <1>2, <1>3, <1>4, <1>5, <1>6, <1>7 DEF Typed, ProgramTypeOK, Functional

(* A command neither takes a setting away nor adds one. *)
LEMMA EffectKeepsDomain ==
  ASSUME NEW c, NEW what, NEW value
  PROVE  /\ DOMAIN Effect(c, what, value) = DOMAIN c
         /\ Effect(c, what, value)
              = [x \in DOMAIN Effect(c, what, value) |-> Effect(c, what, value)[x]]
  BY DEF Effect

(* How a step changes the settings, if it does. *)
Changes ==
  \/ UNCHANGED config
  \/ /\ todo # <<>> /\ Due("tell")
     /\ config' = [config EXCEPT ![Head(todo).on]
                     = Effect(config[Head(todo).on], Head(todo).what, Sent(Head(todo)))]
  \/ /\ todo # <<>> /\ Due("tell") /\ config[Head(todo).on].mode = "asleep"
     /\ config' = [config EXCEPT ![Head(todo).on] = [config[Head(todo).on] EXCEPT !.mode = "awake"]]

LEMMA StepChanges ==
  ASSUME [Next]_vars
  PROVE  Changes
<1>1. CASE Command
  BY <1>1 DEF Command, Changes, Due
<1>2. CASE ~Command /\ Next
  BY <1>2 DEF Next, Skip, OpenSession, Discard, Query, ReadOk, SendExport, ReadChunkUart,
     ReadChunkI2c, ImportResultUart, ImportResultI2c, ConvertToCelsius, Decide, RaiseFirstError,
     Finish, Ended, vars, Changes
<1>3. CASE UNCHANGED vars
  BY <1>3 DEF vars, Changes
<1> QED
  BY <1>1, <1>2, <1>3

LEMMA StepConfig ==
  ASSUME Typed, [Next]_vars
  PROVE  /\ DOMAIN config' = DOMAIN config
         /\ \A p \in DOMAIN config : DOMAIN config'[p] = DOMAIN config[p]
         /\ Functional'
<1>1. Changes
  BY StepChanges
<1>2. CASE UNCHANGED config
  BY <1>2 DEF Typed, Functional
<1>3. ASSUME NEW p, NEW c, config' = [config EXCEPT ![p] = c], DOMAIN c = DOMAIN config[p],
             c = [x \in DOMAIN c |-> c[x]]
      PROVE  /\ DOMAIN config' = DOMAIN config
             /\ \A q \in DOMAIN config : DOMAIN config'[q] = DOMAIN config[q]
             /\ Functional'
  BY <1>3 DEF Typed, Functional
<1>4. ASSUME NEW c
      PROVE  /\ DOMAIN [c EXCEPT !.mode = "awake"] = DOMAIN c
             /\ [c EXCEPT !.mode = "awake"]
                  = [x \in DOMAIN [c EXCEPT !.mode = "awake"] |-> [c EXCEPT !.mode = "awake"][x]]
  OBVIOUS
<1> QED
  BY <1>1, <1>2, <1>3, <1>4, EffectKeepsDomain DEF Changes

LEMMA StepTyped ==
  ASSUME Typed, [Next]_vars
  PROVE  Typed'
<1>1. DOMAIN config' = DOMAIN config /\ (\A p \in DOMAIN config : DOMAIN config'[p] = DOMAIN config[p])
      /\ Functional'
  BY StepConfig
<1>2. UNCHANGED <<program, bus, flags>>
  BY DEF Next, Skip, OpenSession, Discard, Query, Command, ReadOk, SendExport, ReadChunkUart,
     ReadChunkI2c, ImportResultUart, ImportResultI2c, ConvertToCelsius, Decide, RaiseFirstError,
     Finish, Ended, vars, given
<1>3. DOMAIN line' = DOMAIN line
  BY DEF Next, Skip, OpenSession, Discard, Query, Command, ReadOk, SendExport, ReadChunkUart,
     ReadChunkI2c, ImportResultUart, ImportResultI2c, ConvertToCelsius, Decide, RaiseFirstError,
     Finish, Ended, vars
<1>4. DOMAIN known' = DOMAIN known
  BY DEF Next, Skip, OpenSession, Discard, Query, Command, ReadOk, SendExport, ReadChunkUart,
     ReadChunkI2c, ImportResultUart, ImportResultI2c, ConvertToCelsius, Decide, RaiseFirstError,
     Finish, Ended, vars
<1>5. exit' \in {"running", "ok", "blocked", "error"} /\ failed' \in BOOLEAN
  BY DEF Typed, ProgramTypeOK, Next, Skip, OpenSession, Discard, Query, Command, ReadOk, SendExport,
     ReadChunkUart, ReadChunkI2c, ImportResultUart, ImportResultI2c, ConvertToCelsius, Decide,
     RaiseFirstError, Finish, Ended, vars, Proceeds, Fails, Stops, Prints
<1>6. faults' \in 0 .. MaxFaults
  <2>1. faults' = faults \/ Fault
    BY DEF Next, Skip, OpenSession, Discard, Query, Command, ReadOk, SendExport,
       ReadChunkUart, ReadChunkI2c, ImportResultUart, ImportResultI2c, ConvertToCelsius, Decide,
       RaiseFirstError, Finish, Ended, vars
  <2> QED
    BY <2>1, ProgramAssumption DEF Fault, Typed, ProgramTypeOK
<1> QED
  BY <1>1, <1>2, <1>3, <1>4, <1>5, <1>6 DEF Typed, ProgramTypeOK

(* Every reachable state is well typed: each circuit keeps the settings    *)
(* its product has.                                                        *)
THEOREM ProgramTypesHold == Spec => []ProgramTypeOK
<1>1. Typed => ProgramTypeOK
  BY DEF Typed
<1> QED
  BY InitTyped, StepTyped, <1>1, PTL DEF Spec

-----------------------------------------------------------------------------
(***************************************************************************)
(* Scripts and their steps.                                                *)
(***************************************************************************)
(* The words the scripts are made of. *)
Words ==
  {"%", "DO", "Dew", "EC", "HUM", "OK", "ORP", "PH", "RTD", "S", "ack",
   "always", "ask", "asleep", "baud", "calibrate", "calibration", "celsius",
   "chunk", "chunks", "clear", "codes", "codes off", "discard", "dry",
   "export", "extended", "find", "first error", "high", "i2c", "import",
   "imported", "info", "input", "k", "led", "logger", "low", "memory",
   "memory_all", "memory_next", "mid", "mode", "more memory", "name", "need",
   "never", "new baud", "none", "off", "on", "open", "operating-temp-recal",
   "output", "output_off", "output_on", "planned", "plock", "ppt", "pressure",
   "probe_k", "raise", "read", "read_compensated", "reset", "result",
   "salinity", "salinity measured", "scale", "session", "single", "slope",
   "some memory", "status", "tds", "tell", "temperature", "unlocked"}

AnyStep == [op : Words, on : Words, what : Words, value : Words, when : Words,
          failing : {"stops", "goes on"}]

LEMMA AllWords ==
  /\ "%" \in Words /\ "DO" \in Words /\ "Dew" \in Words
  /\ "EC" \in Words /\ "HUM" \in Words /\ "OK" \in Words
  /\ "ORP" \in Words /\ "PH" \in Words /\ "RTD" \in Words
  /\ "S" \in Words /\ "ack" \in Words /\ "always" \in Words
  /\ "ask" \in Words /\ "asleep" \in Words /\ "baud" \in Words
  /\ "calibrate" \in Words /\ "calibration" \in Words /\ "celsius" \in Words
  /\ "chunk" \in Words /\ "chunks" \in Words /\ "clear" \in Words
  /\ "codes" \in Words /\ "codes off" \in Words /\ "discard" \in Words
  /\ "dry" \in Words /\ "export" \in Words /\ "extended" \in Words
  /\ "find" \in Words /\ "first error" \in Words /\ "high" \in Words
  /\ "i2c" \in Words /\ "import" \in Words /\ "imported" \in Words
  /\ "info" \in Words /\ "input" \in Words /\ "k" \in Words
  /\ "led" \in Words /\ "logger" \in Words /\ "low" \in Words
  /\ "memory" \in Words /\ "memory_all" \in Words /\ "memory_next" \in Words
  /\ "mid" \in Words /\ "mode" \in Words /\ "more memory" \in Words
  /\ "name" \in Words /\ "need" \in Words /\ "never" \in Words
  /\ "new baud" \in Words /\ "none" \in Words /\ "off" \in Words
  /\ "on" \in Words /\ "open" \in Words /\ "operating-temp-recal" \in Words
  /\ "output" \in Words /\ "output_off" \in Words /\ "output_on" \in Words
  /\ "planned" \in Words /\ "plock" \in Words /\ "ppt" \in Words
  /\ "pressure" \in Words /\ "probe_k" \in Words /\ "raise" \in Words
  /\ "read" \in Words /\ "read_compensated" \in Words /\ "reset" \in Words
  /\ "result" \in Words /\ "salinity" \in Words /\ "salinity measured" \in Words
  /\ "scale" \in Words /\ "session" \in Words /\ "single" \in Words
  /\ "slope" \in Words /\ "some memory" \in Words /\ "status" \in Words
  /\ "tds" \in Words /\ "tell" \in Words /\ "temperature" \in Words
  /\ "unlocked" \in Words
  BY SMTT(60) DEF Words

LEMMA CallIsStep ==
  ASSUME NEW op \in Words, NEW p \in Words, NEW what \in Words, NEW value \in Words
  PROVE  /\ Call(op, p, what, value) \in AnyStep
         /\ Call(op, p, what, value).op = op /\ Call(op, p, what, value).on = p
         /\ Call(op, p, what, value).what = what /\ Call(op, p, what, value).value = value
         /\ Call(op, p, what, value).when = "always" /\ Call(op, p, what, value).failing = "stops"
  BY AllWords DEF Call, AnyStep

LEMMA MadeIsStep ==
  ASSUME NEW s \in AnyStep, NEW condition \in Words, NEW failing \in {"stops", "goes on"}
  PROVE  /\ Made(s, condition, failing) \in AnyStep
         /\ Made(s, condition, failing).op = s.op /\ Made(s, condition, failing).on = s.on
         /\ Made(s, condition, failing).what = s.what /\ Made(s, condition, failing).value = s.value
         /\ Made(s, condition, failing).when = condition
         /\ Made(s, condition, failing).failing = failing
  BY DEF Made, AnyStep

(* A step made under a condition is the same step otherwise. *)
LEMMA MadeWhen ==
  ASSUME NEW s \in AnyStep, NEW condition \in Words
  PROVE  /\ Made(s, condition, s.failing) \in AnyStep
         /\ Made(s, condition, s.failing).op = s.op /\ Made(s, condition, s.failing).on = s.on
         /\ Made(s, condition, s.failing).what = s.what
         /\ Made(s, condition, s.failing).value = s.value
         /\ Made(s, condition, s.failing).when = condition
         /\ Made(s, condition, s.failing).failing = s.failing
  BY DEF Made, AnyStep

(* Sequences by their elements. *)
LEMMA SeqOf ==
  ASSUME NEW S, NEW n \in Nat, NEW f, DOMAIN f = 1 .. n, f = [i \in 1 .. n |-> f[i]],
         \A i \in 1 .. n : f[i] \in S
  PROVE  f \in Seq(S) /\ Len(f) = n
<1>1. f \in [1 .. n -> S]
  OBVIOUS
<1> QED
  BY <1>1, SeqDef, LenProperties

LEMMA One ==
  ASSUME NEW S, NEW e \in S
  PROVE  <<e>> \in Seq(S)
  OBVIOUS

LEMMA Joint ==
  ASSUME NEW S, NEW s \in Seq(S), NEW t \in Seq(S)
  PROVE  s \o t \in Seq(S)
  BY ConcatProperties

LEMMA Optional ==
  ASSUME NEW S, NEW b, NEW s \in Seq(S)
  PROVE  If(b, s) \in Seq(S)
  BY DEF If

LEMMA AsksOf ==
  ASSUME NEW S, NEW p \in Words, NEW whats \in Seq(Words),
         \A what \in Words : Call("ask", p, what, "none") \in S
  PROVE  Asks(p, whats) \in Seq(S) /\ Len(Asks(p, whats)) = Len(whats)
<1>1. Len(whats) \in Nat /\ DOMAIN whats = 1 .. Len(whats) /\ \A i \in 1 .. Len(whats) : whats[i] \in Words
  BY LenProperties, ElementOfSeq
<1> QED
  BY <1>1, SeqOf DEF Asks

LEMMA PreviewOf ==
  ASSUME NEW S, NEW p \in Words, NEW n \in Nat, Call("ask", p, "read", "none") \in S
  PROVE  Preview(p, n) \in Seq(S)
  BY SeqOf DEF Preview

LEMMA OverI2cOf ==
  ASSUME NEW S, NEW script \in Seq(S),
         \A s \in S : OnlyOverUart(s) => Made(s, "never", s.failing) \in S
  PROVE  OverI2c(script) \in Seq(S)
<1>1. Len(script) \in Nat /\ DOMAIN script = 1 .. Len(script) /\ \A i \in 1 .. Len(script) : script[i] \in S
  BY LenProperties, ElementOfSeq
<1> QED
  BY <1>1, SeqOf DEF OverI2c

LEMMA Two ==
  ASSUME NEW S, NEW a \in S, NEW b \in S
  PROVE  <<a, b>> \in Seq(S)
  OBVIOUS

LEMMA Three ==
  ASSUME NEW S, NEW a \in S, NEW b \in S, NEW c \in S
  PROVE  <<a, b, c>> \in Seq(S)
  OBVIOUS

LEMMA Four ==
  ASSUME NEW S, NEW a \in S, NEW b \in S, NEW c \in S, NEW d \in S
  PROVE  <<a, b, c, d>> \in Seq(S)
  OBVIOUS

LEMMA Five ==
  ASSUME NEW S, NEW a \in S, NEW b \in S, NEW c \in S, NEW d \in S, NEW e \in S
  PROVE  <<a, b, c, d, e>> \in Seq(S)
  OBVIOUS

LEMMA Six ==
  ASSUME NEW S, NEW a \in S, NEW b \in S, NEW c \in S, NEW d \in S, NEW e \in S, NEW f \in S
  PROVE  <<a, b, c, d, e, f>> \in Seq(S)
  OBVIOUS

LEMMA Seven ==
  ASSUME NEW S, NEW a \in S, NEW b \in S, NEW c \in S, NEW d \in S, NEW e \in S, NEW f \in S,
         NEW g \in S
  PROVE  <<a, b, c, d, e, f, g>> \in Seq(S)
  OBVIOUS

-----------------------------------------------------------------------------
(***************************************************************************)
(* Where steps of some kind are in a script.                               *)
(***************************************************************************)
Has(s, A) == \E i \in 1 .. Len(s) : s[i] \in A

(* Every step of B comes after one of A. *)
After(s, A, B) == \A i \in 1 .. Len(s) : s[i] \in B => \E j \in 1 .. Len(s) : j < i /\ s[j] \in A

(* Every step of A comes before one of B. *)
Before(s, A, B) == \A i \in 1 .. Len(s) : s[i] \in A => \E j \in 1 .. Len(s) : i < j /\ s[j] \in B

(* No step of B comes after one of A. *)
Never(s, A, B) == \A i, j \in 1 .. Len(s) : i < j /\ s[i] \in A => s[j] \notin B

LEMMA JointParts ==
  ASSUME NEW s \in Seq(AnyStep), NEW t \in Seq(AnyStep)
  PROVE  /\ s \o t \in Seq(AnyStep) /\ Len(s) \in Nat /\ Len(t) \in Nat
         /\ Len(s \o t) = Len(s) + Len(t)
         /\ \A i \in 1 .. Len(s) : i \in 1 .. Len(s \o t) /\ (s \o t)[i] = s[i]
         /\ \A i \in 1 .. Len(t) : Len(s) + i \in 1 .. Len(s \o t) /\ (s \o t)[Len(s) + i] = t[i]
         /\ \A i \in 1 .. Len(s \o t) :
              i \in 1 .. Len(s) \/ (i > Len(s) /\ i - Len(s) \in 1 .. Len(t) /\ i = Len(s) + (i - Len(s)))
  BY ConcatProperties, LenProperties

LEMMA Assoc ==
  ASSUME NEW a \in Seq(AnyStep), NEW b \in Seq(AnyStep), NEW c \in Seq(AnyStep)
  PROVE  (a \o b) \o c = a \o (b \o c)
  BY ConcatAssociative

LEMMA HasJoint ==
  ASSUME NEW s \in Seq(AnyStep), NEW t \in Seq(AnyStep), NEW A
  PROVE  Has(s \o t, A) <=> Has(s, A) \/ Has(t, A)
<1>1. ASSUME Has(s, A) PROVE Has(s \o t, A)
  BY <1>1, JointParts DEF Has
<1>2. ASSUME Has(t, A) PROVE Has(s \o t, A)
  <2>1. PICK i \in 1 .. Len(t) : t[i] \in A
    BY <1>2 DEF Has
  <2>2. Len(s) + i \in 1 .. Len(s \o t) /\ (s \o t)[Len(s) + i] \in A
    BY <2>1, JointParts
  <2> QED
    BY <2>2 DEF Has
<1>3. ASSUME Has(s \o t, A) PROVE Has(s, A) \/ Has(t, A)
  <2>1. PICK i \in 1 .. Len(s \o t) : (s \o t)[i] \in A
    BY <1>3 DEF Has
  <2>2. CASE i \in 1 .. Len(s)
    BY <2>1, <2>2, JointParts DEF Has
  <2>3. CASE i > Len(s) /\ i - Len(s) \in 1 .. Len(t) /\ i = Len(s) + (i - Len(s))
    <3>1. t[i - Len(s)] \in A
      BY <2>1, <2>3, JointParts
    <3> QED
      BY <2>3, <3>1 DEF Has
  <2> QED
    BY <2>2, <2>3, JointParts
<1> QED
  BY <1>1, <1>2, <1>3

LEMMA AfterJoint ==
  ASSUME NEW s \in Seq(AnyStep), NEW t \in Seq(AnyStep), NEW A, NEW B,
         After(s, A, B), After(t, A, B) \/ Has(s, A)
  PROVE  After(s \o t, A, B)
<1> SUFFICES ASSUME NEW i \in 1 .. Len(s \o t), (s \o t)[i] \in B
             PROVE  \E j \in 1 .. Len(s \o t) : j < i /\ (s \o t)[j] \in A
  BY DEF After
<1>1. CASE i \in 1 .. Len(s)
  <2>1. PICK j \in 1 .. Len(s) : j < i /\ s[j] \in A
    BY <1>1, JointParts DEF After
  <2> QED
    BY <2>1, JointParts
<1>2. CASE i > Len(s) /\ i - Len(s) \in 1 .. Len(t) /\ i = Len(s) + (i - Len(s))
  <2>1. CASE Has(s, A)
    <3>1. PICK j \in 1 .. Len(s) : s[j] \in A
      BY <2>1 DEF Has
    <3> QED
      BY <1>2, <3>1, JointParts
  <2>2. CASE After(t, A, B)
    <3>1. t[i - Len(s)] \in B
      BY <1>2, JointParts
    <3>2. PICK j \in 1 .. Len(t) : j < i - Len(s) /\ t[j] \in A
      BY <1>2, <2>2, <3>1 DEF After
    <3>3. Len(s) + j \in 1 .. Len(s \o t) /\ Len(s) + j < i /\ (s \o t)[Len(s) + j] \in A
      BY <1>2, <3>2, JointParts
    <3> QED
      BY <3>3
  <2> QED
    BY <2>1, <2>2
<1> QED
  BY <1>1, <1>2, JointParts

LEMMA BeforeJoint ==
  ASSUME NEW s \in Seq(AnyStep), NEW t \in Seq(AnyStep), NEW A, NEW B,
         Before(s, A, B) \/ Has(t, B), Before(t, A, B)
  PROVE  Before(s \o t, A, B)
<1> SUFFICES ASSUME NEW i \in 1 .. Len(s \o t), (s \o t)[i] \in A
             PROVE  \E j \in 1 .. Len(s \o t) : i < j /\ (s \o t)[j] \in B
  BY DEF Before
<1>1. CASE i \in 1 .. Len(s)
  <2>1. CASE Before(s, A, B)
    <3>1. PICK j \in 1 .. Len(s) : i < j /\ s[j] \in B
      BY <1>1, <2>1, JointParts DEF Before
    <3> QED
      BY <3>1, JointParts
  <2>2. CASE Has(t, B)
    <3>1. PICK j \in 1 .. Len(t) : t[j] \in B
      BY <2>2 DEF Has
    <3>2. Len(s) + j \in 1 .. Len(s \o t) /\ i < Len(s) + j /\ (s \o t)[Len(s) + j] \in B
      BY <1>1, <3>1, JointParts
    <3> QED
      BY <3>2
  <2> QED
    BY <2>1, <2>2
<1>2. CASE i > Len(s) /\ i - Len(s) \in 1 .. Len(t) /\ i = Len(s) + (i - Len(s))
  <2>1. t[i - Len(s)] \in A
    BY <1>2, JointParts
  <2>2. PICK j \in 1 .. Len(t) : i - Len(s) < j /\ t[j] \in B
    BY <1>2, <2>1 DEF Before
  <2>3. Len(s) + j \in 1 .. Len(s \o t) /\ i < Len(s) + j /\ (s \o t)[Len(s) + j] \in B
    BY <1>2, <2>2, JointParts
  <2> QED
    BY <2>3
<1> QED
  BY <1>1, <1>2, JointParts

LEMMA NeverJoint ==
  ASSUME NEW s \in Seq(AnyStep), NEW t \in Seq(AnyStep), NEW A, NEW B,
         Never(s, A, B), Never(t, A, B), ~Has(s, A) \/ ~Has(t, B)
  PROVE  Never(s \o t, A, B)
<1> SUFFICES ASSUME NEW i \in 1 .. Len(s \o t), NEW j \in 1 .. Len(s \o t), i < j,
                    (s \o t)[i] \in A, (s \o t)[j] \in B
             PROVE  FALSE
  BY DEF Never
<1>1. CASE i \in 1 .. Len(s) /\ j \in 1 .. Len(s)
  BY <1>1, JointParts DEF Never
<1>2. CASE i \in 1 .. Len(s) /\ j > Len(s) /\ j - Len(s) \in 1 .. Len(t) /\ j = Len(s) + (j - Len(s))
  <2>1. s[i] \in A /\ t[j - Len(s)] \in B
    BY <1>2, JointParts
  <2> QED
    BY <1>2, <2>1 DEF Has
<1>3. CASE i > Len(s) /\ i - Len(s) \in 1 .. Len(t) /\ i = Len(s) + (i - Len(s))
  <2>1. j > Len(s) /\ j - Len(s) \in 1 .. Len(t) /\ j = Len(s) + (j - Len(s))
    BY <1>3, JointParts
  <2>2. t[i - Len(s)] \in A /\ t[j - Len(s)] \in B /\ i - Len(s) < j - Len(s)
    BY <1>3, <2>1, JointParts
  <2> QED
    BY <1>3, <2>1, <2>2 DEF Never
<1> QED
  BY <1>1, <1>2, <1>3, JointParts

(* What holds of a script holds of the rest of it. *)
LEMMA TailParts ==
  ASSUME NEW s \in Seq(AnyStep), s # <<>>
  PROVE  /\ Tail(s) \in Seq(AnyStep) /\ Head(s) \in AnyStep /\ Head(s) = s[1] /\ 1 \in 1 .. Len(s)
         /\ Len(s) \in Nat /\ Len(Tail(s)) = Len(s) - 1
         /\ \A i \in 1 .. Len(Tail(s)) : i + 1 \in 1 .. Len(s) /\ Tail(s)[i] = s[i + 1]
         /\ \A i \in 1 .. Len(s) : i = 1 \/ (i - 1 \in 1 .. Len(Tail(s)) /\ Tail(s)[i - 1] = s[i])
  BY HeadTailProperties, LenProperties, EmptySeq

LEMMA HasTail ==
  ASSUME NEW s \in Seq(AnyStep), s # <<>>, NEW A
  PROVE  Has(s, A) <=> Head(s) \in A \/ Has(Tail(s), A)
<1>1. ASSUME Has(s, A) PROVE Head(s) \in A \/ Has(Tail(s), A)
  BY <1>1, TailParts DEF Has
<1>2. ASSUME Has(Tail(s), A) PROVE Has(s, A)
  BY <1>2, TailParts DEF Has
<1> QED
  BY <1>1, <1>2, TailParts DEF Has

LEMMA AfterTail ==
  ASSUME NEW s \in Seq(AnyStep), s # <<>>, NEW A, NEW B, After(s, A, B)
  PROVE  Head(s) \notin B /\ (Head(s) \notin A => After(Tail(s), A, B))
<1>1. Head(s) \notin B
  BY TailParts DEF After
<1>2. ASSUME Head(s) \notin A, NEW i \in 1 .. Len(Tail(s)), Tail(s)[i] \in B
      PROVE  \E j \in 1 .. Len(Tail(s)) : j < i /\ Tail(s)[j] \in A
  <2>1. PICK j \in 1 .. Len(s) : j < i + 1 /\ s[j] \in A
    BY <1>2, TailParts DEF After
  <2>2. j - 1 \in 1 .. Len(Tail(s)) /\ Tail(s)[j - 1] \in A
    BY <1>2, <2>1, TailParts
  <2> QED
    BY <2>1, <2>2
<1> QED
  BY <1>1, <1>2 DEF After

LEMMA BeforeTail ==
  ASSUME NEW s \in Seq(AnyStep), s # <<>>, NEW A, NEW B, Before(s, A, B)
  PROVE  Before(Tail(s), A, B) /\ (Head(s) \in A => Has(Tail(s), B))
<1>1. ASSUME Head(s) \in A PROVE Has(Tail(s), B)
  <2>1. PICK j \in 1 .. Len(s) : 1 < j /\ s[j] \in B
    BY <1>1, TailParts DEF Before
  <2>2. j - 1 \in 1 .. Len(Tail(s)) /\ Tail(s)[j - 1] \in B
    BY <2>1, TailParts
  <2> QED
    BY <2>2 DEF Has
<1>2. ASSUME NEW i \in 1 .. Len(Tail(s)), Tail(s)[i] \in A
      PROVE  \E j \in 1 .. Len(Tail(s)) : i < j /\ Tail(s)[j] \in B
  <2>1. i + 1 \in 1 .. Len(s) /\ s[i + 1] \in A
    BY <1>2, TailParts
  <2>2. PICK j \in 1 .. Len(s) : i + 1 < j /\ s[j] \in B
    BY <2>1 DEF Before
  <2>3. j - 1 \in 1 .. Len(Tail(s)) /\ Tail(s)[j - 1] \in B
    BY <2>2, TailParts
  <2>4. i < j - 1
    BY <2>2
  <2> QED
    BY <2>3, <2>4
<1> QED
  BY <1>1, <1>2 DEF Before

LEMMA NeverTail ==
  ASSUME NEW s \in Seq(AnyStep), s # <<>>, NEW A, NEW B, Never(s, A, B)
  PROVE  Never(Tail(s), A, B) /\ (Head(s) \in A => ~Has(Tail(s), B))
<1>1. ASSUME Head(s) \in A PROVE ~Has(Tail(s), B)
  <2>1. SUFFICES ASSUME NEW j \in 1 .. Len(Tail(s)), Tail(s)[j] \in B PROVE FALSE
    BY DEF Has
  <2>2. j + 1 \in 1 .. Len(s) /\ s[j + 1] \in B /\ 1 < j + 1
    BY <2>1, TailParts
  <2> QED
    BY <1>1, <2>2, TailParts DEF Never
<1>2. ASSUME NEW i \in 1 .. Len(Tail(s)), NEW j \in 1 .. Len(Tail(s)), i < j, Tail(s)[i] \in A
      PROVE  Tail(s)[j] \notin B
  <2>1. i + 1 \in 1 .. Len(s) /\ j + 1 \in 1 .. Len(s) /\ i + 1 < j + 1
    BY <1>2, TailParts
  <2> QED
    BY <1>2, <2>1, TailParts DEF Never
<1> QED
  BY <1>1, <1>2 DEF Never

LEMMA LacksOrders ==
  ASSUME NEW s, NEW A, NEW B
  PROVE  /\ ~Has(s, B) => After(s, A, B) /\ Never(s, A, B)
         /\ ~Has(s, A) => Before(s, A, B) /\ Never(s, A, B)
  BY DEF Has, After, Before, Never

LEMMA LacksKind ==
  ASSUME NEW S, NEW s \in Seq(S), NEW A, \A e \in S : e \notin A
  PROVE  ~Has(s, A)
  BY ElementOfSeq DEF Has

-----------------------------------------------------------------------------
(***************************************************************************)
(* Kinds of steps.                                                         *)
(***************************************************************************)
(* Commands that are acknowledged before anything else is done, and all    *)
(* steps that need a line without leftovers.                               *)
Checked(p) == {s \in AnyStep : s.op = "tell" /\ s.on = p /\ s.what \notin {"mode", "import"}}

Needy(p) == {s \in AnyStep : s.op = "ask" /\ s.on = p} \cup Checked(p)

Discards(p) == {s \in AnyStep : s.op = "discard" /\ s.on = p /\ s.when = "always"}

(* AnyStep that may leave something on the line. *)
Loose(p) ==
  {s \in AnyStep : /\ s.on = p
                 /\ \/ s.op \in {"export", "chunk", "result"}
                    \/ s.op = "tell" /\ s.what \in {"mode", "import"}}

Acks(s, t) == t.op = "ack" /\ t.on = s.on /\ t.when = s.when

Acked(s) ==
  \A i \in 1 .. Len(s) : \A p \in Words :
    s[i] \in Checked(p) => i + 1 \in 1 .. Len(s) /\ Acks(s[i], s[i + 1])

(* The steps of a program on circuits cs that has not been told to apply   *)
(* anything, those after it has turned the response codes on, and all.     *)
Looks(s) ==
  /\ s.failing = "stops"
  /\ s.op \in {"open", "discard", "ask", "tell", "ack", "celsius"}
  /\ s.op = "tell" => s.what = "codes" /\ s.value = "on"

Looking(cs) == {s \in AnyStep : s.on \in cs /\ Looks(s)}

OnlyAsks(s) == s.failing = "stops" /\ s.op \in {"ask", "celsius", "need"}

Asking(cs) == {s \in AnyStep : s.on \in cs /\ OnlyAsks(s)}

MayStop(s) == s.failing = "stops"

Stopping(cs) == {s \in AnyStep : s.on \in cs /\ MayStop(s)}

(* The commands that turn the response codes on, and what acknowledges     *)
(* them: each is followed by the other, under the same condition.          *)
TurnsCodesOn(s) == s.op = "tell" /\ s.what = "codes" /\ s.value = "on"

CodesTold(p) == {s \in AnyStep : s.on = p /\ TurnsCodesOn(s)}

CodesAcked(p) == {s \in AnyStep : s.op = "ack" /\ s.on = p /\ s.what = "codes"}

Paired(s) ==
  \A p \in Words : \A i \in 1 .. Len(s) :
    /\ s[i] \in CodesTold(p) =>
         i + 1 \in 1 .. Len(s) /\ s[i + 1] \in CodesAcked(p) /\ s[i + 1].when = s[i].when
    /\ s[i] \in CodesAcked(p) =>
         s[i].failing = "stops" /\ (i = 1 \/ s[i - 1] \in CodesTold(p))

(* Nothing before these steps is acknowledged by the first of them. *)
Coupled(s) == Paired(s) /\ \A p \in Words : s = <<>> \/ s[1] \notin CodesAcked(p)

(* The beginning of a program: it has discarded the input of a circuit     *)
(* before it asks or tells it anything.                                    *)
Opened(s, cs) ==
  /\ s \in Seq(Looking(cs)) /\ Acked(s) /\ Coupled(s)
  /\ \A p \in cs : Has(s, Discards(p))
  /\ \A p \in Words : After(s, Discards(p), Needy(p))

LEMMA KindsAreSteps ==
  ASSUME NEW cs
  PROVE  /\ Looking(cs) \subseteq AnyStep /\ Asking(cs) \subseteq AnyStep /\ Stopping(cs) \subseteq AnyStep
         /\ Looking(cs) \subseteq Stopping(cs) /\ Asking(cs) \subseteq Stopping(cs)
  BY DEF Looking, Looks, Asking, OnlyAsks, Stopping, MayStop

LEMMA KindsOf ==
  ASSUME NEW cs, NEW s
  PROVE  /\ s \in Seq(Looking(cs)) => s \in Seq(AnyStep) /\ s \in Seq(Stopping(cs))
         /\ s \in Seq(Asking(cs)) => s \in Seq(AnyStep) /\ s \in Seq(Stopping(cs))
         /\ s \in Seq(Stopping(cs)) => s \in Seq(AnyStep)
  BY KindsAreSteps, SeqMonotonic

LEMMA AckedJoint ==
  ASSUME NEW s \in Seq(AnyStep), NEW t \in Seq(AnyStep), Acked(s), Acked(t)
  PROVE  Acked(s \o t)
<1> SUFFICES ASSUME NEW i \in 1 .. Len(s \o t), NEW p \in Words, (s \o t)[i] \in Checked(p)
             PROVE  i + 1 \in 1 .. Len(s \o t) /\ Acks((s \o t)[i], (s \o t)[i + 1])
  BY DEF Acked
<1>1. CASE i \in 1 .. Len(s)
  <2>1. (s \o t)[i] = s[i]
    BY <1>1, JointParts
  <2>2. i + 1 \in 1 .. Len(s) /\ Acks(s[i], s[i + 1])
    BY <1>1, <2>1 DEF Acked
  <2> QED
    BY <2>1, <2>2, JointParts
<1>2. CASE i > Len(s) /\ i - Len(s) \in 1 .. Len(t) /\ i = Len(s) + (i - Len(s))
  <2> DEFINE k == i - Len(s)
  <2>1. (s \o t)[i] = t[k]
    BY <1>2, JointParts
  <2>2. k + 1 \in 1 .. Len(t) /\ Acks(t[k], t[k + 1])
    BY <1>2, <2>1 DEF Acked
  <2>3. Len(s) + (k + 1) \in 1 .. Len(s \o t) /\ (s \o t)[Len(s) + (k + 1)] = t[k + 1]
    BY <2>2, JointParts
  <2>4. Len(s) + (k + 1) = i + 1
    BY <1>2, JointParts
  <2> QED
    BY <2>1, <2>2, <2>3, <2>4
<1> QED
  BY <1>1, <1>2, JointParts

LEMMA AckedTail ==
  ASSUME NEW s \in Seq(AnyStep), s # <<>>, Acked(s)
  PROVE  /\ Acked(Tail(s))
         /\ \A p \in Words : Head(s) \in Checked(p) =>
              Tail(s) # <<>> /\ Acks(Head(s), Head(Tail(s)))
<1>1. ASSUME NEW i \in 1 .. Len(Tail(s)), NEW p \in Words, Tail(s)[i] \in Checked(p)
      PROVE  i + 1 \in 1 .. Len(Tail(s)) /\ Acks(Tail(s)[i], Tail(s)[i + 1])
  <2>1. i + 1 \in 1 .. Len(s) /\ s[i + 1] \in Checked(p) /\ Tail(s)[i] = s[i + 1]
    BY <1>1, TailParts
  <2>2. (i + 1) + 1 \in 1 .. Len(s) /\ Acks(s[i + 1], s[(i + 1) + 1])
    BY <2>1 DEF Acked
  <2>3. i + 1 \in 1 .. Len(Tail(s)) /\ Tail(s)[i + 1] = s[(i + 1) + 1]
    BY <1>1, <2>2, TailParts
  <2> QED
    BY <2>1, <2>2, <2>3
<1>2. ASSUME NEW p \in Words, Head(s) \in Checked(p)
      PROVE  Tail(s) # <<>> /\ Acks(Head(s), Head(Tail(s)))
  <2>1. 1 + 1 \in 1 .. Len(s) /\ Acks(s[1], s[1 + 1])
    BY <1>2, TailParts DEF Acked
  <2>2. 1 \in 1 .. Len(Tail(s)) /\ Tail(s)[1] = s[1 + 1] /\ Tail(s) \in Seq(AnyStep)
    BY <2>1, TailParts
  <2>3. Tail(s) # <<>>
    BY <2>2, EmptySeq
  <2>4. Head(Tail(s)) = Tail(s)[1]
    BY <2>2, <2>3, TailParts
  <2> QED
    BY <2>1, <2>2, <2>3, <2>4, TailParts
<1> QED
  BY <1>1, <1>2 DEF Acked

LEMMA NothingToAck ==
  ASSUME NEW S, NEW s \in Seq(S), \A e \in S : e.op # "tell"
  PROVE  Acked(s)
  BY ElementOfSeq DEF Acked, Checked

LEMMA PairedTail ==
  ASSUME NEW s \in Seq(AnyStep), s # <<>>, Paired(s)
  PROVE  /\ Paired(Tail(s))
         /\ \A p \in Words :
              /\ Head(s) \in CodesTold(p) =>
                   /\ Tail(s) # <<>> /\ Head(Tail(s)) \in CodesAcked(p)
                   /\ Head(Tail(s)).when = Head(s).when
              /\ Tail(s) # <<>> /\ Head(Tail(s)) \in CodesAcked(p) => Head(s) \in CodesTold(p)
              /\ Head(s) \in CodesAcked(p) => Head(s).failing = "stops"
<1> DEFINE t == Tail(s)
<1>1. /\ t \in Seq(AnyStep) /\ Head(s) = s[1] /\ 1 \in 1 .. Len(s)
      /\ Len(s) \in Nat /\ Len(t) = Len(s) - 1
      /\ \A i \in 1 .. Len(t) : i + 1 \in 1 .. Len(s) /\ t[i] = s[i + 1]
      /\ \A i \in 1 .. Len(s) : i = 1 \/ (i - 1 \in 1 .. Len(t) /\ t[i - 1] = s[i])
  BY TailParts
<1> HIDE DEF t
<1>2. ASSUME NEW p \in Words, NEW i \in 1 .. Len(t)
      PROVE  /\ t[i] \in CodesTold(p) =>
                  i + 1 \in 1 .. Len(t) /\ t[i + 1] \in CodesAcked(p) /\ t[i + 1].when = t[i].when
             /\ t[i] \in CodesAcked(p) => t[i].failing = "stops" /\ s[i] \in CodesTold(p)
             /\ t[i] \in CodesAcked(p) => i = 1 \/ t[i - 1] \in CodesTold(p)
  <2>1. i + 1 \in 1 .. Len(s) /\ t[i] = s[i + 1] /\ (i + 1) - 1 = i /\ i + 1 # 1
    BY <1>1
  <2>2. ASSUME t[i] \in CodesTold(p)
        PROVE  i + 1 \in 1 .. Len(t) /\ t[i + 1] \in CodesAcked(p) /\ t[i + 1].when = t[i].when
    <3>1. /\ (i + 1) + 1 \in 1 .. Len(s) /\ s[(i + 1) + 1] \in CodesAcked(p)
          /\ s[(i + 1) + 1].when = s[i + 1].when
      BY <2>1, <2>2 DEF Paired
    <3>2. i + 1 \in 1 .. Len(t)
      BY <1>1, <3>1
    <3> QED
      BY <1>1, <2>1, <3>1, <3>2
  <2>3. ASSUME t[i] \in CodesAcked(p)
        PROVE  /\ t[i].failing = "stops" /\ s[i] \in CodesTold(p)
               /\ i = 1 \/ t[i - 1] \in CodesTold(p)
    <3>1. t[i].failing = "stops" /\ s[i] \in CodesTold(p)
      BY <2>1, <2>3 DEF Paired
    <3>2. i = 1 \/ t[i - 1] = s[i]
      BY <1>1
    <3> QED
      BY <3>1, <3>2
  <2> QED
    BY <2>2, <2>3
<1>3. Paired(t)
  BY <1>2 DEF Paired
<1>4. t # <<>> => 1 \in 1 .. Len(t) /\ Head(t) = t[1] /\ t[1] = s[2]
  <2>1. t # <<>> => Head(t) = t[1] /\ 1 \in 1 .. Len(t)
    BY <1>1, TailParts
  <2> QED
    BY <1>1, <2>1
<1>5. ASSUME NEW p \in Words
      PROVE  /\ Head(s) \in CodesTold(p) =>
                  t # <<>> /\ Head(t) \in CodesAcked(p) /\ Head(t).when = Head(s).when
             /\ t # <<>> /\ Head(t) \in CodesAcked(p) => Head(s) \in CodesTold(p)
             /\ Head(s) \in CodesAcked(p) => Head(s).failing = "stops"
  <2>1. ASSUME s[1] \in CodesTold(p)
        PROVE  t # <<>> /\ Head(t) \in CodesAcked(p) /\ Head(t).when = s[1].when
    <3>1. 1 + 1 \in 1 .. Len(s) /\ s[1 + 1] \in CodesAcked(p) /\ s[1 + 1].when = s[1].when
      BY <1>1, <2>1 DEF Paired
    <3>2. Len(t) >= 1 /\ t # <<>>
      BY <1>1, <3>1, EmptySeq
    <3> QED
      BY <1>4, <3>1, <3>2
  <2>2. ASSUME t # <<>>, Head(t) \in CodesAcked(p) PROVE s[1] \in CodesTold(p)
    BY <1>2, <1>4, <2>2
  <2>3. s[1] \in CodesAcked(p) => s[1].failing = "stops"
    BY <1>1 DEF Paired
  <2> QED
    BY <1>1, <2>1, <2>2, <2>3
<1> QED
  BY <1>3, <1>5 DEF t

LEMMA CoupledJoint ==
  ASSUME NEW s \in Seq(AnyStep), NEW t \in Seq(AnyStep), Coupled(s), Coupled(t)
  PROVE  Coupled(s \o t)
<1> DEFINE u == s \o t
<1>1. /\ u \in Seq(AnyStep) /\ Len(s) \in Nat /\ Len(t) \in Nat /\ Len(u) = Len(s) + Len(t)
      /\ \A i \in 1 .. Len(s) : i \in 1 .. Len(u) /\ u[i] = s[i]
      /\ \A i \in 1 .. Len(t) : Len(s) + i \in 1 .. Len(u) /\ u[Len(s) + i] = t[i]
      /\ \A i \in 1 .. Len(u) : i \in 1 .. Len(s) \/ \E k \in 1 .. Len(t) : i = Len(s) + k
  BY JointParts
<1>2. \A p \in Words : u = <<>> \/ u[1] \notin CodesAcked(p)
  <2>1. CASE s = <<>>
    BY <2>1, ConcatEmptySeq DEF Coupled
  <2>2. CASE s # <<>>
    <3>1. 1 \in 1 .. Len(s)
      BY <2>2, TailParts
    <3> HIDE DEF u
    <3> QED
      BY <1>1, <2>2, <3>1 DEF Coupled
  <2> QED
    BY <2>1, <2>2
<1> HIDE DEF u
<1>3. ASSUME NEW p \in Words, NEW i \in 1 .. Len(s)
      PROVE  /\ u[i] \in CodesTold(p) =>
                  i + 1 \in 1 .. Len(u) /\ u[i + 1] \in CodesAcked(p) /\ u[i + 1].when = u[i].when
             /\ u[i] \in CodesAcked(p) => u[i].failing = "stops" /\ (i = 1 \/ u[i - 1] \in CodesTold(p))
  <2>1. u[i] = s[i]
    BY <1>1
  <2>2. /\ s[i] \in CodesTold(p) =>
             i + 1 \in 1 .. Len(s) /\ s[i + 1] \in CodesAcked(p) /\ s[i + 1].when = s[i].when
        /\ s[i] \in CodesAcked(p) => s[i].failing = "stops" /\ (i = 1 \/ s[i - 1] \in CodesTold(p))
    BY DEF Coupled, Paired
  <2>3. i = 1 \/ u[i - 1] = s[i - 1]
    BY <1>1
  <2>4. i + 1 \in 1 .. Len(s) => i + 1 \in 1 .. Len(u) /\ u[i + 1] = s[i + 1]
    BY <1>1
  <2> QED
    BY <2>1, <2>2, <2>3, <2>4
<1>4. ASSUME NEW p \in Words, NEW k \in 1 .. Len(t), NEW i, i = Len(s) + k
      PROVE  /\ u[i] \in CodesTold(p) =>
                  i + 1 \in 1 .. Len(u) /\ u[i + 1] \in CodesAcked(p) /\ u[i + 1].when = u[i].when
             /\ u[i] \in CodesAcked(p) => u[i].failing = "stops" /\ (i = 1 \/ u[i - 1] \in CodesTold(p))
  <2>1. u[i] = t[k]
    BY <1>1, <1>4
  <2>2. /\ t[k] \in CodesTold(p) =>
             k + 1 \in 1 .. Len(t) /\ t[k + 1] \in CodesAcked(p) /\ t[k + 1].when = t[k].when
        /\ t[k] \in CodesAcked(p) => t[k].failing = "stops" /\ (k = 1 \/ t[k - 1] \in CodesTold(p))
    BY DEF Coupled, Paired
  <2>3. t[1] \notin CodesAcked(p)
    <3>1. t # <<>>
      BY <1>1, EmptySeq
    <3> QED
      BY <3>1 DEF Coupled
  <2>4. k = 1 \/ u[i - 1] = t[k - 1]
    <3>1. k = 1 \/ (k - 1 \in 1 .. Len(t) /\ Len(s) + (k - 1) = i - 1)
      BY <1>1, <1>4
    <3> QED
      BY <1>1, <3>1
  <2>5. k + 1 \in 1 .. Len(t) => i + 1 \in 1 .. Len(u) /\ u[i + 1] = t[k + 1]
    <3>1. Len(s) + (k + 1) = i + 1
      BY <1>1, <1>4
    <3> QED
      BY <1>1, <3>1
  <2> QED
    BY <2>1, <2>2, <2>3, <2>4, <2>5
<1>5. Paired(u)
  BY <1>1, <1>3, <1>4 DEF Paired
<1> QED
  BY <1>2, <1>5 DEF Coupled, u

LEMMA Uncoupled ==
  ASSUME NEW S, NEW s \in Seq(S), S \subseteq AnyStep,
         \A e \in S : \A p \in Words : e \notin CodesTold(p) /\ e \notin CodesAcked(p)
  PROVE  Coupled(s)
<1>1. \A i \in 1 .. Len(s) : s[i] \in S
  BY ElementOfSeq
<1>2. s \in Seq(AnyStep)
  BY SeqMonotonic
<1>3. s = <<>> \/ 1 \in 1 .. Len(s)
  BY <1>2, TailParts
<1> QED
  BY <1>1, <1>3 DEF Coupled, Paired

LEMMA NoneCoupled ==
  ASSUME NEW S, NEW s \in Seq(S), S \subseteq AnyStep, \A e \in S : e.op # "tell" /\ e.op # "ack"
  PROVE  Coupled(s)
<1>1. \A e \in S : \A p \in Words : e \notin CodesTold(p) /\ e \notin CodesAcked(p)
  BY DEF CodesTold, TurnsCodesOn, CodesAcked
<1> QED
  BY <1>1, Uncoupled

(* Beginnings. *)
LEMMA OpenedJoint ==
  ASSUME NEW cs, NEW ds, NEW s, NEW t, Opened(s, cs), Opened(t, ds)
  PROVE  Opened(s \o t, cs \cup ds)
<1>1. s \in Seq(AnyStep) /\ t \in Seq(AnyStep)
  BY KindsOf DEF Opened
<1>2. s \o t \in Seq(Looking(cs \cup ds))
  <2>1. Looking(cs) \subseteq Looking(cs \cup ds) /\ Looking(ds) \subseteq Looking(cs \cup ds)
    BY DEF Looking, Looks
  <2>2. s \in Seq(Looking(cs \cup ds)) /\ t \in Seq(Looking(cs \cup ds))
    BY <2>1, SeqMonotonic DEF Opened
  <2> QED
    BY <2>2, Joint
<1>3. Acked(s \o t)
  BY <1>1, AckedJoint DEF Opened
<1>4. \A p \in cs \cup ds : Has(s \o t, Discards(p))
  BY <1>1, HasJoint DEF Opened
<1>5. \A p \in Words : After(s \o t, Discards(p), Needy(p))
  BY <1>1, AfterJoint DEF Opened
<1>6. Coupled(s \o t)
  BY <1>1, CoupledJoint DEF Opened
<1> QED
  BY <1>2, <1>3, <1>4, <1>5, <1>6 DEF Opened

(* Nothing is asked or told by steps of S. *)
LEMMA OpenedAfter ==
  ASSUME NEW cs, NEW s, NEW t, s \in Seq({e \in Looking(cs) : e.op = "open"}), Opened(t, cs)
  PROVE  Opened(s \o t, cs)
<1> DEFINE S == {e \in Looking(cs) : e.op = "open"}
<1>0. S \subseteq Looking(cs) /\ S \subseteq AnyStep
  BY DEF Looking, Looks
<1>1. s \in Seq(Looking(cs)) /\ s \in Seq(AnyStep) /\ t \in Seq(AnyStep) /\ t \in Seq(Looking(cs))
  BY <1>0, SeqMonotonic, KindsOf DEF Opened
<1>2. s \o t \in Seq(Looking(cs))
  BY <1>1, Joint
<1>3. Acked(s \o t)
  <2>1. Acked(s)
    <3>1. \A e \in S : e.op # "tell"
      OBVIOUS
    <3> QED
      BY <3>1, NothingToAck
  <2> QED
    BY <1>1, <2>1, AckedJoint DEF Opened
<1>4. \A p \in cs : Has(s \o t, Discards(p))
  BY <1>1, HasJoint DEF Opened
<1>5. ASSUME NEW p \in Words PROVE After(s \o t, Discards(p), Needy(p))
  <2>1. \A e \in S : e \notin Needy(p)
    BY DEF Needy, Checked
  <2>2. After(s, Discards(p), Needy(p))
    BY <2>1, LacksKind, LacksOrders
  <2> QED
    BY <1>1, <2>2, AfterJoint DEF Opened
<1>6. Coupled(s \o t)
  <2>1. \A e \in S : e.op # "tell" /\ e.op # "ack"
    OBVIOUS
  <2>2. Coupled(s)
    BY <1>0, <2>1, NoneCoupled
  <2> QED
    BY <1>1, <2>2, CoupledJoint DEF Opened
<1> QED
  BY <1>2, <1>3, <1>4, <1>5, <1>6 DEF Opened

(* A pair of steps, the second of which acknowledges the first. *)
LEMMA PairParts ==
  ASSUME NEW c \in AnyStep, NEW d \in AnyStep
  PROVE  /\ <<c>> \o <<d>> \in Seq(AnyStep) /\ Len(<<c>> \o <<d>>) = 2
         /\ (<<c>> \o <<d>>)[1] = c /\ (<<c>> \o <<d>>)[2] = d
<1> DEFINE x == <<c>>
           y == <<d>>
<1>1. x \in Seq(AnyStep) /\ y \in Seq(AnyStep) /\ Len(x) = 1 /\ Len(y) = 1 /\ x[1] = c /\ y[1] = d
  BY One
<1> HIDE DEF x, y
<1>2. 1 \in 1 .. 1 /\ 1 + 1 = 2
  OBVIOUS
<1>3. x \o y \in Seq(AnyStep) /\ Len(x \o y) = 2 /\ (x \o y)[1] = c /\ (x \o y)[2] = d
  <2>1. x \o y \in Seq(AnyStep) /\ Len(x \o y) = 2
    <3>1. x \o y \in Seq(AnyStep) /\ Len(x \o y) = Len(x) + Len(y)
      BY <1>1, ConcatProperties
    <3> QED
      BY <1>1, <3>1
  <2>2. (x \o y)[1] = x[1]
    BY <1>1, <1>2, JointParts
  <2>3. (x \o y)[2] = y[1]
    <3>1. \A i \in 1 .. Len(y) : (x \o y)[Len(x) + i] = y[i]
      BY <1>1, JointParts
    <3> QED
      BY <1>1, <1>2, <3>1
  <2> QED
    BY <1>1, <1>2, <2>1, <2>2, <2>3
<1> QED
  BY <1>3 DEF x, y

LEMMA AckedPair ==
  ASSUME NEW s \in Seq(AnyStep), Len(s) = 2, s[2] \notin UNION {Checked(p) : p \in Words},
         Acks(s[1], s[2])
  PROVE  Acked(s)
<1>1. 1 .. 2 = {1, 2} /\ 1 + 1 \in 1 .. 2
  OBVIOUS
<1>2. \A p \in Words : s[2] \notin Checked(p)
  OBVIOUS
<1> QED
  BY <1>1, <1>2 DEF Acked

LEMMA AcksAreNotChecked ==
  ASSUME NEW s, s.op = "ack"
  PROVE  s \notin UNION {Checked(p) : p \in Words}
  BY DEF Checked

(* ezo_example_uart_bootstrap_response_codes turns them on. *)
TurnsOn(p) == Tell(p, "codes", "on") \o Step("ack", p, "codes")

LEMMA TurnsOnPair ==
  ASSUME NEW p \in Words, NEW s \in Seq(AnyStep), Len(s) = 2, s[1].when = s[2].when,
         s[1].op = "tell", s[1].on = p, s[1].what = "codes", s[1].value = "on", s[1].failing = "stops",
         s[2].op = "ack", s[2].on = p, s[2].what = "codes", s[2].failing = "stops"
  PROVE  s \in Seq(Looking({p})) /\ Acked(s) /\ Coupled(s)
<1> DEFINE x == s[1]
           y == s[2]
<1>1. /\ x \in AnyStep /\ x.op = "tell" /\ x.on = p /\ x.what = "codes" /\ x.value = "on"
      /\ x.failing = "stops" /\ x.when = y.when
      /\ y \in AnyStep /\ y.op = "ack" /\ y.on = p /\ y.what = "codes" /\ y.failing = "stops"
  <2>1. 1 \in 1 .. 2 /\ 2 \in 1 .. 2
    OBVIOUS
  <2>2. x \in AnyStep /\ y \in AnyStep
    BY <2>1, ElementOfSeq
  <2> QED
    BY <2>2
<1>2. DOMAIN s = 1 .. 2 /\ s = [i \in 1 .. 2 |-> s[i]] /\ s[1] = x /\ s[2] = y /\ 1 .. 2 = {1, 2}
  BY LenProperties
<1> HIDE DEF x, y
<1>3. x \in Looking({p}) /\ y \in Looking({p})
  BY <1>1 DEF Looking, Looks
<1>4. s \in Seq(Looking({p})) /\ Len(s) = 2
  <2>1. \A i \in 1 .. 2 : s[i] \in Looking({p})
    BY <1>2, <1>3
  <2> QED
    BY <1>2, <2>1, SeqOf
<1>5. Acks(x, y)
  BY <1>1 DEF Acks
<1>6. Acked(s)
  BY <1>1, <1>2, <1>4, <1>5, KindsOf, AckedPair, AcksAreNotChecked
<1>7. Coupled(s)
  <2>1. x \in CodesTold(p) /\ y \in CodesAcked(p) /\ y.when = x.when /\ y.failing = "stops"
    BY <1>1 DEF CodesTold, TurnsCodesOn, CodesAcked
  <2>2. \A q \in Words :
          /\ x \notin CodesAcked(q) /\ y \notin CodesTold(q)
          /\ x \in CodesTold(q) \/ y \in CodesAcked(q) => q = p
    BY <1>1 DEF CodesTold, TurnsCodesOn, CodesAcked
  <2>3. Len(s) = 2
    BY <1>4
  <2>4. ASSUME NEW q \in Words, NEW i \in 1 .. 2
        PROVE  /\ s[i] \in CodesTold(q) =>
                    i + 1 \in 1 .. 2 /\ s[i + 1] \in CodesAcked(q) /\ s[i + 1].when = s[i].when
               /\ s[i] \in CodesAcked(q) =>
                    s[i].failing = "stops" /\ (i = 1 \/ s[i - 1] \in CodesTold(q))
    <3>1. CASE i = 1
      <4>1. s[i] = x /\ s[i + 1] = y /\ i + 1 \in 1 .. 2
        BY <1>2, <3>1
      <4> QED
        BY <2>1, <2>2, <4>1
    <3>2. CASE i = 2
      <4>1. s[i] = y /\ s[i - 1] = x
        BY <1>2, <3>2
      <4> QED
        BY <2>1, <2>2, <4>1
    <3> QED
      BY <3>1, <3>2
  <2>5. Paired(s)
    BY <2>3, <2>4 DEF Paired
  <2> QED
    BY <1>2, <2>2, <2>5 DEF Coupled
<1> QED
  BY <1>4, <1>6, <1>7

LEMMA TurnsOnParts ==
  ASSUME NEW p \in Words
  PROVE  LET s == When("codes off", TurnsOn(p)) IN
         /\ s \in Seq(Looking({p})) /\ Acked(s) /\ Coupled(s)
<1> DEFINE c == Call("tell", p, "codes", "on")
           d == Call("ack", p, "codes", "none")
           s == When("codes off", TurnsOn(p))
<1>0. {"tell", "ack", "codes", "on", "none", "codes off"} \subseteq Words
  BY AllWords
<1>1. /\ c \in AnyStep /\ c.op = "tell" /\ c.on = p /\ c.what = "codes" /\ c.value = "on"
      /\ c.failing = "stops"
      /\ d \in AnyStep /\ d.op = "ack" /\ d.on = p /\ d.what = "codes" /\ d.failing = "stops"
  <2>1. "tell" \in Words /\ "ack" \in Words /\ "codes" \in Words /\ "on" \in Words /\ "none" \in Words
    BY <1>0
  <2>2. c \in AnyStep /\ c.op = "tell" /\ c.on = p /\ c.what = "codes" /\ c.value = "on" /\ c.failing = "stops"
    BY <2>1, CallIsStep
  <2>3. d \in AnyStep /\ d.op = "ack" /\ d.on = p /\ d.what = "codes" /\ d.failing = "stops"
    BY <2>1, CallIsStep
  <2> QED
    BY <2>2, <2>3
<1>2. TurnsOn(p) = <<c>> \o <<d>>
  BY DEF TurnsOn, Tell, Step
<1> DEFINE x == Made(c, "codes off", c.failing)
           y == Made(d, "codes off", d.failing)
<1>3. /\ x \in AnyStep /\ x.op = "tell" /\ x.on = p /\ x.what = "codes" /\ x.value = "on"
      /\ x.failing = "stops" /\ x.when = "codes off"
      /\ y \in AnyStep /\ y.op = "ack" /\ y.on = p /\ y.what = "codes" /\ y.failing = "stops"
      /\ y.when = "codes off"
  <2> HIDE DEF c, d
  <2>1. c.failing \in {"stops", "goes on"} /\ d.failing \in {"stops", "goes on"} /\ "codes off" \in Words
    BY <1>0, <1>1
  <2>2. x \in AnyStep /\ x.op = c.op /\ x.on = c.on /\ x.what = c.what /\ x.value = c.value
        /\ x.failing = c.failing /\ x.when = "codes off"
    BY <1>1, <2>1, MadeWhen
  <2>3. y \in AnyStep /\ y.op = d.op /\ y.on = d.on /\ y.what = d.what /\ y.failing = d.failing
        /\ y.when = "codes off"
    BY <1>1, <2>1, MadeWhen
  <2> QED
    BY <1>1, <2>2, <2>3
<1> HIDE DEF c, d
<1>4. Len(TurnsOn(p)) = 2 /\ DOMAIN TurnsOn(p) = 1 .. 2 /\ TurnsOn(p)[1] = c /\ TurnsOn(p)[2] = d
  BY <1>1, <1>2, PairParts, LenProperties
<1>5. DOMAIN s = 1 .. 2 /\ s = [i \in 1 .. 2 |-> s[i]] /\ s[1] = x /\ s[2] = y /\ 1 .. 2 = {1, 2}
  <2> DEFINE t == TurnsOn(p)
  <2>1. s = [i \in DOMAIN t |-> Made(t[i], "codes off", t[i].failing)]
    BY DEF When
  <2>2. DOMAIN t = 1 .. 2 /\ t[1] = c /\ t[2] = d
    BY <1>4
  <2> HIDE DEF t, s
  <2>3. DOMAIN s = 1 .. 2 /\ s = [i \in 1 .. 2 |-> s[i]] /\ 1 .. 2 = {1, 2}
    <3>1. DOMAIN s = DOMAIN t /\ s = [i \in DOMAIN s |-> s[i]]
      BY <2>1
    <3> QED
      BY <2>2, <3>1
  <2>4. s[1] = Made(t[1], "codes off", t[1].failing) /\ s[2] = Made(t[2], "codes off", t[2].failing)
    BY <2>1, <2>2, <2>3
  <2> QED
    BY <2>2, <2>3, <2>4
<1> HIDE DEF s, x, y
<1>6. s \in Seq(AnyStep) /\ Len(s) = 2
  <2>1. \A i \in 1 .. 2 : s[i] \in AnyStep
    BY <1>3, <1>5
  <2> QED
    BY <1>5, <2>1, SeqOf
<1>7. s \in Seq(Looking({p})) /\ Acked(s) /\ Coupled(s)
  BY <1>3, <1>5, <1>6, TurnsOnPair
<1> QED
  BY <1>7 DEF s

(* control_workflow may turn them on once more. *)
LEMMA TurnsOnIs ==
  ASSUME NEW p \in Words
  PROVE  /\ TurnsOn(p) \in Seq({e \in Looking({p}) : e.op \in {"tell", "ack"}})
         /\ Acked(TurnsOn(p)) /\ Coupled(TurnsOn(p))
<1> DEFINE c == Call("tell", p, "codes", "on")
           d == Call("ack", p, "codes", "none")
           s == TurnsOn(p)
<1>1. {"tell", "ack", "codes", "on", "none"} \subseteq Words
  BY AllWords
<1>2. c \in AnyStep /\ c.op = "tell" /\ c.on = p /\ c.what = "codes" /\ c.value = "on"
      /\ c.failing = "stops" /\ c.when = "always"
  BY <1>1, CallIsStep
<1>3. d \in AnyStep /\ d.op = "ack" /\ d.on = p /\ d.what = "codes" /\ d.failing = "stops"
      /\ d.when = "always"
  BY <1>1, CallIsStep
<1>4. s = <<c>> \o <<d>>
  BY DEF TurnsOn, Tell, Step
<1> HIDE DEF c, d, s
<1>5. s \in Seq(AnyStep) /\ Len(s) = 2 /\ s[1] = c /\ s[2] = d
  BY <1>2, <1>3, <1>4, PairParts
<1>6. Acked(s) /\ Coupled(s)
  BY <1>2, <1>3, <1>5, TurnsOnPair
<1> DEFINE S == {e \in Looking({p}) : e.op \in {"tell", "ack"}}
<1>7. c \in S /\ d \in S
  BY <1>2, <1>3 DEF Looking, Looks
<1> HIDE DEF S
<1>8. s \in Seq(S)
  BY <1>4, <1>7, One, Joint
<1> QED
  BY <1>6, <1>8 DEF s, S

LEMMA BootOpens ==
  ASSUME NEW p \in Words
  PROVE  Opened(Boot(p), {p})
<1> DEFINE a == Call("discard", p, "input", "none")
           b == Call("ask", p, "codes", "none")
           x == <<a>>
           y == <<b>>
           z == When("codes off", TurnsOn(p))
<1>0. {"discard", "input", "none", "ask", "codes"} \subseteq Words
  BY AllWords
<1>1. /\ a \in AnyStep /\ a.op = "discard" /\ a.on = p /\ a.when = "always" /\ a.failing = "stops"
      /\ b \in AnyStep /\ b.op = "ask" /\ b.on = p /\ b.failing = "stops"
  BY <1>0, CallIsStep
<1>2. Boot(p) = x \o y \o z
  BY DEF Boot, Step, Ask, TurnsOn
<1>3. x \in Seq(Looking({p})) /\ y \in Seq(Looking({p}))
  <2> HIDE DEF a, b
  <2>1. a \in Looking({p}) /\ b \in Looking({p})
    BY <1>1 DEF Looking, Looks
  <2> QED
    BY <2>1, One
<1>4. z \in Seq(Looking({p})) /\ Acked(z) /\ Coupled(z)
  BY TurnsOnParts
<1>5. Len(x) = 1 /\ x[1] = a /\ Len(y) = 1 /\ y[1] = b /\ 1 .. 1 = {1}
  OBVIOUS
<1> HIDE DEF a, b, x, y, z
<1>6. x \in Seq(AnyStep) /\ y \in Seq(AnyStep) /\ z \in Seq(AnyStep)
  BY <1>3, <1>4, KindsOf
<1>7. x \o y \in Seq(Looking({p})) /\ x \o y \in Seq(AnyStep) /\ (x \o y) \o z \in Seq(Looking({p}))
  BY <1>3, <1>4, <1>6, Joint
<1>8. Acked((x \o y) \o z)
  <2>1. Acked(x) /\ Acked(y)
    BY <1>1, <1>5 DEF Acked, Checked
  <2> QED
    BY <1>4, <1>6, <1>7, <2>1, AckedJoint
<1>9. Has(x, Discards(p))
  BY <1>1, <1>5 DEF Has, Discards
<1>10. ASSUME NEW q \in Words PROVE After((x \o y) \o z, Discards(q), Needy(q))
  <2>1. CASE q = p
    <3>1. After(x, Discards(p), Needy(p))
      BY <1>1, <1>5 DEF After, Needy, Checked
    <3>2. After(x \o y, Discards(p), Needy(p)) /\ Has(x \o y, Discards(p))
      BY <1>6, <1>9, <3>1, AfterJoint, HasJoint
    <3> QED
      BY <1>6, <1>7, <2>1, <3>2, AfterJoint
  <2>2. CASE q # p
    <3>1. \A e \in Looking({p}) : e \notin Needy(q)
      BY <2>2 DEF Looking, Looks, Needy, Checked
    <3> QED
      BY <1>7, <3>1, LacksKind, LacksOrders
  <2> QED
    BY <2>1, <2>2
<1>11. \A q \in {p} : Has((x \o y) \o z, Discards(q))
  BY <1>6, <1>7, <1>9, HasJoint
<1>12. Coupled((x \o y) \o z)
  <2>1. Coupled(x) /\ Coupled(y)
    BY <1>1, <1>5 DEF Coupled, Paired, CodesTold, TurnsCodesOn, CodesAcked
  <2> QED
    BY <1>4, <1>6, <1>7, <2>1, CoupledJoint
<1> QED
  BY <1>2, <1>7, <1>8, <1>10, <1>11, <1>12 DEF Opened

LEMMA OpenOpens ==
  ASSUME NEW cs, NEW p \in cs \cap Words
  PROVE  /\ Call("open", p, "session", "none") \in {e \in Looking(cs) : e.op = "open"}
         /\ Open(p) \in Seq({e \in Looking(cs) : e.op = "open"})
<1> DEFINE a == Call("open", p, "session", "none")
           S == {e \in Looking(cs) : e.op = "open"}
<1>1. {"open", "session", "none"} \subseteq Words
  BY AllWords
<1>2. a \in AnyStep /\ a.op = "open" /\ a.on = p /\ a.failing = "stops"
  BY <1>1, CallIsStep
<1>3. Open(p) = <<a>>
  BY DEF Open, Step
<1> HIDE DEF a
<1>4. a \in S
  BY <1>2 DEF Looking, Looks
<1> HIDE DEF S
<1>5. <<a>> \in Seq(S)
  BY <1>4, One
<1> QED
  BY <1>3, <1>4, <1>5 DEF a, S

LEMMA BeginOpens ==
  ASSUME NEW p \in Words
  PROVE  Opened(Begin(p), {p})
  BY OpenOpens, BootOpens, OpenedAfter DEF Begin

LEMMA OpensAll ==
  ASSUME NEW cs, NEW ps \in Seq(cs \cap Words)
  PROVE  [i \in DOMAIN ps |-> Call("open", ps[i], "session", "none")]
           \in Seq({e \in Looking(cs) : e.op = "open"})
<1> DEFINE s == [i \in DOMAIN ps |-> Call("open", ps[i], "session", "none")]
           S == {e \in Looking(cs) : e.op = "open"}
<1>1. Len(ps) \in Nat /\ DOMAIN ps = 1 .. Len(ps) /\ \A i \in 1 .. Len(ps) : ps[i] \in cs \cap Words
  BY LenProperties, ElementOfSeq
<1>2. \A i \in 1 .. Len(ps) : Call("open", ps[i], "session", "none") \in S
  BY <1>1, OpenOpens
<1> HIDE DEF S
<1>3. DOMAIN s = 1 .. Len(ps) /\ s = [i \in 1 .. Len(ps) |-> s[i]] /\ \A i \in 1 .. Len(ps) : s[i] \in S
  BY <1>1, <1>2
<1> HIDE DEF s
<1>4. s \in Seq(S)
  BY <1>1, <1>3, SeqOf
<1> QED
  BY <1>4 DEF s, S

LEMMA BeginsTwo ==
  ASSUME NEW p \in Words, NEW q \in Words
  PROVE  Opened(Begins(<<p, q>>), {p, q})
<1> DEFINE ps == <<p, q>>
           s == [i \in DOMAIN ps |-> Call("open", ps[i], "session", "none")]
<1>1. ps \in Seq({p, q} \cap Words) /\ Len(ps) = 2 /\ ps[1] = p /\ ps[2] = q
  BY Two
<1>2. Begins(ps) = s \o Boot(ps[1]) \o Boot(ps[2]) \o (IF Len(ps) = 3 THEN Boot(ps[3]) ELSE <<>>)
  BY DEF Begins
<1> HIDE DEF ps
<1>3. s \in Seq({e \in Looking({p, q}) : e.op = "open"})
  BY <1>1, OpensAll
<1>4. Begins(ps) = s \o Boot(p) \o Boot(q) \o <<>>
  <2>1. ASSUME NEW t PROVE (IF Len(ps) = 3 THEN t ELSE <<>>) = <<>>
    BY <1>1
  <2>2. (IF Len(ps) = 3 THEN Boot(ps[3]) ELSE <<>>) = <<>>
    BY <2>1
  <2> QED
    BY <1>1, <1>2, <2>2
<1> HIDE DEF s
<1>5. Opened(Boot(p) \o Boot(q), {p, q})
  <2>1. Opened(Boot(p) \o Boot(q), {p} \cup {q})
    BY BootOpens, OpenedJoint
  <2>2. {p} \cup {q} = {p, q}
    OBVIOUS
  <2> QED
    BY <2>1, <2>2
<1>6. s \in Seq(AnyStep) /\ Boot(p) \in Seq(AnyStep) /\ Boot(q) \in Seq(AnyStep)
  <2>1. {e \in Looking({p, q}) : e.op = "open"} \subseteq AnyStep
    BY DEF Looking
  <2> QED
    BY <1>3, <2>1, SeqMonotonic, BootOpens, KindsOf DEF Opened
<1>7. Begins(ps) = s \o (Boot(p) \o Boot(q))
  <2> DEFINE x == Boot(p)
             y == Boot(q)
  <2> HIDE DEF x, y
  <2>1. s \o x \in Seq(AnyStep) /\ (s \o x) \o y \in Seq(AnyStep)
    BY <1>6, Joint DEF x, y
  <2>2. ((s \o x) \o y) \o <<>> = (s \o x) \o y
    BY <2>1, ConcatEmptySeq
  <2>3. (s \o x) \o y = s \o (x \o y)
    BY <1>6, Assoc DEF x, y
  <2> QED
    BY <1>4, <2>2, <2>3 DEF x, y
<1> QED
  BY <1>3, <1>5, <1>7, OpenedAfter DEF ps

LEMMA BeginsThree ==
  ASSUME NEW p \in Words, NEW q \in Words, NEW r \in Words
  PROVE  Opened(Begins(<<p, q, r>>), {p, q, r})
<1> DEFINE ps == <<p, q, r>>
           s == [i \in DOMAIN ps |-> Call("open", ps[i], "session", "none")]
<1>1. ps \in Seq({p, q, r} \cap Words) /\ Len(ps) = 3 /\ ps[1] = p /\ ps[2] = q /\ ps[3] = r
  BY Three
<1>2. Begins(ps) = s \o Boot(ps[1]) \o Boot(ps[2]) \o (IF Len(ps) = 3 THEN Boot(ps[3]) ELSE <<>>)
  BY DEF Begins
<1> HIDE DEF ps
<1>3. s \in Seq({e \in Looking({p, q, r}) : e.op = "open"})
  BY <1>1, OpensAll
<1>4. Begins(ps) = s \o Boot(p) \o Boot(q) \o Boot(r)
  BY <1>1, <1>2
<1> HIDE DEF s
<1>5. Opened((Boot(p) \o Boot(q)) \o Boot(r), {p, q, r})
  <2>1. Opened(Boot(p) \o Boot(q), {p} \cup {q})
    BY BootOpens, OpenedJoint
  <2>2. Opened((Boot(p) \o Boot(q)) \o Boot(r), ({p} \cup {q}) \cup {r})
    BY <2>1, BootOpens, OpenedJoint
  <2>3. ({p} \cup {q}) \cup {r} = {p, q, r}
    OBVIOUS
  <2> QED
    BY <2>2, <2>3
<1>6. s \in Seq(AnyStep) /\ Boot(p) \in Seq(AnyStep) /\ Boot(q) \in Seq(AnyStep) /\ Boot(r) \in Seq(AnyStep)
  <2>1. {e \in Looking({p, q, r}) : e.op = "open"} \subseteq AnyStep
    BY DEF Looking
  <2> QED
    BY <1>3, <2>1, SeqMonotonic, BootOpens, KindsOf DEF Opened
<1>7. Begins(ps) = s \o ((Boot(p) \o Boot(q)) \o Boot(r))
  <2> DEFINE x == Boot(p)
             y == Boot(q)
             z == Boot(r)
  <2> HIDE DEF x, y, z
  <2>1. (s \o x) \o y = s \o (x \o y)
    BY <1>6, Assoc DEF x, y
  <2>2. x \o y \in Seq(AnyStep)
    BY <1>6, Joint DEF x, y
  <2> DEFINE w == x \o y
  <2> HIDE DEF w
  <2>3. (s \o w) \o z = s \o (w \o z)
    <3>1. w \in Seq(AnyStep) /\ z \in Seq(AnyStep)
      BY <1>6, <2>2 DEF w, z
    <3>2. s \in Seq(AnyStep)
      BY <1>6
    <3> QED
      BY <3>1, <3>2, Assoc
  <2> QED
    BY <1>4, <2>1, <2>3 DEF w, x, y, z
<1> QED
  BY <1>3, <1>5, <1>7, OpenedAfter DEF ps

(* A program that has begun goes on asking. *)
LEMMA AskIs ==
  ASSUME NEW cs, NEW p \in cs \cap Words, NEW what \in Words
  PROVE  Call("ask", p, what, "none") \in Asking(cs) \cap Looking(cs)
<1> DEFINE a == Call("ask", p, what, "none")
<1>1. "ask" \in Words /\ "none" \in Words
  BY AllWords
<1>2. a \in AnyStep /\ a.op = "ask" /\ a.on = p /\ a.failing = "stops"
  BY <1>1, CallIsStep
<1> HIDE DEF a
<1>3. a \in Asking(cs) \cap Looking(cs)
  BY <1>2 DEF Asking, OnlyAsks, Looking, Looks
<1> QED
  BY <1>3 DEF a

LEMMA AsksAsk ==
  ASSUME NEW cs, NEW p \in cs \cap Words, NEW whats \in Seq(Words)
  PROVE  Asks(p, whats) \in Seq(Asking(cs) \cap Looking(cs))
<1>1. \A what \in Words : Call("ask", p, what, "none") \in Asking(cs) \cap Looking(cs)
  BY AskIs
<1> DEFINE S == Asking(cs) \cap Looking(cs)
<1> HIDE DEF S
<1>2. \A what \in Words : Call("ask", p, what, "none") \in S
  BY <1>1 DEF S
<1>3. Asks(p, whats) \in Seq(S)
  BY <1>2, AsksOf
<1> QED
  BY <1>3 DEF S

LEMMA AskAsks ==
  ASSUME NEW cs, NEW p \in cs \cap Words, NEW what \in Words
  PROVE  Ask(p, what) \in Seq(Asking(cs) \cap Looking(cs))
<1>1. Call("ask", p, what, "none") \in Asking(cs) \cap Looking(cs)
  BY AskIs
<1> QED
  BY <1>1, One DEF Ask, Step

LEMMA OpenedAsks ==
  ASSUME NEW cs, NEW s, NEW t, Opened(s, cs), t \in Seq(Asking(cs) \cap Looking(cs))
  PROVE  Opened(s \o t, cs)
<1>1. s \in Seq(AnyStep) /\ t \in Seq(AnyStep) /\ t \in Seq(Looking(cs)) /\ t \in Seq(Asking(cs))
  <2>1. Asking(cs) \cap Looking(cs) \subseteq Looking(cs) /\ Asking(cs) \cap Looking(cs) \subseteq Asking(cs)
    OBVIOUS
  <2> QED
    BY <2>1, SeqMonotonic, KindsOf DEF Opened
<1>2. s \o t \in Seq(Looking(cs))
  BY <1>1, Joint DEF Opened
<1>3. Acked(t)
  BY <1>1, NothingToAck DEF Asking, OnlyAsks
<1>4. \A p \in cs : Has(s \o t, Discards(p))
  BY <1>1, HasJoint DEF Opened
<1>5. ASSUME NEW p \in Words PROVE After(s \o t, Discards(p), Needy(p))
  <2>1. CASE p \in cs
    BY <1>1, <2>1, AfterJoint DEF Opened
  <2>2. CASE p \notin cs
    <3>1. \A e \in Asking(cs) : e \notin Needy(p)
      BY <2>2 DEF Asking, OnlyAsks, Needy, Checked
    <3> QED
      BY <1>1, <3>1, LacksKind, LacksOrders, AfterJoint DEF Opened
  <2> QED
    BY <2>1, <2>2
<1>6. Coupled(s \o t)
  <2>1. Asking(cs) \subseteq AnyStep /\ \A e \in Asking(cs) : e.op # "tell" /\ e.op # "ack"
    BY DEF Asking, OnlyAsks
  <2>2. Coupled(t)
    BY <1>1, <2>1, NoneCoupled
  <2> QED
    BY <1>1, <2>2, CoupledJoint DEF Opened
<1> QED
  BY <1>1, <1>2, <1>3, <1>4, <1>5, <1>6, AckedJoint DEF Opened

LEMMA PreviewedAsks ==
  ASSUME NEW cs, NEW p \in cs \cap Words, NEW f
  PROVE  Previewed(p, f) \in Seq(Asking(cs) \cap Looking(cs))
<1> DEFINE S == Asking(cs) \cap Looking(cs)
<1>1. Call("ask", p, "read", "none") \in S
  BY AllWords, AskIs
<1> HIDE DEF S
<1>2. Preview(p, PreviewSamples) \in Seq(S)
  BY <1>1, PreviewOf, ProgramAssumption
<1>3. Previewed(p, f) \in Seq(S)
  BY <1>2, Optional DEF Previewed
<1> QED
  BY <1>3 DEF S

LEMMA MeasuredCelsiusAsks ==
  ASSUME NEW cs, "RTD" \in cs
  PROVE  MeasuredCelsius \in Seq(Asking(cs) \cap Looking(cs))
<1> DEFINE a == Call("celsius", "RTD", "read", "none")
<1>1. "RTD" \in Words /\ "celsius" \in Words /\ "read" \in Words /\ "none" \in Words
  BY AllWords
<1>2. a \in AnyStep /\ a.op = "celsius" /\ a.on = "RTD" /\ a.failing = "stops"
  BY <1>1, CallIsStep
<1>3. Step("celsius", "RTD", "read") = <<a>>
  BY DEF Step
<1> HIDE DEF a
<1>4. a \in Asking(cs) \cap Looking(cs)
  BY <1>2 DEF Asking, OnlyAsks, Looking, Looks
<1>5. Step("celsius", "RTD", "read") \in Seq(Asking(cs) \cap Looking(cs))
  BY <1>3, <1>4, One
<1>6. Asks("RTD", <<"scale", "read">>) \in Seq(Asking(cs) \cap Looking(cs))
  <2>1. "scale" \in Words /\ "read" \in Words /\ "RTD" \in cs \cap Words
    BY AllWords
  <2>2. <<"scale", "read">> \in Seq(Words)
    BY <2>1, Two
  <2> QED
    BY <2>1, <2>2, AsksAsk
<1> QED
  BY <1>5, <1>6, Joint DEF MeasuredCelsius

(* A step stays a query, or a decision, under any condition. *)
LEMMA MadeAsks ==
  ASSUME NEW cs, NEW s \in Asking(cs) \cap Looking(cs), NEW condition \in Words
  PROVE  /\ Made(s, condition, s.failing) \in Asking(cs) \cap Looking(cs)
         /\ Made(s, condition, "stops") \in Asking(cs) \cap Looking(cs)
<1>1. s \in AnyStep /\ s.on \in cs /\ s.failing = "stops" /\ s.op \in {"ask", "celsius", "need"}
      /\ s.op \in {"open", "discard", "ask", "tell", "ack", "celsius"}
  BY DEF Asking, OnlyAsks, Looking, Looks
<1> DEFINE t == Made(s, condition, s.failing)
<1>2. t \in AnyStep /\ t.on \in cs /\ t.failing = "stops" /\ t.op = s.op
  BY <1>1, MadeWhen
<1>3. t = Made(s, condition, "stops")
  BY <1>1
<1> HIDE DEF t
<1>4. t \in Asking(cs) \cap Looking(cs)
  BY <1>1, <1>2 DEF Asking, OnlyAsks, Looking, Looks
<1> QED
  BY <1>3, <1>4 DEF t

LEMMA WhenOf ==
  ASSUME NEW S, NEW condition, NEW s \in Seq(S),
         \A e \in S : Made(e, condition, e.failing) \in S
  PROVE  When(condition, s) \in Seq(S)
<1>1. Len(s) \in Nat /\ DOMAIN s = 1 .. Len(s) /\ \A i \in 1 .. Len(s) : s[i] \in S
  BY LenProperties, ElementOfSeq
<1> QED
  BY <1>1, SeqOf DEF When

LEMMA MemoryAllAsks ==
  When("some memory", Ask("RTD", "memory_all")) \in Seq(Asking({"RTD"}) \cap Looking({"RTD"}))
<1>1. "some memory" \in Words /\ "memory_all" \in Words /\ "RTD" \in {"RTD"} \cap Words
  BY AllWords
<1>2. Ask("RTD", "memory_all") \in Seq(Asking({"RTD"}) \cap Looking({"RTD"}))
  BY <1>1, AskAsks
<1> DEFINE S == Asking({"RTD"}) \cap Looking({"RTD"})
<1>3. \A e \in S : Made(e, "some memory", e.failing) \in S
  BY <1>1, MadeAsks
<1> HIDE DEF S
<1>4. When("some memory", Ask("RTD", "memory_all")) \in Seq(S)
  BY <1>2, <1>3, WhenOf DEF S
<1> QED
  BY <1>4 DEF S

LEMMA MemoryNextAsks ==
  [i \in 1 .. SequentialCount |->
     Made(Call("ask", "RTD", "memory_next", "none"),
          IF i = 1 THEN "some memory" ELSE "more memory", "stops")]
    \in Seq(Asking({"RTD"}) \cap Looking({"RTD"}))
<1> DEFINE S == Asking({"RTD"}) \cap Looking({"RTD"})
           a == Call("ask", "RTD", "memory_next", "none")
           c(i) == IF i = 1 THEN "some memory" ELSE "more memory"
           s == [i \in 1 .. SequentialCount |-> Made(a, c(i), "stops")]
<1>1. "some memory" \in Words /\ "more memory" \in Words /\ "memory_next" \in Words /\ "RTD" \in {"RTD"} \cap Words
  BY AllWords
<1>2. a \in S
  BY <1>1, AskIs
<1>3. ASSUME NEW i \in 1 .. SequentialCount PROVE c(i) \in Words
  BY <1>1
<1> HIDE DEF a, c
<1>4. ASSUME NEW i \in 1 .. SequentialCount PROVE Made(a, c(i), "stops") \in S
  BY <1>2, <1>3, MadeAsks
<1> HIDE DEF S
<1>5. SequentialCount \in Nat
  BY ProgramAssumption
<1>6. s \in Seq(S)
  BY <1>4, <1>5, SeqOf
<1> QED
  BY <1>6 DEF S, a, c

(* What the programs do before they apply anything. *)
LEMMA ReadPhOpens == Opened(ReadPh, {"PH"})
<1>1. Opened(Begin("PH"), {"PH"})
  BY AllWords, BeginOpens
<1>2. Ask("PH", "read") \in Seq(Asking({"PH"}) \cap Looking({"PH"}))
  BY AllWords, AskAsks
<1> QED
  BY <1>1, <1>2, OpenedAsks DEF ReadPh

LEMMA ReadOrpOpens == Opened(ReadOrp, {"ORP"})
<1>1. Opened(Begin("ORP"), {"ORP"})
  BY AllWords, BeginOpens
<1>2. Ask("ORP", "read") \in Seq(Asking({"ORP"}) \cap Looking({"ORP"}))
  BY AllWords, AskAsks
<1> QED
  BY <1>1, <1>2, OpenedAsks DEF ReadOrp

LEMMA ReadEcOpens == Opened(ReadEc, {"EC"})
<1>1. Opened(Begin("EC"), {"EC"})
  BY AllWords, BeginOpens
<1>2. Asks("EC", <<"output", "read">>)
       \in Seq(Asking({"EC"}) \cap Looking({"EC"}))
  <2>1. "EC" \in {"EC"} \cap Words
    BY AllWords
  <2>2. <<"output", "read">> \in Seq(Words)
    BY AllWords, Two
  <2> QED
    BY <2>1, <2>2, AsksAsk
<1> QED
  BY <1>1, <1>2, OpenedAsks DEF ReadEc

LEMMA ReadDoOpens == Opened(ReadDo, {"DO"})
<1>1. Opened(Begin("DO"), {"DO"})
  BY AllWords, BeginOpens
<1>2. Asks("DO", <<"output", "read">>)
       \in Seq(Asking({"DO"}) \cap Looking({"DO"}))
  <2>1. "DO" \in {"DO"} \cap Words
    BY AllWords
  <2>2. <<"output", "read">> \in Seq(Words)
    BY AllWords, Two
  <2> QED
    BY <2>1, <2>2, AsksAsk
<1> QED
  BY <1>1, <1>2, OpenedAsks DEF ReadDo

LEMMA ReadHumOpens == Opened(ReadHum, {"HUM"})
<1>1. Opened(Begin("HUM"), {"HUM"})
  BY AllWords, BeginOpens
<1>2. Asks("HUM", <<"output", "read">>)
       \in Seq(Asking({"HUM"}) \cap Looking({"HUM"}))
  <2>1. "HUM" \in {"HUM"} \cap Words
    BY AllWords
  <2>2. <<"output", "read">> \in Seq(Words)
    BY AllWords, Two
  <2> QED
    BY <2>1, <2>2, AsksAsk
<1> QED
  BY <1>1, <1>2, OpenedAsks DEF ReadHum

LEMMA ReadRtdOpens == Opened(ReadRtd, {"RTD"})
<1>1. Opened(Begin("RTD"), {"RTD"})
  BY AllWords, BeginOpens
<1>2. Asks("RTD", <<"scale", "read">>)
       \in Seq(Asking({"RTD"}) \cap Looking({"RTD"}))
  <2>1. "RTD" \in {"RTD"} \cap Words
    BY AllWords
  <2>2. <<"scale", "read">> \in Seq(Words)
    BY AllWords, Two
  <2> QED
    BY <2>1, <2>2, AsksAsk
<1> QED
  BY <1>1, <1>2, OpenedAsks DEF ReadRtd

LEMMA PhTempCompLookOpens == Opened(PhTempCompLook, {"RTD", "PH"})
<1>1. Opened(Begins(<<"RTD", "PH">>), {"RTD", "PH"})
  BY AllWords, BeginsTwo
<1>2. MeasuredCelsius \in Seq(Asking({"RTD", "PH"}) \cap Looking({"RTD", "PH"}))
  BY AllWords, MeasuredCelsiusAsks
<1>3. Asks("PH", <<"temperature", "read">>)
       \in Seq(Asking({"RTD", "PH"}) \cap Looking({"RTD", "PH"}))
  <2>1. "PH" \in {"RTD", "PH"} \cap Words
    BY AllWords
  <2>2. <<"temperature", "read">> \in Seq(Words)
    BY AllWords, Two
  <2> QED
    BY <2>1, <2>2, AsksAsk
<1> QED
  BY <1>1, <1>2, <1>3, OpenedAsks DEF PhTempCompLook

LEMMA EcTempCompLookOpens == Opened(EcTempCompLook, {"RTD", "EC"})
<1>1. Opened(Begins(<<"RTD", "EC">>), {"RTD", "EC"})
  BY AllWords, BeginsTwo
<1>2. MeasuredCelsius \in Seq(Asking({"RTD", "EC"}) \cap Looking({"RTD", "EC"}))
  BY AllWords, MeasuredCelsiusAsks
<1>3. Asks("EC", <<"output", "temperature", "read">>)
       \in Seq(Asking({"RTD", "EC"}) \cap Looking({"RTD", "EC"}))
  <2>1. "EC" \in {"RTD", "EC"} \cap Words
    BY AllWords
  <2>2. <<"output", "temperature", "read">> \in Seq(Words)
    BY AllWords, Three
  <2> QED
    BY <2>1, <2>2, AsksAsk
<1> QED
  BY <1>1, <1>2, <1>3, OpenedAsks DEF EcTempCompLook

LEMMA DoTempCompLookOpens == Opened(DoTempCompLook, {"RTD", "DO"})
<1>1. Opened(Begins(<<"RTD", "DO">>), {"RTD", "DO"})
  BY AllWords, BeginsTwo
<1>2. MeasuredCelsius \in Seq(Asking({"RTD", "DO"}) \cap Looking({"RTD", "DO"}))
  BY AllWords, MeasuredCelsiusAsks
<1>3. Asks("DO", <<"output", "temperature", "read">>)
       \in Seq(Asking({"RTD", "DO"}) \cap Looking({"RTD", "DO"}))
  <2>1. "DO" \in {"RTD", "DO"} \cap Words
    BY AllWords
  <2>2. <<"output", "temperature", "read">> \in Seq(Words)
    BY AllWords, Three
  <2> QED
    BY <2>1, <2>2, AsksAsk
<1> QED
  BY <1>1, <1>2, <1>3, OpenedAsks DEF DoTempCompLook

LEMMA DoSalinityCompLookOpens == Opened(DoSalinityCompLook, {"EC", "DO"})
<1>1. Opened(Begins(<<"EC", "DO">>), {"EC", "DO"})
  BY AllWords, BeginsTwo
<1>2. Asks("EC", <<"output", "read">>)
       \in Seq(Asking({"EC", "DO"}) \cap Looking({"EC", "DO"}))
  <2>1. "EC" \in {"EC", "DO"} \cap Words
    BY AllWords
  <2>2. <<"output", "read">> \in Seq(Words)
    BY AllWords, Two
  <2> QED
    BY <2>1, <2>2, AsksAsk
<1>3. Asks("DO", <<"output", "salinity", "read">>)
       \in Seq(Asking({"EC", "DO"}) \cap Looking({"EC", "DO"}))
  <2>1. "DO" \in {"EC", "DO"} \cap Words
    BY AllWords
  <2>2. <<"output", "salinity", "read">> \in Seq(Words)
    BY AllWords, Three
  <2> QED
    BY <2>1, <2>2, AsksAsk
<1> QED
  BY <1>1, <1>2, <1>3, OpenedAsks DEF DoSalinityCompLook

LEMMA DoFullChainLookOpens == Opened(DoFullChainLook, {"RTD", "EC", "DO"})
<1>1. Opened(Begins(<<"RTD", "EC", "DO">>), {"RTD", "EC", "DO"})
  BY AllWords, BeginsThree
<1>2. MeasuredCelsius \in Seq(Asking({"RTD", "EC", "DO"}) \cap Looking({"RTD", "EC", "DO"}))
  BY AllWords, MeasuredCelsiusAsks
<1>3. Asks("EC", <<"output", "read">>)
       \in Seq(Asking({"RTD", "EC", "DO"}) \cap Looking({"RTD", "EC", "DO"}))
  <2>1. "EC" \in {"RTD", "EC", "DO"} \cap Words
    BY AllWords
  <2>2. <<"output", "read">> \in Seq(Words)
    BY AllWords, Two
  <2> QED
    BY <2>1, <2>2, AsksAsk
<1>4. Asks("DO", <<"output", "temperature", "salinity", "pressure", "read">>)
       \in Seq(Asking({"RTD", "EC", "DO"}) \cap Looking({"RTD", "EC", "DO"}))
  <2>1. "DO" \in {"RTD", "EC", "DO"} \cap Words
    BY AllWords
  <2>2. <<"output", "temperature", "salinity", "pressure", "read">> \in Seq(Words)
    BY AllWords, Five
  <2> QED
    BY <2>1, <2>2, AsksAsk
<1> QED
  BY <1>1, <1>2, <1>3, <1>4, OpenedAsks DEF DoFullChainLook

LEMMA PhCalibrationLookOpens ==
  ASSUME NEW f
  PROVE  Opened(PhCalibrationLook(f), {"PH"})
<1>1. Opened(Begin("PH"), {"PH"})
  BY AllWords, BeginOpens
<1>2. Asks("PH", <<"temperature", "calibration", "slope">>)
       \in Seq(Asking({"PH"}) \cap Looking({"PH"}))
  <2>1. "PH" \in {"PH"} \cap Words
    BY AllWords
  <2>2. <<"temperature", "calibration", "slope">> \in Seq(Words)
    BY AllWords, Three
  <2> QED
    BY <2>1, <2>2, AsksAsk
<1>3. Previewed("PH", f) \in Seq(Asking({"PH"}) \cap Looking({"PH"}))
  BY AllWords, PreviewedAsks
<1> QED
  BY <1>1, <1>2, <1>3, OpenedAsks DEF PhCalibrationLook

LEMMA OrpCalibrationLookOpens ==
  ASSUME NEW f
  PROVE  Opened(OrpCalibrationLook(f), {"ORP"})
<1>1. Opened(Begin("ORP"), {"ORP"})
  BY AllWords, BeginOpens
<1>2. Asks("ORP", <<"calibration", "extended">>)
       \in Seq(Asking({"ORP"}) \cap Looking({"ORP"}))
  <2>1. "ORP" \in {"ORP"} \cap Words
    BY AllWords
  <2>2. <<"calibration", "extended">> \in Seq(Words)
    BY AllWords, Two
  <2> QED
    BY <2>1, <2>2, AsksAsk
<1>3. Previewed("ORP", f) \in Seq(Asking({"ORP"}) \cap Looking({"ORP"}))
  BY AllWords, PreviewedAsks
<1> QED
  BY <1>1, <1>2, <1>3, OpenedAsks DEF OrpCalibrationLook

LEMMA EcCalibrationLookOpens ==
  ASSUME NEW f
  PROVE  Opened(EcCalibrationLook(f), {"EC"})
<1>1. Opened(Begin("EC"), {"EC"})
  BY AllWords, BeginOpens
<1>2. Asks("EC", <<"output", "temperature", "probe_k", "calibration">>)
       \in Seq(Asking({"EC"}) \cap Looking({"EC"}))
  <2>1. "EC" \in {"EC"} \cap Words
    BY AllWords
  <2>2. <<"output", "temperature", "probe_k", "calibration">> \in Seq(Words)
    BY AllWords, Four
  <2> QED
    BY <2>1, <2>2, AsksAsk
<1>3. Previewed("EC", f) \in Seq(Asking({"EC"}) \cap Looking({"EC"}))
  BY AllWords, PreviewedAsks
<1> QED
  BY <1>1, <1>2, <1>3, OpenedAsks DEF EcCalibrationLook

LEMMA DoCalibrationLookOpens ==
  ASSUME NEW f
  PROVE  Opened(DoCalibrationLook(f), {"DO"})
<1>1. Opened(Begin("DO"), {"DO"})
  BY AllWords, BeginOpens
<1>2. Asks("DO", <<"output", "temperature", "salinity", "pressure", "calibration">>)
       \in Seq(Asking({"DO"}) \cap Looking({"DO"}))
  <2>1. "DO" \in {"DO"} \cap Words
    BY AllWords
  <2>2. <<"output", "temperature", "salinity", "pressure", "calibration">> \in Seq(Words)
    BY AllWords, Five
  <2> QED
    BY <2>1, <2>2, AsksAsk
<1>3. Previewed("DO", f) \in Seq(Asking({"DO"}) \cap Looking({"DO"}))
  BY AllWords, PreviewedAsks
<1> QED
  BY <1>1, <1>2, <1>3, OpenedAsks DEF DoCalibrationLook

LEMMA RtdCalibrationLookOpens ==
  ASSUME NEW f
  PROVE  Opened(RtdCalibrationLook(f), {"RTD"})
<1>1. Opened(Begin("RTD"), {"RTD"})
  BY AllWords, BeginOpens
<1>2. Asks("RTD", <<"scale", "calibration">>)
       \in Seq(Asking({"RTD"}) \cap Looking({"RTD"}))
  <2>1. "RTD" \in {"RTD"} \cap Words
    BY AllWords
  <2>2. <<"scale", "calibration">> \in Seq(Words)
    BY AllWords, Two
  <2> QED
    BY <2>1, <2>2, AsksAsk
<1>3. Previewed("RTD", f) \in Seq(Asking({"RTD"}) \cap Looking({"RTD"}))
  BY AllWords, PreviewedAsks
<1> QED
  BY <1>1, <1>2, <1>3, OpenedAsks DEF RtdCalibrationLook

LEMMA HumCalibrationLookOpens ==
  ASSUME NEW f
  PROVE  Opened(HumCalibrationLook(f), {"HUM"})
<1>1. Opened(Begin("HUM"), {"HUM"})
  BY AllWords, BeginOpens
<1>2. Asks("HUM", <<"output", "calibration">>)
       \in Seq(Asking({"HUM"}) \cap Looking({"HUM"}))
  <2>1. "HUM" \in {"HUM"} \cap Words
    BY AllWords
  <2>2. <<"output", "calibration">> \in Seq(Words)
    BY AllWords, Two
  <2> QED
    BY <2>1, <2>2, AsksAsk
<1>3. Previewed("HUM", f) \in Seq(Asking({"HUM"}) \cap Looking({"HUM"}))
  BY AllWords, PreviewedAsks
<1> QED
  BY <1>1, <1>2, <1>3, OpenedAsks DEF HumCalibrationLook

LEMMA PhWorkflowLookOpens == Opened(PhWorkflowLook, {"PH"})
<1>1. Opened(Begin("PH"), {"PH"})
  BY AllWords, BeginOpens
<1>2. Asks("PH", <<"temperature", "calibration", "slope", "extended", "read", "read_compensated">>)
       \in Seq(Asking({"PH"}) \cap Looking({"PH"}))
  <2>1. "PH" \in {"PH"} \cap Words
    BY AllWords
  <2>2. <<"temperature", "calibration", "slope", "extended", "read", "read_compensated">> \in Seq(Words)
    BY AllWords, Six
  <2> QED
    BY <2>1, <2>2, AsksAsk
<1> QED
  BY <1>1, <1>2, OpenedAsks DEF PhWorkflowLook

LEMMA OrpWorkflowLookOpens == Opened(OrpWorkflowLook, {"ORP"})
<1>1. Opened(Begin("ORP"), {"ORP"})
  BY AllWords, BeginOpens
<1>2. Asks("ORP", <<"read", "calibration", "extended">>)
       \in Seq(Asking({"ORP"}) \cap Looking({"ORP"}))
  <2>1. "ORP" \in {"ORP"} \cap Words
    BY AllWords
  <2>2. <<"read", "calibration", "extended">> \in Seq(Words)
    BY AllWords, Three
  <2> QED
    BY <2>1, <2>2, AsksAsk
<1> QED
  BY <1>1, <1>2, OpenedAsks DEF OrpWorkflowLook

LEMMA EcWorkflowLookOpens == Opened(EcWorkflowLook, {"EC"})
<1>1. Opened(Begin("EC"), {"EC"})
  BY AllWords, BeginOpens
<1>2. Asks("EC", <<"output", "temperature", "probe_k", "tds", "calibration", "read", "read_compensated">>)
       \in Seq(Asking({"EC"}) \cap Looking({"EC"}))
  <2>1. "EC" \in {"EC"} \cap Words
    BY AllWords
  <2>2. <<"output", "temperature", "probe_k", "tds", "calibration", "read", "read_compensated">> \in Seq(Words)
    BY AllWords, Seven
  <2> QED
    BY <2>1, <2>2, AsksAsk
<1> QED
  BY <1>1, <1>2, OpenedAsks DEF EcWorkflowLook

LEMMA DoWorkflowLookOpens == Opened(DoWorkflowLook, {"DO"})
<1>1. Opened(Begin("DO"), {"DO"})
  BY AllWords, BeginOpens
<1>2. Asks("DO", <<"output", "temperature", "salinity", "pressure", "calibration", "read", "read_compensated">>)
       \in Seq(Asking({"DO"}) \cap Looking({"DO"}))
  <2>1. "DO" \in {"DO"} \cap Words
    BY AllWords
  <2>2. <<"output", "temperature", "salinity", "pressure", "calibration", "read", "read_compensated">> \in Seq(Words)
    BY AllWords, Seven
  <2> QED
    BY <2>1, <2>2, AsksAsk
<1> QED
  BY <1>1, <1>2, OpenedAsks DEF DoWorkflowLook

LEMMA HumWorkflowLookOpens == Opened(HumWorkflowLook, {"HUM"})
<1>1. Opened(Begin("HUM"), {"HUM"})
  BY AllWords, BeginOpens
<1>2. Asks("HUM", <<"output", "calibration", "read">>)
       \in Seq(Asking({"HUM"}) \cap Looking({"HUM"}))
  <2>1. "HUM" \in {"HUM"} \cap Words
    BY AllWords
  <2>2. <<"output", "calibration", "read">> \in Seq(Words)
    BY AllWords, Three
  <2> QED
    BY <2>1, <2>2, AsksAsk
<1> QED
  BY <1>1, <1>2, OpenedAsks DEF HumWorkflowLook

LEMMA RtdWorkflowLookOpens == Opened(RtdWorkflowLook, {"RTD"})
<1>1. Opened(Begin("RTD"), {"RTD"})
  BY AllWords, BeginOpens
<1>2. Asks("RTD", <<"scale", "calibration", "logger", "memory">>)
       \in Seq(Asking({"RTD"}) \cap Looking({"RTD"}))
  <2>1. "RTD" \in {"RTD"} \cap Words
    BY AllWords
  <2>2. <<"scale", "calibration", "logger", "memory">> \in Seq(Words)
    BY AllWords, Four
  <2> QED
    BY <2>1, <2>2, AsksAsk
<1>3. When("some memory", Ask("RTD", "memory_all")) \in Seq(Asking({"RTD"}) \cap Looking({"RTD"}))
  BY AllWords, MemoryAllAsks
<1>4. [i \in 1 .. SequentialCount |->
       Made(Call("ask", "RTD", "memory_next", "none"),
            IF i = 1 THEN "some memory" ELSE "more memory", "stops")] \in Seq(Asking({"RTD"}) \cap Looking({"RTD"}))
  BY AllWords, MemoryNextAsks
<1> QED
  BY <1>1, <1>2, <1>3, <1>4, OpenedAsks DEF RtdWorkflowLook

LEMMA ProductsAreWords == \A p \in Products : p \in Words /\ p \in {p} \cap Words
  BY AllWords DEF Products

LEMMA ControlWorkflowLookOpens ==
  ASSUME NEW p \in Products
  PROVE  Opened(ControlWorkflowLook(p), {p})
<1>1. Opened(Begin(p), {p})
  BY ProductsAreWords, BeginOpens
<1>2. Asks(p, <<"info", "name", "status", "led", "plock", "baud", "codes">>) \in Seq(Asking({p}) \cap Looking({p}))
  <2>1. <<"info", "name", "status", "led", "plock", "baud", "codes">> \in Seq(Words)
    BY AllWords, Seven
  <2> QED
    BY <2>1, ProductsAreWords, AsksAsk
<1> QED
  BY <1>1, <1>2, OpenedAsks DEF ControlWorkflowLook

LEMMA TransportSwitchLookOpens ==
  ASSUME NEW p \in Products
  PROVE  Opened(TransportSwitchLook(p), {p})
<1>1. Opened(Begin(p), {p})
  BY ProductsAreWords, BeginOpens
<1>2. Asks(p, <<"info", "plock", "baud", "codes">>) \in Seq(Asking({p}) \cap Looking({p}))
  <2>1. <<"info", "plock", "baud", "codes">> \in Seq(Words)
    BY AllWords, Four
  <2> QED
    BY <2>1, ProductsAreWords, AsksAsk
<1> QED
  BY <1>1, <1>2, OpenedAsks DEF TransportSwitchLook

LEMMA SharedControlAsks ==
  ASSUME NEW p \in Products
  PROVE  SharedControl(p) \in Seq(Asking({p}) \cap Looking({p}))
<1>1. <<"name", "status", "led", "plock", "baud", "codes">> \in Seq(Words)
  BY AllWords, Six
<1> QED
  BY <1>1, ProductsAreWords, AsksAsk DEF SharedControl

LEMMA InspectDeviceOpens ==
  ASSUME NEW p \in Products
  PROVE  Opened(InspectDevice(p), {p})
<1>1. Opened(Begin(p), {p})
  BY ProductsAreWords, BeginOpens
<1>2. Ask(p, "info") \in Seq(Asking({p}) \cap Looking({p}))
  BY AllWords, ProductsAreWords, AskAsks
<1>3. SharedControl(p) \in Seq(Asking({p}) \cap Looking({p}))
  BY SharedControlAsks
<1> QED
  BY <1>1, <1>2, <1>3, OpenedAsks DEF InspectDevice

LEMMA ProductReadinessAsks ==
  ASSUME NEW p \in Products
  PROVE  ProductReadiness(p) \in Seq(Asking({p}) \cap Looking({p}))
<1>1. CASE p = "PH"
  <2>1. ProductReadiness(p) = Asks(p, <<"temperature", "calibration", "slope", "extended">>)
    BY <1>1 DEF ProductReadiness
  <2>2. <<"temperature", "calibration", "slope", "extended">> \in Seq(Words)
    BY AllWords, Four
  <2> QED
    BY <2>1, <2>2, ProductsAreWords, AsksAsk
<1>2. CASE p = "ORP"
  <2>1. ProductReadiness(p) = Asks(p, <<"calibration", "extended">>)
    BY <1>2 DEF ProductReadiness
  <2>2. <<"calibration", "extended">> \in Seq(Words)
    BY AllWords, Two
  <2> QED
    BY <2>1, <2>2, ProductsAreWords, AsksAsk
<1>3. CASE p = "EC"
  <2>1. ProductReadiness(p) = Asks(p, <<"output", "temperature", "probe_k", "tds", "calibration">>)
    BY <1>3 DEF ProductReadiness
  <2>2. <<"output", "temperature", "probe_k", "tds", "calibration">> \in Seq(Words)
    BY AllWords, Five
  <2> QED
    BY <2>1, <2>2, ProductsAreWords, AsksAsk
<1>4. CASE p = "DO"
  <2>1. ProductReadiness(p) = Asks(p, <<"output", "temperature", "salinity", "pressure", "calibration">>)
    BY <1>4 DEF ProductReadiness
  <2>2. <<"output", "temperature", "salinity", "pressure", "calibration">> \in Seq(Words)
    BY AllWords, Five
  <2> QED
    BY <2>1, <2>2, ProductsAreWords, AsksAsk
<1>5. CASE p = "RTD"
  <2>1. ProductReadiness(p) = Asks(p, <<"scale", "calibration", "logger", "memory">>)
    BY <1>5 DEF ProductReadiness
  <2>2. <<"scale", "calibration", "logger", "memory">> \in Seq(Words)
    BY AllWords, Four
  <2> QED
    BY <2>1, <2>2, ProductsAreWords, AsksAsk
<1>6. CASE p = "HUM"
  <2>1. ProductReadiness(p) = Asks(p, <<"output", "calibration">>)
    BY <1>6 DEF ProductReadiness
  <2>2. <<"output", "calibration">> \in Seq(Words)
    BY AllWords, Two
  <2> QED
    BY <2>1, <2>2, ProductsAreWords, AsksAsk
<1> QED
  BY <1>1, <1>2, <1>3, <1>4, <1>5, <1>6 DEF Products

LEMMA ReadinessCheckOpens ==
  ASSUME NEW p \in Products
  PROVE  Opened(ReadinessCheck(p), {p})
<1>1. Opened(InspectDevice(p), {p})
  BY ProductsAreWords, InspectDeviceOpens
<1>2. ProductReadiness(p) \in Seq(Asking({p}) \cap Looking({p}))
  BY ProductReadinessAsks
<1> QED
  BY <1>1, <1>2, OpenedAsks DEF ReadinessCheck

-----------------------------------------------------------------------------
(***************************************************************************)
(* Inspection.                                                             *)
(***************************************************************************)
Inspects(s) == s.op = "tell" => s.what = "codes" /\ s.value = "on"

Inspecting == {s \in AnyStep : Inspects(s)}

LEMMA NeverInspects ==
  ASSUME NEW s \in Inspecting
  PROVE  Made(s, "never", s.failing) \in Inspecting
<1>1. s \in AnyStep /\ Inspects(s) /\ "never" \in Words
  BY AllWords DEF Inspecting
<1> DEFINE t == Made(s, "never", s.failing)
<1>2. t \in AnyStep /\ t.op = s.op /\ t.what = s.what /\ t.value = s.value
  BY <1>1, MadeWhen
<1> HIDE DEF t
<1>3. t \in Inspecting
  BY <1>1, <1>2 DEF Inspecting, Inspects
<1> QED
  BY <1>3 DEF t

LEMMA InspectingOverI2c ==
  ASSUME NEW s \in Seq(Inspecting)
  PROVE  OverI2c(s) \in Seq(Inspecting)
  BY NeverInspects, OverI2cOf

LEMMA LookingInspects == ASSUME NEW cs PROVE Looking(cs) \subseteq Inspecting
  BY DEF Looking, Looks, Inspecting, Inspects

LEMMA OpenedInspects ==
  ASSUME NEW cs, NEW s, Opened(s, cs)
  PROVE  s \in Seq(Inspecting) /\ OverI2c(s) \in Seq(Inspecting)
<1>1. s \in Seq(Inspecting)
  BY LookingInspects, SeqMonotonic DEF Opened
<1> QED
  BY <1>1, InspectingOverI2c

LEMMA AppliedInspects ==
  ASSUME NEW f, "apply" \notin f, NEW look \in Seq(Inspecting), NEW apply
  PROVE  Applied(f, look, apply) \in Seq(Inspecting)
<1>1. If("apply" \in f, apply) = <<>>
  BY DEF If
<1>2. look \o <<>> = look
  BY ConcatEmptySeq
<1> QED
  BY <1>1, <1>2 DEF Applied

(* A step that is no command inspects. *)
LEMMA StepInspects ==
  ASSUME NEW op \in Words, op # "tell", NEW p \in Words, NEW what \in Words
  PROVE  Call(op, p, what, "none") \in Inspecting /\ Step(op, p, what) \in Seq(Inspecting)
<1> DEFINE a == Call(op, p, what, "none")
<1>0. "none" \in Words
  BY AllWords
<1>1. a \in AnyStep /\ a.op = op
  BY <1>0, CallIsStep
<1>2. Step(op, p, what) = <<a>>
  BY DEF Step
<1> HIDE DEF a
<1>3. a \in Inspecting
  BY <1>1 DEF Inspecting, Inspects
<1> QED
  BY <1>2, <1>3, One DEF a

LEMMA TransferInspects ==
  ASSUME NEW p \in Products
  PROVE  CalibrationTransferLook(p) \in Seq(Inspecting)
<1>1. Begin(p) \in Seq(Inspecting)
  BY ProductsAreWords, BeginOpens, OpenedInspects
<1>2. Ask(p, "chunks") \in Seq(Inspecting) /\ Step("export", p, "chunks") \in Seq(Inspecting)
  BY ProductsAreWords, AllWords, StepInspects DEF Ask
<1> QED
  BY <1>1, <1>2, Joint DEF CalibrationTransferLook

LEMMA InspectDeviceI2cInspects ==
  ASSUME NEW p \in Products
  PROVE  InspectDeviceI2c(p) \in Seq(Inspecting)
<1>1. Open(p) \in Seq(Inspecting) /\ Ask(p, "info") \in Seq(Inspecting)
      /\ Step("raise", p, "first error") \in Seq(Inspecting)
  BY ProductsAreWords, AllWords, StepInspects DEF Open, Ask
<1> DEFINE s == Asks(p, <<"name", "status", "led", "plock">>)
<1>2. s \in Seq(Inspecting)
  <2>1. <<"name", "status", "led", "plock">> \in Seq(Words)
    BY AllWords, Four
  <2>2. \A what \in Words : Call("ask", p, what, "none") \in Inspecting
    BY ProductsAreWords, AllWords, StepInspects
  <2> QED
    BY <2>1, <2>2, ProductsAreWords, AsksOf
<1> HIDE DEF s
<1>3. GoingOn(s) \in Seq(Inspecting)
  <2>1. ASSUME NEW e \in Inspecting PROVE Made(e, e.when, "goes on") \in Inspecting
    <3> DEFINE t == Made(e, e.when, "goes on")
    <3>1. e \in AnyStep /\ Inspects(e)
      BY DEF Inspecting
    <3>2. t \in AnyStep /\ t.op = e.op /\ t.what = e.what /\ t.value = e.value
      BY <3>1 DEF Made, AnyStep
    <3> HIDE DEF t
    <3>3. t \in Inspecting
      BY <3>1, <3>2 DEF Inspecting, Inspects
    <3> QED
      BY <3>3 DEF t
  <2>2. Len(s) \in Nat /\ DOMAIN s = 1 .. Len(s) /\ \A i \in 1 .. Len(s) : s[i] \in Inspecting
    BY <1>2, LenProperties, ElementOfSeq
  <2> QED
    BY <2>1, <2>2, SeqOf DEF GoingOn
<1>4. SharedControlI2c(p) \in Seq(Inspecting)
  BY <1>1, <1>3, Joint DEF SharedControlI2c, s
<1> QED
  BY <1>1, <1>4, Joint DEF InspectDeviceI2c

LEMMA ReadinessCheckI2cInspects ==
  ASSUME NEW p \in Products
  PROVE  ReadinessCheckI2c(p) \in Seq(Inspecting)
<1>1. ProductReadiness(p) \in Seq(Inspecting)
  <2>1. Asking({p}) \cap Looking({p}) \subseteq Inspecting
    BY LookingInspects
  <2> QED
    BY <2>1, ProductReadinessAsks, SeqMonotonic
<1> QED
  BY <1>1, InspectDeviceI2cInspects, InspectingOverI2c, Joint DEF ReadinessCheckI2c, ProductReadinessI2c

(* Without --apply no script has a command, but the one that turns the     *)
(* response codes on.                                                      *)
LEMMA ScriptsInspect ==
  ASSUME NEW n, NEW p \in MadeFor(n), NEW f, "apply" \notin f
  PROVE  Script(n, p, f) \in Seq(Inspecting) /\ ScriptOverI2c(n, p, f) \in Seq(Inspecting)
<1>0. p \in Products
  BY DEF MadeFor, Products
<1>1. CASE n = "read_ph"
  BY <1>1, ReadPhOpens, OpenedInspects DEF Script, ScriptOverI2c, ReadPhI2c
<1>2. CASE n = "read_orp"
  BY <1>2, ReadOrpOpens, OpenedInspects DEF Script, ScriptOverI2c, ReadOrpI2c
<1>3. CASE n = "read_ec"
  BY <1>3, ReadEcOpens, OpenedInspects DEF Script, ScriptOverI2c, ReadEcI2c
<1>4. CASE n = "read_do"
  BY <1>4, ReadDoOpens, OpenedInspects DEF Script, ScriptOverI2c, ReadDoI2c
<1>5. CASE n = "read_hum"
  BY <1>5, ReadHumOpens, OpenedInspects DEF Script, ScriptOverI2c, ReadHumI2c
<1>6. CASE n = "read_rtd"
  BY <1>6, ReadRtdOpens, OpenedInspects DEF Script, ScriptOverI2c, ReadRtdI2c
<1>7. CASE n = "ph_temp_comp_from_rtd"
  BY <1>7, PhTempCompLookOpens, OpenedInspects, AppliedInspects DEF Script, ScriptOverI2c, PhTempCompLookI2c
<1>8. CASE n = "ec_temp_comp_from_rtd"
  BY <1>8, EcTempCompLookOpens, OpenedInspects, AppliedInspects DEF Script, ScriptOverI2c, EcTempCompLookI2c
<1>9. CASE n = "do_temp_comp_from_rtd"
  BY <1>9, DoTempCompLookOpens, OpenedInspects, AppliedInspects DEF Script, ScriptOverI2c, DoTempCompLookI2c
<1>10. CASE n = "do_salinity_comp_from_ec"
  BY <1>10, DoSalinityCompLookOpens, OpenedInspects, AppliedInspects DEF Script, ScriptOverI2c, DoSalinityCompLookI2c
<1>11. CASE n = "do_full_compensation_chain"
  BY <1>11, DoFullChainLookOpens, OpenedInspects, AppliedInspects DEF Script, ScriptOverI2c, DoFullChainLookI2c
<1>12. CASE n = "ph_calibration"
  BY <1>12, PhCalibrationLookOpens, OpenedInspects, AppliedInspects DEF Script, ScriptOverI2c, PhCalibrationLookI2c
<1>13. CASE n = "orp_calibration"
  BY <1>13, OrpCalibrationLookOpens, OpenedInspects, AppliedInspects DEF Script, ScriptOverI2c, OrpCalibrationLookI2c
<1>14. CASE n = "ec_calibration"
  BY <1>14, EcCalibrationLookOpens, OpenedInspects, AppliedInspects DEF Script, ScriptOverI2c, EcCalibrationLookI2c
<1>15. CASE n = "do_calibration"
  BY <1>15, DoCalibrationLookOpens, OpenedInspects, AppliedInspects DEF Script, ScriptOverI2c, DoCalibrationLookI2c
<1>16. CASE n = "rtd_calibration"
  BY <1>16, RtdCalibrationLookOpens, OpenedInspects, AppliedInspects DEF Script, ScriptOverI2c, RtdCalibrationLookI2c
<1>17. CASE n = "hum_temperature_calibration"
  BY <1>17, HumCalibrationLookOpens, OpenedInspects, AppliedInspects DEF Script, ScriptOverI2c, HumCalibrationLookI2c
<1>18. CASE n = "ph_workflow"
  BY <1>18, PhWorkflowLookOpens, OpenedInspects, AppliedInspects DEF Script, ScriptOverI2c, PhWorkflowLookI2c
<1>19. CASE n = "orp_workflow"
  BY <1>19, OrpWorkflowLookOpens, OpenedInspects, AppliedInspects DEF Script, ScriptOverI2c, OrpWorkflowLookI2c
<1>20. CASE n = "ec_workflow"
  BY <1>20, EcWorkflowLookOpens, OpenedInspects, AppliedInspects DEF Script, ScriptOverI2c, EcWorkflowLookI2c
<1>21. CASE n = "do_workflow"
  BY <1>21, DoWorkflowLookOpens, OpenedInspects, AppliedInspects DEF Script, ScriptOverI2c, DoWorkflowLookI2c
<1>22. CASE n = "hum_workflow"
  BY <1>22, HumWorkflowLookOpens, OpenedInspects, AppliedInspects DEF Script, ScriptOverI2c, HumWorkflowLookI2c
<1>23. CASE n = "rtd_workflow"
  BY <1>23, RtdWorkflowLookOpens, OpenedInspects, AppliedInspects DEF Script, ScriptOverI2c, RtdWorkflowLookI2c
<1>24. CASE n = "control_workflow"
  BY <1>24, <1>0, ControlWorkflowLookOpens, OpenedInspects, AppliedInspects
     DEF Script, ScriptOverI2c, ControlWorkflowLookI2c
<1>25. CASE n = "transport_switch"
  BY <1>25, <1>0, TransportSwitchLookOpens, OpenedInspects, AppliedInspects
     DEF Script, ScriptOverI2c, TransportSwitchLookI2c
<1>26. CASE n = "calibration_transfer"
  BY <1>26, <1>0, TransferInspects, InspectingOverI2c, AppliedInspects
     DEF Script, ScriptOverI2c, CalibrationTransferLookI2c
<1>27. CASE n = "inspect_device"
  BY <1>27, <1>0, InspectDeviceOpens, OpenedInspects, InspectDeviceI2cInspects
     DEF Script, ScriptOverI2c
<1>28. CASE n = "readiness_check"
  BY <1>28, <1>0, ReadinessCheckOpens, OpenedInspects, ReadinessCheckI2cInspects
     DEF Script, ScriptOverI2c
<1> QED
  BY <1>1, <1>2, <1>3, <1>4, <1>5, <1>6, <1>7, <1>8, <1>9, <1>10, <1>11, <1>12, <1>13, <1>14, <1>15, <1>16, <1>17, <1>18, <1>19, <1>20, <1>21, <1>22, <1>23, <1>24, <1>25, <1>26, <1>27, <1>28 DEF MadeFor

(* How a step changes what is left of the script. *)
Chunk(s) == [s EXCEPT !.op = "chunk"]

Moves ==
  \/ UNCHANGED todo
  \/ todo' = <<>>
  \/ todo # <<>> /\ todo' = Tail(todo)
  \/ Due("export") /\ todo' = <<Chunk(Head(todo))>> \o todo

LEMMA StepMoves ==
  ASSUME [Next]_vars
  PROVE  Moves
<1>1. CASE SendExport
  BY <1>1 DEF SendExport, Moves, Chunk, Due, Proceeds, Fails, Stops
<1>2. CASE Next /\ ~SendExport
  BY <1>2 DEF Next, Skip, OpenSession, Discard, Query, Command, ReadOk, ReadChunkUart,
     ReadChunkI2c, ImportResultUart, ImportResultI2c, ConvertToCelsius, Decide, RaiseFirstError,
     Finish, Ended, vars, Moves, Due, Proceeds, Fails, Stops
<1>3. CASE UNCHANGED vars
  BY <1>3 DEF vars, Moves
<1> QED
  BY <1>1, <1>2, <1>3

LEMMA StepGiven ==
  ASSUME [Next]_vars
  PROVE  UNCHANGED <<program, bus, flags>>
  BY DEF Next, Skip, OpenSession, Discard, Query, Command, ReadOk, SendExport, ReadChunkUart,
     ReadChunkI2c, ImportResultUart, ImportResultI2c, ConvertToCelsius, Decide, RaiseFirstError,
     Finish, Ended, vars, given

(* A set of steps that covers the script goes on covering it. *)
LEMMA StepKeeps ==
  ASSUME NEW S, S \subseteq AnyStep, \A s \in S : Chunk(s) \in S, todo \in Seq(S), [Next]_vars
  PROVE  todo' \in Seq(S)
<1>1. Moves
  BY StepMoves
<1>2. <<>> \in Seq(S)
  BY EmptySeq
<1>3. ASSUME todo # <<>> PROVE Tail(todo) \in Seq(S) /\ Head(todo) \in S
  BY <1>3, HeadTailProperties
<1>4. ASSUME todo # <<>> PROVE <<Chunk(Head(todo))>> \o todo \in Seq(S)
  <2>1. Chunk(Head(todo)) \in S
    BY <1>3, <1>4
  <2> DEFINE x == Chunk(Head(todo))
  <2> HIDE DEF x
  <2>2. <<x>> \in Seq(S)
    BY <2>1, One DEF x
  <2> QED
    BY <2>2, Joint DEF x
<1> QED
  BY <1>1, <1>2, <1>3, <1>4 DEF Moves, Due

LEMMA ChunkIsStep ==
  ASSUME NEW s \in AnyStep
  PROVE  /\ Chunk(s) \in AnyStep /\ Chunk(s).op = "chunk" /\ Chunk(s).on = s.on
         /\ Chunk(s).what = s.what /\ Chunk(s).value = s.value /\ Chunk(s).when = s.when
         /\ Chunk(s).failing = s.failing
  BY AllWords DEF Chunk, AnyStep

(* Until something is applied, nothing but the response codes is commanded *)
(* and no circuit sleeps.                                                  *)
Untouched ==
  "apply" \notin flags =>
    todo \in Seq(Inspecting) /\ \A p \in DOMAIN config : config[p].mode = "awake"

LEMMA InitUntouched ==
  ASSUME Init
  PROVE  Untouched
<1>1. program \in Examples
  BY ProgramAssumption DEF Init
<1>2. program.on \in MadeFor(program.name) /\ program.on \in Products
  BY <1>1, ExamplePairs
<1>3. ASSUME "apply" \notin flags PROVE todo \in Seq(Inspecting)
  BY <1>2, <1>3, ScriptsInspect DEF Init
<1>4. ASSUME NEW p \in DOMAIN config PROVE config[p].mode = "awake"
  <2>1. DOMAIN config = Uses(program.name, program.on) /\ config[p] \in Circuits[p]
    BY DEF Init, SettingsOf
  <2>2. p \in Products
    BY <1>2, <2>1, UsesProducts
  <2> QED
    BY <2>1, <2>2, ProgramAssumption
<1> QED
  BY <1>3, <1>4 DEF Untouched

(* What a step does to the settings while the program only inspects. *)
LEMMA InspectionChanges ==
  ASSUME Typed, todo \in Seq(Inspecting), \A p \in DOMAIN config : config[p].mode = "awake",
         Changes
  PROVE  \/ UNCHANGED config
         \/ config' = [config EXCEPT ![Head(todo).on] = Effect(config[Head(todo).on], "codes", "on")]
<1>1. ASSUME todo # <<>>, Due("tell")
      PROVE  Head(todo).what = "codes" /\ Head(todo).value = "on" /\ Sent(Head(todo)) = "on"
  <2>1. Head(todo) \in Inspecting /\ Head(todo).op = "tell"
    BY <1>1, HeadTailProperties DEF Due
  <2>2. Head(todo).what = "codes" /\ Head(todo).value = "on"
    BY <2>1 DEF Inspecting, Inspects
  <2> QED
    BY <2>2 DEF Sent
<1>2. CASE UNCHANGED config
  BY <1>2
<1>3. CASE todo # <<>> /\ Due("tell")
           /\ config' = [config EXCEPT ![Head(todo).on]
                           = Effect(config[Head(todo).on], Head(todo).what, Sent(Head(todo)))]
  BY <1>1, <1>3
<1>4. CASE todo # <<>> /\ Due("tell") /\ config[Head(todo).on].mode = "asleep"
           /\ config' = [config EXCEPT ![Head(todo).on] = [config[Head(todo).on] EXCEPT !.mode = "awake"]]
  <2>1. CASE Head(todo).on \in DOMAIN config
    BY <1>4, <2>1
  <2>2. CASE Head(todo).on \notin DOMAIN config
    BY <1>4, <2>2 DEF Typed, Functional
  <2> QED
    BY <2>1, <2>2
<1> QED
  BY <1>2, <1>3, <1>4 DEF Changes

LEMMA CodesOn ==
  ASSUME NEW c, c = [x \in DOMAIN c |-> c[x]]
  PROVE  /\ c.mode = "awake" /\ "mode" \in DOMAIN c => Effect(c, "codes", "on").mode = "awake"
         /\ [Effect(c, "codes", "on") EXCEPT !.codes = "on"] = [c EXCEPT !.codes = "on"]
<1>1. DOMAIN Effect(c, "codes", "on") = DOMAIN c
  BY EffectKeepsDomain
<1>2. ASSUME NEW x \in DOMAIN c, x # "codes" PROVE Effect(c, "codes", "on")[x] = c[x]
  BY <1>2 DEF Effect
<1> DEFINE d == Effect(c, "codes", "on")
<1> HIDE DEF d
<1>3. [d EXCEPT !.codes = "on"] = [c EXCEPT !.codes = "on"]
  BY <1>1, <1>2 DEF d
<1> QED
  BY <1>2, <1>3 DEF d

LEMMA HasMode ==
  ASSUME Typed, program \in Examples, NEW p \in DOMAIN config
  PROVE  {"mode", "codes", "plock"} \subseteq DOMAIN config[p] /\ p \in Products
  BY ExamplePairs, UsesProducts DEF Typed, ProgramTypeOK, Functional

LEMMA StepUntouched ==
  ASSUME Typed, program \in Examples, Untouched, [Next]_vars
  PROVE  Untouched'
<1> SUFFICES ASSUME "apply" \notin flags
             PROVE  todo' \in Seq(Inspecting) /\ \A p \in DOMAIN config' : config'[p].mode = "awake"
  BY StepGiven DEF Untouched
<1>1. todo \in Seq(Inspecting) /\ \A p \in DOMAIN config : config[p].mode = "awake"
  BY DEF Untouched
<1>2. todo' \in Seq(Inspecting)
  <2>1. ASSUME NEW s \in Inspecting PROVE Chunk(s) \in Inspecting
    BY ChunkIsStep DEF Inspecting, Inspects
  <2>2. Inspecting \subseteq AnyStep
    BY DEF Inspecting
  <2> QED
    BY <1>1, <2>1, <2>2, StepKeeps
<1>3. ASSUME NEW p \in DOMAIN config' PROVE config'[p].mode = "awake"
  <2>1. p \in DOMAIN config /\ config[p] = [x \in DOMAIN config[p] |-> config[p][x]]
    BY StepConfig DEF Typed, Functional
  <2>2. \/ UNCHANGED config
        \/ config' = [config EXCEPT ![Head(todo).on] = Effect(config[Head(todo).on], "codes", "on")]
    BY <1>1, StepChanges, InspectionChanges
  <2>3. config'[p] = config[p] \/ config'[p] = Effect(config[p], "codes", "on")
    BY <2>1, <2>2
  <2>4. "mode" \in DOMAIN config[p] /\ config[p].mode = "awake"
    BY <1>1, <2>1, HasMode
  <2> QED
    BY <2>1, <2>3, <2>4, CodesOn
<1> QED
  BY <1>2, <1>3

LEMMA StepExamples ==
  ASSUME Typed, [Next]_vars
  PROVE  program \in Examples
  BY ProgramAssumption DEF Typed, ProgramTypeOK

LEMMA InspectionStep ==
  ASSUME Typed, Untouched, [Next]_vars, "apply" \notin flags, NEW p \in DOMAIN config
  PROVE  [config'[p] EXCEPT !.codes = "on"] = [config[p] EXCEPT !.codes = "on"]
<1>1. todo \in Seq(Inspecting) /\ \A q \in DOMAIN config : config[q].mode = "awake"
  BY DEF Untouched
<1>2. \/ UNCHANGED config
      \/ config' = [config EXCEPT ![Head(todo).on] = Effect(config[Head(todo).on], "codes", "on")]
  BY <1>1, StepChanges, InspectionChanges
<1>3. config'[p] = config[p] \/ config'[p] = Effect(config[p], "codes", "on")
  BY <1>2
<1>4. config[p] = [x \in DOMAIN config[p] |-> config[p][x]]
  BY DEF Typed, Functional
<1> QED
  BY <1>3, <1>4, CodesOn

(* A program that has not been told to apply anything changes no setting   *)
(* of any circuit, but for turning the response codes on, over either      *)
(* transport and whatever goes wrong.                                      *)
THEOREM InspectionHolds == Spec => InspectionChangesNothing
<1>1. Init => Typed /\ Untouched
  BY InitTyped, InitUntouched
<1>2. Typed /\ Untouched /\ [Next]_vars => Typed' /\ Untouched'
  BY StepTyped, StepExamples, StepUntouched
<1>3. Typed /\ Untouched /\ [Next]_vars =>
        [("apply" \notin flags) =>
           \A p \in DOMAIN config :
             [config'[p] EXCEPT !.codes = "on"] = [config[p] EXCEPT !.codes = "on"]]_vars
  BY InspectionStep
<1> QED
  BY <1>1, <1>2, <1>3, PTL DEF Spec, InspectionChangesNothing

-----------------------------------------------------------------------------
(***************************************************************************)
(* What the programs apply.                                                *)
(***************************************************************************)
Tames(s) ==
  /\ s.failing = "stops"
  /\ s.op \in {"ask", "celsius", "need", "tell", "ack"}
  /\ s.op = "tell" => s.what \notin {"mode", "import"}

Taming(cs) == {s \in AnyStep : s.on \in cs /\ Tames(s)}

Tame(s, cs) == s \in Seq(Taming(cs)) /\ Acked(s)

(* The steps after which nothing may be asked. *)
Loosens(s) ==
  /\ s.failing = "stops"
  /\ s.op \in {"export", "result"} \/ (s.op = "tell" /\ s.what \in {"mode", "import"})

Loosening(cs) == {s \in AnyStep : s.on \in cs /\ Loosens(s)}

(* What a program does once it has begun: every command is acknowledged,   *)
(* and nothing is asked after something that may leave lines.              *)
Flows(s, cs) ==
  s \in Seq(Stopping(cs)) /\ Acked(s) /\ \A p \in Words : Never(s, Loose(p), Needy(p))

(* A whole script. *)
Ready(s, cs) == Flows(s, cs) /\ \A p \in Words : After(s, Discards(p), Needy(p))

LEMMA MoreKinds ==
  ASSUME NEW cs
  PROVE  /\ Taming(cs) \subseteq AnyStep /\ Taming(cs) \subseteq Stopping(cs)
         /\ Loosening(cs) \subseteq AnyStep /\ Loosening(cs) \subseteq Stopping(cs)
         /\ Asking(cs) \subseteq Taming(cs)
  BY DEF Taming, Tames, Loosening, Loosens, Stopping, MayStop, Asking, OnlyAsks

LEMMA LooseKinds ==
  ASSUME NEW cs, NEW p
  PROVE  /\ \A s \in Taming(cs) : s \notin Loose(p)
         /\ \A s \in Looking(cs) : s \notin Loose(p)
         /\ \A s \in Loosening(cs) : s \notin Needy(p) /\ s \notin Checked(p)
         /\ p \notin cs => \A s \in Stopping(cs) : s \notin Needy(p)
<1>1. \A s \in Taming(cs) : s \notin Loose(p)
  BY DEF Taming, Tames, Loose
<1>2. \A s \in Looking(cs) : s \notin Loose(p)
  BY DEF Looking, Looks, Loose
<1>3. \A s \in Loosening(cs) : s \notin Needy(p) /\ s \notin Checked(p)
  BY DEF Loosening, Loosens, Needy, Checked
<1>4. p \notin cs => \A s \in Stopping(cs) : s \notin Needy(p)
  BY DEF Stopping, Needy, Checked
<1> QED
  BY <1>1, <1>2, <1>3, <1>4

LEMMA TameIsSteps ==
  ASSUME NEW cs, NEW s, Tame(s, cs)
  PROVE  s \in Seq(AnyStep) /\ s \in Seq(Stopping(cs)) /\ \A p : ~Has(s, Loose(p))
<1>1. s \in Seq(AnyStep) /\ s \in Seq(Stopping(cs))
  BY MoreKinds, SeqMonotonic DEF Tame
<1>2. ASSUME NEW p PROVE ~Has(s, Loose(p))
  BY LooseKinds, LacksKind DEF Tame
<1> QED
  BY <1>1, <1>2

LEMMA TameJoint ==
  ASSUME NEW cs, NEW s, NEW t, Tame(s, cs), Tame(t, cs)
  PROVE  Tame(s \o t, cs)
<1>1. s \in Seq(AnyStep) /\ t \in Seq(AnyStep)
  BY TameIsSteps
<1>2. s \o t \in Seq(Taming(cs))
  BY Joint DEF Tame
<1> QED
  BY <1>1, <1>2, AckedJoint DEF Tame

LEMMA TameNothing == ASSUME NEW cs PROVE Tame(<<>>, cs)
<1>1. <<>> \in Seq(Taming(cs)) /\ Len(<<>>) = 0 /\ 1 .. 0 = {}
  BY EmptySeq
<1> QED
  BY <1>1 DEF Tame, Acked

LEMMA TameIf ==
  ASSUME NEW cs, NEW b, NEW s, b => Tame(s, cs)
  PROVE  Tame(If(b, s), cs)
  BY TameNothing DEF If

LEMMA AskingTame ==
  ASSUME NEW cs, NEW s \in Seq(Asking(cs))
  PROVE  Tame(s, cs)
<1>1. s \in Seq(Taming(cs))
  BY MoreKinds, SeqMonotonic
<1>2. \A e \in Asking(cs) : e.op # "tell"
  BY DEF Asking, OnlyAsks
<1> QED
  BY <1>1, <1>2, NothingToAck DEF Tame

LEMMA AsksTame ==
  ASSUME NEW cs, NEW p \in cs \cap Words, NEW whats \in Seq(Words)
  PROVE  Tame(Asks(p, whats), cs)
<1>1. Asks(p, whats) \in Seq(Asking(cs) \cap Looking(cs))
  BY AsksAsk
<1>2. Asking(cs) \cap Looking(cs) \subseteq Asking(cs)
  OBVIOUS
<1> QED
  BY <1>1, <1>2, SeqMonotonic, AskingTame

LEMMA NeedTame ==
  ASSUME NEW cs, NEW p \in cs \cap Words, NEW condition \in Words
  PROVE  Tame(Need(p, condition), cs)
<1> DEFINE a == Call("need", p, condition, "none")
<1>1. "need" \in Words /\ "none" \in Words
  BY AllWords
<1>2. a \in AnyStep /\ a.op = "need" /\ a.on = p /\ a.failing = "stops"
  BY <1>1, CallIsStep
<1>3. Need(p, condition) = <<a>>
  BY DEF Need, Step
<1> HIDE DEF a
<1>4. a \in Asking(cs)
  BY <1>2 DEF Asking, OnlyAsks
<1> QED
  BY <1>3, <1>4, One, AskingTame

(* A command and its acknowledgement. *)
LEMMA TellAckParts ==
  ASSUME NEW cs, NEW p \in cs \cap Words, NEW what \in Words, NEW value \in Words
  PROVE  /\ Tell(p, what, value) \in Seq(AnyStep) /\ Len(Tell(p, what, value)) = 1
         /\ Tell(p, what, value)[1] \in AnyStep /\ Tell(p, what, value)[1].op = "tell"
         /\ Tell(p, what, value)[1].on = p /\ Tell(p, what, value)[1].what = what
         /\ Tell(p, what, value)[1].value = value /\ Tell(p, what, value)[1].when = "always"
         /\ Tell(p, what, value)[1].failing = "stops"
         /\ Ack(p) \in Seq(AnyStep) /\ Len(Ack(p)) = 1 /\ Ack(p)[1] \in AnyStep
         /\ Ack(p)[1].op = "ack" /\ Ack(p)[1].on = p /\ Ack(p)[1].when = "always"
         /\ Ack(p)[1].failing = "stops"
<1> DEFINE c == Call("tell", p, what, value)
           d == Call("ack", p, "OK", "none")
<1>1. "tell" \in Words /\ "ack" \in Words /\ "OK" \in Words /\ "none" \in Words
  BY AllWords
<1>2. /\ c \in AnyStep /\ c.op = "tell" /\ c.on = p /\ c.what = what /\ c.value = value
      /\ c.when = "always" /\ c.failing = "stops"
  BY <1>1, CallIsStep
<1>3. d \in AnyStep /\ d.op = "ack" /\ d.on = p /\ d.when = "always" /\ d.failing = "stops"
  BY <1>1, CallIsStep
<1>4. Tell(p, what, value) = <<c>> /\ Ack(p) = <<d>>
  BY DEF Tell, Ack, Step
<1> HIDE DEF c, d
<1>5. <<c>> \in Seq(AnyStep) /\ Len(<<c>>) = 1 /\ <<c>>[1] = c
      /\ <<d>> \in Seq(AnyStep) /\ Len(<<d>>) = 1 /\ <<d>>[1] = d
  BY <1>2, <1>3, One
<1> QED
  BY <1>2, <1>3, <1>4, <1>5

LEMMA AckTame ==
  ASSUME NEW cs, NEW p \in cs \cap Words
  PROVE  Tame(Ack(p), cs)
<1> DEFINE t == Ack(p)
<1>1. "led" \in Words /\ "on" \in Words
  BY AllWords
<1>2. t \in Seq(AnyStep) /\ Len(t) = 1 /\ t[1] \in AnyStep /\ t[1].op = "ack" /\ t[1].on = p
      /\ t[1].failing = "stops"
  BY <1>1, TellAckParts
<1> HIDE DEF t
<1>3. t[1] \in {e \in Taming(cs) : e.op = "ack"}
  BY <1>2 DEF Taming, Tames
<1>4. t \in Seq({e \in Taming(cs) : e.op = "ack"})
  <2>1. DOMAIN t = 1 .. 1 /\ t = [i \in 1 .. 1 |-> t[i]] /\ \A i \in 1 .. 1 : t[i] = t[1]
    BY <1>2, LenProperties
  <2> QED
    BY <1>3, <2>1, SeqOf
<1>5. Acked(t)
  BY <1>4, NothingToAck
<1>6. {e \in Taming(cs) : e.op = "ack"} \subseteq Taming(cs)
  OBVIOUS
<1>7. t \in Seq(Taming(cs))
  BY <1>4, <1>6, SeqMonotonic
<1> QED
  BY <1>5, <1>7 DEF Tame, t

LEMMA SetTame ==
  ASSUME NEW cs, NEW p \in cs \cap Words, NEW what \in Words, what \notin {"mode", "import"},
         NEW value \in Words
  PROVE  Tame(Set(p, what, value), cs)
<1> DEFINE s == Tell(p, what, value)
           t == Ack(p)
<1>1. /\ s \in Seq(AnyStep) /\ Len(s) = 1 /\ s[1] \in AnyStep /\ s[1].op = "tell" /\ s[1].on = p
      /\ s[1].what = what /\ s[1].when = "always" /\ s[1].failing = "stops"
      /\ t \in Seq(AnyStep) /\ Len(t) = 1 /\ t[1] \in AnyStep /\ t[1].op = "ack" /\ t[1].on = p
      /\ t[1].when = "always" /\ t[1].failing = "stops"
  BY TellAckParts
<1>2. Set(p, what, value) = s \o t
  BY DEF Set
<1> HIDE DEF s, t
<1> DEFINE u == s \o t
<1>3. u \in Seq(AnyStep) /\ Len(u) = 2 /\ u[1] = s[1] /\ u[2] = t[1]
  <2>1. u \in Seq(AnyStep) /\ Len(u) = Len(s) + Len(t)
    BY <1>1, ConcatProperties
  <2>2. (\A i \in 1 .. Len(s) : u[i] = s[i]) /\ (\A i \in 1 .. Len(t) : u[Len(s) + i] = t[i])
    BY <1>1, JointParts
  <2>3. 1 \in 1 .. 1 /\ 1 + 1 = 2
    OBVIOUS
  <2> HIDE DEF u
  <2> QED
    BY <1>1, <2>1, <2>2, <2>3
<1> HIDE DEF u
<1>4. u[1] \in Taming(cs) /\ u[2] \in Taming(cs)
  BY <1>1, <1>3 DEF Taming, Tames
<1>5. u \in Seq(Taming(cs))
  <2>1. DOMAIN u = 1 .. 2 /\ u = [i \in 1 .. 2 |-> u[i]] /\ 1 .. 2 = {1, 2}
    BY <1>3, LenProperties
  <2>2. \A i \in 1 .. 2 : u[i] \in Taming(cs)
    BY <1>4, <2>1
  <2> QED
    BY <2>1, <2>2, SeqOf
<1>6. Acked(u)
  <2>1. Acks(u[1], u[2])
    BY <1>1, <1>3 DEF Acks
  <2> QED
    BY <1>1, <1>3, <2>1, AckedPair, AcksAreNotChecked
<1> QED
  BY <1>2, <1>5, <1>6 DEF Tame, u

LEMMA StepOfIs ==
  ASSUME NEW steps, steps \subseteq Steps, NEW options, NEW f \in Staged(steps, options)
  PROVE  StepOf(f) \in Steps /\ StepOf(f) \in Words
<1>1. PICK s \in steps, g \in Flags(options) : f = {s} \cup g
  BY DEF Staged
<1>2. s \in Steps /\ s \in f
  BY <1>1
<1>3. StepOf(f) \in Steps
  BY <1>2 DEF StepOf
<1>4. Steps \subseteq Words
  BY AllWords DEF Steps
<1> QED
  BY <1>3, <1>4

(* A calibration step is acknowledged before anything is asked. *)
LEMMA CalibrateParts ==
  ASSUME NEW cs, NEW p \in cs \cap Words, NEW f, StepOf(f) \in Words
  PROVE  /\ Calibrate(p, f) \in Seq(AnyStep) /\ Ack(p) \in Seq(AnyStep)
         /\ StepOf(f) # "status" => Tame(Calibrate(p, f) \o Ack(p), cs)
         /\ StepOf(f) = "status" => Calibrate(p, f) = <<>>
<1>1. "calibration" \in Words
  BY AllWords
<1>2. Tell(p, "calibration", StepOf(f)) \in Seq(AnyStep) /\ Ack(p) \in Seq(AnyStep)
  BY <1>1, TellAckParts
<1>3. Tame(Set(p, "calibration", StepOf(f)), cs)
  BY <1>1, SetTame
<1>4. Calibrate(p, f) \in Seq(AnyStep)
  BY <1>2, Optional DEF Calibrate
<1>5. ASSUME StepOf(f) # "status" PROVE Tame(Calibrate(p, f) \o Ack(p), cs)
  <2>1. Calibrate(p, f) = Tell(p, "calibration", StepOf(f))
    BY <1>5 DEF Calibrate, If
  <2> QED
    BY <1>3, <2>1 DEF Set
<1>6. StepOf(f) = "status" => Calibrate(p, f) = <<>>
  BY DEF Calibrate, If
<1> QED
  BY <1>2, <1>4, <1>5, <1>6

LEMMA CalibrateTame ==
  ASSUME NEW cs, NEW p \in cs \cap Words, NEW f, StepOf(f) \in Words, NEW whats \in Seq(Words)
  PROVE  /\ Tame(Calibrate(p, f) \o Confirmed(p, f, whats), cs)
         /\ Calibrate(p, f) \in Seq(AnyStep) /\ Confirmed(p, f, whats) \in Seq(AnyStep)
<1>1. Tame(Asks(p, whats), cs) /\ Asks(p, whats) \in Seq(AnyStep)
  BY AsksTame, TameIsSteps
<1>2. Ack(p) \in Seq(AnyStep) /\ Calibrate(p, f) \in Seq(AnyStep)
  BY CalibrateParts
<1>3. Ack(p) \o Asks(p, whats) \in Seq(AnyStep)
  BY <1>1, <1>2, Joint
<1>4. Confirmed(p, f, whats) \in Seq(AnyStep)
  BY <1>3, Optional DEF Confirmed
<1>5. CASE StepOf(f) = "status"
  <2>1. Calibrate(p, f) = <<>> /\ Confirmed(p, f, whats) = <<>>
    BY <1>5, CalibrateParts DEF Confirmed, If
  <2>2. Tame(<<>>, cs) /\ <<>> \o <<>> = <<>>
    BY TameNothing, ConcatEmptySeq
  <2> QED
    BY <1>2, <1>4, <2>1, <2>2
<1>6. CASE StepOf(f) # "status"
  <2>1. Confirmed(p, f, whats) = Ack(p) \o Asks(p, whats)
    BY <1>6 DEF Confirmed, If
  <2>2. Calibrate(p, f) \o (Ack(p) \o Asks(p, whats)) = (Calibrate(p, f) \o Ack(p)) \o Asks(p, whats)
    BY <1>1, <1>2, Assoc
  <2>3. Tame((Calibrate(p, f) \o Ack(p)) \o Asks(p, whats), cs)
    BY <1>1, <1>6, CalibrateParts, TameJoint
  <2> QED
    BY <1>2, <1>4, <2>1, <2>2, <2>3
<1> QED
  BY <1>5, <1>6

LEMMA SetOutputTame ==
  ASSUME NEW cs, NEW p \in cs \cap Words, NEW f, NEW name \in Words
  PROVE  Tame(SetOutput(p, f, name), cs)
<1>1. "output_off" \in Words /\ "output_on" \in Words
  BY AllWords
<1>2. Tame(Set(p, "output_off", name), cs) /\ Tame(Set(p, "output_on", name), cs)
  BY <1>1, SetTame
<1> QED
  BY <1>2 DEF SetOutput

(* What the products are set to. *)
LEMMA PhTempCompApplyTame == Tame(PhTempCompApply, {"RTD", "PH"})
<1>1. Tame(Set("PH", "temperature", "celsius"), {"RTD", "PH"})
  BY AllWords, SetTame
<1>2. Tame(Asks("PH", <<"temperature", "read">>), {"RTD", "PH"})
  <2>1. <<"temperature", "read">> \in Seq(Words)
    BY AllWords, Two
  <2> QED
    BY <2>1, AllWords, AsksTame
<1> QED
  BY <1>1, <1>2, TameJoint DEF PhTempCompApply

LEMMA EcTempCompApplyTame == Tame(EcTempCompApply, {"RTD", "EC"})
<1>1. Tame(Set("EC", "temperature", "celsius"), {"RTD", "EC"})
  BY AllWords, SetTame
<1>2. Tame(Asks("EC", <<"temperature", "read">>), {"RTD", "EC"})
  <2>1. <<"temperature", "read">> \in Seq(Words)
    BY AllWords, Two
  <2> QED
    BY <2>1, AllWords, AsksTame
<1> QED
  BY <1>1, <1>2, TameJoint DEF EcTempCompApply

LEMMA DoTempCompApplyTame == Tame(DoTempCompApply, {"RTD", "DO"})
<1>1. Tame(Set("DO", "temperature", "celsius"), {"RTD", "DO"})
  BY AllWords, SetTame
<1>2. Tame(Asks("DO", <<"temperature", "read">>), {"RTD", "DO"})
  <2>1. <<"temperature", "read">> \in Seq(Words)
    BY AllWords, Two
  <2> QED
    BY <2>1, AllWords, AsksTame
<1> QED
  BY <1>1, <1>2, TameJoint DEF DoTempCompApply

LEMMA DoSalinityCompApplyTame == Tame(DoSalinityCompApply, {"EC", "DO"})
<1>1. Tame(Need("EC", "salinity measured"), {"EC", "DO"})
  BY AllWords, NeedTame
<1>2. Tame(Set("DO", "salinity", "ppt"), {"EC", "DO"})
  BY AllWords, SetTame
<1>3. Tame(Asks("DO", <<"salinity", "read">>), {"EC", "DO"})
  <2>1. <<"salinity", "read">> \in Seq(Words)
    BY AllWords, Two
  <2> QED
    BY <2>1, AllWords, AsksTame
<1> QED
  BY <1>1, <1>2, <1>3, TameJoint DEF DoSalinityCompApply

LEMMA DoFullChainApplyTame == Tame(DoFullChainApply, {"RTD", "EC", "DO"})
<1>1. Tame(Need("EC", "salinity measured"), {"RTD", "EC", "DO"})
  BY AllWords, NeedTame
<1>2. Tame(Set("DO", "temperature", "celsius"), {"RTD", "EC", "DO"})
  BY AllWords, SetTame
<1>3. Tame(Set("DO", "salinity", "ppt"), {"RTD", "EC", "DO"})
  BY AllWords, SetTame
<1>4. Tame(Set("DO", "pressure", "planned"), {"RTD", "EC", "DO"})
  BY AllWords, SetTame
<1>5. Tame(Asks("DO", <<"temperature", "salinity", "pressure", "read">>), {"RTD", "EC", "DO"})
  <2>1. <<"temperature", "salinity", "pressure", "read">> \in Seq(Words)
    BY AllWords, Four
  <2> QED
    BY <2>1, AllWords, AsksTame
<1> QED
  BY <1>1, <1>2, <1>3, <1>4, <1>5, TameJoint DEF DoFullChainApply

LEMMA PhWorkflowApplyTame == Tame(PhWorkflowApply, {"PH"})
<1>1. Tame(Set("PH", "temperature", "planned"), {"PH"})
  BY AllWords, SetTame
<1>2. Tame(Set("PH", "extended", "planned"), {"PH"})
  BY AllWords, SetTame
<1>3. Tame(Asks("PH", <<"temperature", "extended", "read">>), {"PH"})
  <2>1. <<"temperature", "extended", "read">> \in Seq(Words)
    BY AllWords, Three
  <2> QED
    BY <2>1, AllWords, AsksTame
<1> QED
  BY <1>1, <1>2, <1>3, TameJoint DEF PhWorkflowApply

LEMMA OrpWorkflowApplyTame == Tame(OrpWorkflowApply, {"ORP"})
<1>1. Tame(Set("ORP", "extended", "planned"), {"ORP"})
  BY AllWords, SetTame
<1>2. Tame(Asks("ORP", <<"extended", "read">>), {"ORP"})
  <2>1. <<"extended", "read">> \in Seq(Words)
    BY AllWords, Two
  <2> QED
    BY <2>1, AllWords, AsksTame
<1> QED
  BY <1>1, <1>2, TameJoint DEF OrpWorkflowApply

LEMMA EcWorkflowApplyTame ==
  ASSUME NEW f
  PROVE  Tame(EcWorkflowApply(f), {"EC"})
<1>1. Tame(Set("EC", "temperature", "planned"), {"EC"})
  BY AllWords, SetTame
<1>2. Tame(Set("EC", "probe_k", "planned"), {"EC"})
  BY AllWords, SetTame
<1>3. Tame(Set("EC", "tds", "planned"), {"EC"})
  BY AllWords, SetTame
<1>4. Tame(SetOutput("EC", f, "S"), {"EC"})
  BY AllWords, SetOutputTame
<1>5. Tame(Asks("EC", <<"output", "temperature", "probe_k", "tds", "read">>), {"EC"})
  <2>1. <<"output", "temperature", "probe_k", "tds", "read">> \in Seq(Words)
    BY AllWords, Five
  <2> QED
    BY <2>1, AllWords, AsksTame
<1> QED
  BY <1>1, <1>2, <1>3, <1>4, <1>5, TameJoint DEF EcWorkflowApply

LEMMA DoWorkflowApplyTame ==
  ASSUME NEW f
  PROVE  Tame(DoWorkflowApply(f), {"DO"})
<1>1. Tame(Set("DO", "temperature", "planned"), {"DO"})
  BY AllWords, SetTame
<1>2. Tame(Set("DO", "salinity", "planned"), {"DO"})
  BY AllWords, SetTame
<1>3. Tame(Set("DO", "pressure", "planned"), {"DO"})
  BY AllWords, SetTame
<1>4. Tame(SetOutput("DO", f, "%"), {"DO"})
  BY AllWords, SetOutputTame
<1>5. Tame(Asks("DO", <<"output", "temperature", "salinity", "pressure", "read">>), {"DO"})
  <2>1. <<"output", "temperature", "salinity", "pressure", "read">> \in Seq(Words)
    BY AllWords, Five
  <2> QED
    BY <2>1, AllWords, AsksTame
<1> QED
  BY <1>1, <1>2, <1>3, <1>4, <1>5, TameJoint DEF DoWorkflowApply

LEMMA HumWorkflowApplyTame ==
  ASSUME NEW f
  PROVE  Tame(HumWorkflowApply(f), {"HUM"})
<1>1. Tame(SetOutput("HUM", f, "Dew"), {"HUM"})
  BY AllWords, SetOutputTame
<1>2. Tame(Set("HUM", "calibration", "calibrate"), {"HUM"})
  BY AllWords, SetTame
<1>3. Tame(Asks("HUM", <<"output", "calibration", "read">>), {"HUM"})
  <2>1. <<"output", "calibration", "read">> \in Seq(Words)
    BY AllWords, Three
  <2> QED
    BY <2>1, AllWords, AsksTame
<1> QED
  BY <1>1, <1>2, <1>3, TameJoint DEF HumWorkflowApply

LEMMA RtdWorkflowApplyTame ==
  ASSUME NEW f
  PROVE  Tame(RtdWorkflowApply(f), {"RTD"})
<1>1. Tame(Set("RTD", "scale", "k"), {"RTD"})
  BY AllWords, SetTame
<1>2. Tame(Set("RTD", "logger", "planned"), {"RTD"})
  BY AllWords, SetTame
<1>3. Tame(If("clear-memory" \in f, Set("RTD", "memory", "clear")), {"RTD"})
  BY AllWords, SetTame, TameIf
<1>4. Tame(Asks("RTD", <<"scale", "logger", "memory">>), {"RTD"})
  <2>1. <<"scale", "logger", "memory">> \in Seq(Words)
    BY AllWords, Three
  <2> QED
    BY <2>1, AllWords, AsksTame
<1> QED
  BY <1>1, <1>2, <1>3, <1>4, TameJoint DEF RtdWorkflowApply

LEMMA PhCalibrationApplyTame ==
  ASSUME NEW f, StepOf(f) \in Words
  PROVE  Tame(PhCalibrationApply(f), {"PH"})
<1>1. <<"calibration", "slope">> \in Seq(Words)
  BY AllWords, Two
<1> QED
  BY <1>1, AllWords, CalibrateTame DEF PhCalibrationApply

LEMMA OrpCalibrationApplyTame ==
  ASSUME NEW f, StepOf(f) \in Words
  PROVE  Tame(OrpCalibrationApply(f), {"ORP"})
<1>1. <<"calibration">> \in Seq(Words)
  BY AllWords, One
<1> QED
  BY <1>1, AllWords, CalibrateTame DEF OrpCalibrationApply

LEMMA RtdCalibrationApplyTame ==
  ASSUME NEW f, StepOf(f) \in Words
  PROVE  Tame(RtdCalibrationApply(f), {"RTD"})
<1>1. <<"calibration">> \in Seq(Words)
  BY AllWords, One
<1> QED
  BY <1>1, AllWords, CalibrateTame DEF RtdCalibrationApply

LEMMA HumCalibrationApplyTame ==
  ASSUME NEW f, StepOf(f) \in Words
  PROVE  Tame(HumCalibrationApply(f), {"HUM"})
<1>1. <<"calibration">> \in Seq(Words)
  BY AllWords, One
<1> QED
  BY <1>1, AllWords, CalibrateTame DEF HumCalibrationApply

LEMMA DoCalibrationApplyTame ==
  ASSUME NEW f, StepOf(f) \in Words
  PROVE  Tame(DoCalibrationApply(f), {"DO"})
<1> DEFINE a == If(StepOf(f) = "operating-temp-recal", Set("DO", "temperature", "planned"))
           b == Calibrate("DO", f)
           c == Confirmed("DO", f, <<"temperature", "calibration">>)
<1>1. Tame(a, {"DO"})
  BY AllWords, SetTame, TameIf
<1>2. Tame(b \o c, {"DO"}) /\ b \in Seq(AnyStep) /\ c \in Seq(AnyStep)
  <2>1. <<"temperature", "calibration">> \in Seq(Words)
    BY AllWords, Two
  <2> QED
    BY <2>1, AllWords, CalibrateTame
<1>3. DoCalibrationApply(f) = (a \o b) \o c
  BY DEF DoCalibrationApply
<1> HIDE DEF a, b, c
<1>4. (a \o b) \o c = a \o (b \o c)
  <2>1. a \in Seq(AnyStep)
    BY <1>1, TameIsSteps
  <2> QED
    BY <1>2, <2>1, Assoc
<1> QED
  BY <1>1, <1>2, <1>3, <1>4, TameJoint

LEMMA EcCalibrationApplyTame ==
  ASSUME NEW f, StepOf(f) \in Words
  PROVE  Tame(EcCalibrationApply(f), {"EC"})
<1> DEFINE a == If("probe-k" \in f, Set("EC", "probe_k", "planned"))
           b == Calibrate("EC", f)
           c == Ack("EC")
           d == Asks("EC", <<"probe_k", "calibration">>)
           e == If(StepOf(f) # "status" \/ "probe-k" \in f, c \o d)
<1>1. Tame(a, {"EC"})
  BY AllWords, SetTame, TameIf
<1>2. /\ b \in Seq(AnyStep)
      /\ StepOf(f) # "status" => Tame(b \o c, {"EC"})
      /\ StepOf(f) = "status" => b = <<>>
  BY AllWords, CalibrateParts
<1>3. Tame(c, {"EC"})
  BY AllWords, AckTame
<1>4. Tame(d, {"EC"})
  <2>1. <<"probe_k", "calibration">> \in Seq(Words)
    BY AllWords, Two
  <2> QED
    BY <2>1, AllWords, AsksTame
<1>5. EcCalibrationApply(f) = (a \o b) \o e
  BY DEF EcCalibrationApply
<1> HIDE DEF a, b, c, d
<1>6. a \in Seq(AnyStep) /\ b \in Seq(AnyStep) /\ c \in Seq(AnyStep) /\ d \in Seq(AnyStep)
  BY <1>1, <1>2, <1>3, <1>4, TameIsSteps
<1>7. CASE StepOf(f) = "status"
  <2>1. a \o b = a
    BY <1>2, <1>6, <1>7, ConcatEmptySeq
  <2>2. Tame(c \o d, {"EC"})
    BY <1>3, <1>4, TameJoint
  <2>3. Tame(e, {"EC"})
    BY <2>2, TameIf
  <2> QED
    BY <1>1, <1>5, <2>1, <2>3, TameJoint
<1>8. CASE StepOf(f) # "status"
  <2>1. e = c \o d
    BY <1>8 DEF If
  <2> HIDE DEF e
  <2>2. (a \o b) \o e = (a \o (b \o c)) \o d
    <3>1. a \in Seq(AnyStep)
      BY <1>6
    <3>2. b \in Seq(AnyStep)
      BY <1>6
    <3>3. c \in Seq(AnyStep)
      BY <1>6
    <3>4. d \in Seq(AnyStep)
      BY <1>6
    <3> DEFINE g == a \o b
    <3>5. g \o c = a \o (b \o c)
      BY <3>1, <3>2, <3>3, Assoc
    <3>6. g \in Seq(AnyStep)
      BY <3>1, <3>2, Joint
    <3> HIDE DEF g
    <3>7. (g \o c) \o d = g \o (c \o d)
      BY <3>3, <3>4, <3>6, Assoc
    <3>8. g \o e = (a \o (b \o c)) \o d
      BY <2>1, <3>5, <3>7
    <3> QED
      BY <3>8 DEF g
  <2>3. Tame(a \o (b \o c), {"EC"})
    BY <1>1, <1>2, <1>8, TameJoint
  <2>4. Tame((a \o (b \o c)) \o d, {"EC"})
    BY <1>4, <2>3, TameJoint
  <2> QED
    BY <1>5, <2>2, <2>4
<1> QED
  BY <1>7, <1>8

LEMMA AcksNothing ==
  ASSUME NEW cs, NEW t \in Seq(Loosening(cs))
  PROVE  Acked(t) /\ \A p : ~Has(t, Needy(p))
<1>1. ASSUME NEW p PROVE ~Has(t, Needy(p))
  BY LooseKinds, LacksKind
<1>2. ASSUME NEW p, NEW i \in 1 .. Len(t) PROVE t[i] \notin Checked(p)
  BY LooseKinds, ElementOfSeq
<1> QED
  BY <1>1, <1>2 DEF Acked

LEMMA FlowsIsSteps ==
  ASSUME NEW cs, NEW s, Flows(s, cs)
  PROVE  s \in Seq(AnyStep)
  BY KindsOf DEF Flows

LEMMA TameFlows ==
  ASSUME NEW cs, NEW s, Tame(s, cs)
  PROVE  Flows(s, cs)
  BY TameIsSteps, LacksOrders DEF Flows, Tame

LEMMA FlowsThen ==
  ASSUME NEW cs, NEW s, NEW t, Flows(s, cs), t \in Seq(Loosening(cs))
  PROVE  Flows(s \o t, cs)
<1>1. s \in Seq(AnyStep) /\ t \in Seq(AnyStep) /\ t \in Seq(Stopping(cs)) /\ s \in Seq(Stopping(cs))
  BY MoreKinds, SeqMonotonic, FlowsIsSteps DEF Flows
<1>2. s \o t \in Seq(Stopping(cs))
  BY <1>1, Joint
<1>3. Acked(s \o t)
  BY <1>1, AcksNothing, AckedJoint DEF Flows
<1>4. ASSUME NEW p \in Words PROVE Never(s \o t, Loose(p), Needy(p))
  <2>1. ~Has(t, Needy(p)) /\ Never(t, Loose(p), Needy(p)) /\ Never(s, Loose(p), Needy(p))
    BY AcksNothing, LacksOrders DEF Flows
  <2> QED
    BY <1>1, <2>1, NeverJoint
<1> QED
  BY <1>2, <1>3, <1>4 DEF Flows

LEMMA OpenedFlows ==
  ASSUME NEW cs, NEW s, NEW t, Opened(s, cs), Flows(t, cs)
  PROVE  Ready(s \o t, cs)
<1>1. s \in Seq(AnyStep) /\ t \in Seq(AnyStep) /\ s \in Seq(Stopping(cs)) /\ t \in Seq(Stopping(cs))
  BY KindsOf, FlowsIsSteps DEF Opened, Flows
<1>2. s \o t \in Seq(Stopping(cs))
  BY <1>1, Joint
<1>3. Acked(s \o t)
  BY <1>1, AckedJoint DEF Opened, Flows
<1>4. ASSUME NEW p \in Words PROVE Never(s \o t, Loose(p), Needy(p))
  <2>1. ~Has(s, Loose(p))
    BY LooseKinds, LacksKind DEF Opened
  <2>2. Never(s, Loose(p), Needy(p)) /\ Never(t, Loose(p), Needy(p))
    BY <2>1, LacksOrders DEF Flows
  <2> QED
    BY <1>1, <2>1, <2>2, NeverJoint
<1>5. ASSUME NEW p \in Words PROVE After(s \o t, Discards(p), Needy(p))
  <2>1. After(s, Discards(p), Needy(p))
    BY DEF Opened
  <2>2. CASE p \in cs
    BY <1>1, <2>1, <2>2, AfterJoint DEF Opened
  <2>3. CASE p \notin cs
    <3>1. ~Has(t, Needy(p))
      BY <1>1, <2>3, LooseKinds, LacksKind
    <3> QED
      BY <1>1, <2>1, <3>1, LacksOrders, AfterJoint
  <2> QED
    BY <2>2, <2>3
<1> QED
  BY <1>2, <1>3, <1>4, <1>5 DEF Ready, Flows

LEMMA NothingFlows == ASSUME NEW cs PROVE Flows(<<>>, cs)
  BY TameNothing, TameFlows

LEMMA OpenedReady ==
  ASSUME NEW cs, NEW s, Opened(s, cs)
  PROVE  Ready(s, cs)
<1>1. Ready(s \o <<>>, cs)
  BY NothingFlows, OpenedFlows
<1>2. s \o <<>> = s
  BY KindsOf, ConcatEmptySeq DEF Opened
<1> QED
  BY <1>1, <1>2

LEMMA ReadyThen ==
  ASSUME NEW cs, NEW s, NEW t, Ready(s, cs), t \in Seq(Loosening(cs))
  PROVE  Ready(s \o t, cs)
<1>1. s \in Seq(AnyStep) /\ t \in Seq(AnyStep)
  BY MoreKinds, SeqMonotonic, FlowsIsSteps DEF Ready
<1>2. Flows(s \o t, cs)
  BY FlowsThen DEF Ready
<1>3. ASSUME NEW p \in Words PROVE After(s \o t, Discards(p), Needy(p))
  <2>1. ~Has(t, Needy(p)) /\ After(s, Discards(p), Needy(p))
    BY AcksNothing DEF Ready
  <2> QED
    BY <1>1, <2>1, LacksOrders, AfterJoint
<1> QED
  BY <1>2, <1>3 DEF Ready

LEMMA AppliedReady ==
  ASSUME NEW cs, NEW f, NEW look, NEW apply, Opened(look, cs), Flows(apply, cs)
  PROVE  Ready(Applied(f, look, apply), cs)
<1>1. Flows(If("apply" \in f, apply), cs)
  BY NothingFlows DEF If
<1> QED
  BY <1>1, OpenedFlows DEF Applied

(* The programs that end with a step they do not wait for. *)
LEMMA TellLoosens ==
  ASSUME NEW p \in Words, NEW what \in {"mode", "import"} \cap Words, NEW value \in Words
  PROVE  Tell(p, what, value) \in Seq(Loosening({p}))
<1> DEFINE a == Call("tell", p, what, value)
<1>1. "tell" \in Words
  BY AllWords
<1>2. a \in AnyStep /\ a.op = "tell" /\ a.on = p /\ a.what = what /\ a.failing = "stops"
  BY <1>1, CallIsStep
<1>3. Tell(p, what, value) = <<a>>
  BY DEF Tell
<1> HIDE DEF a
<1>4. a \in Loosening({p})
  BY <1>2 DEF Loosening, Loosens
<1> QED
  BY <1>3, <1>4, One

LEMMA StepLoosens ==
  ASSUME NEW p \in Words, NEW op \in {"export", "result"} \cap Words, NEW what \in Words
  PROVE  Step(op, p, what) \in Seq(Loosening({p}))
<1> DEFINE a == Call(op, p, what, "none")
<1>1. "none" \in Words
  BY AllWords
<1>2. a \in AnyStep /\ a.op = op /\ a.on = p /\ a.failing = "stops"
  BY <1>1, CallIsStep
<1>3. Step(op, p, what) = <<a>>
  BY DEF Step
<1> HIDE DEF a
<1>4. a \in Loosening({p})
  BY <1>2 DEF Loosening, Loosens
<1> QED
  BY <1>3, <1>4, One

LEMMA CalibrationTransferReady ==
  ASSUME NEW p \in Products, NEW f
  PROVE  Ready(Applied(f, CalibrationTransferLook(p), CalibrationTransferApply(p)), {p})
<1>1. p \in Words /\ p \in {p} \cap Words
  BY ProductsAreWords
<1>2. Opened(Begin(p) \o Ask(p, "chunks"), {p})
  BY <1>1, AllWords, BeginOpens, AskAsks, OpenedAsks
<1>3. Step("export", p, "chunks") \in Seq(Loosening({p}))
  BY <1>1, AllWords, StepLoosens
<1>4. Ready(CalibrationTransferLook(p), {p})
  BY <1>2, <1>3, OpenedReady, ReadyThen DEF CalibrationTransferLook
<1>5. CalibrationTransferApply(p) \in Seq(Loosening({p}))
  <2>1. Tell(p, "import", "imported") \in Seq(Loosening({p}))
    BY <1>1, AllWords, TellLoosens
  <2>2. Step("result", p, "import") \in Seq(Loosening({p}))
    BY <1>1, AllWords, StepLoosens
  <2> QED
    BY <2>1, <2>2, Joint DEF CalibrationTransferApply
<1>6. If("apply" \in f, CalibrationTransferApply(p)) \in Seq(Loosening({p}))
  BY <1>5, Optional
<1> QED
  BY <1>4, <1>6, ReadyThen DEF Applied

LEMMA TransportSwitchFlows ==
  ASSUME NEW p \in Products, NEW f
  PROVE  Flows(TransportSwitchApply(p, f), {p})
<1>1. p \in Words /\ p \in {p} \cap Words
  BY ProductsAreWords
<1>2. Flows(Need(p, "unlocked"), {p})
  BY <1>1, AllWords, NeedTame, TameFlows
<1>3. /\ Tell(p, "mode", "new baud") \in Seq(Loosening({p}))
      /\ Tell(p, "mode", "i2c") \in Seq(Loosening({p}))
  BY <1>1, AllWords, TellLoosens
<1> QED
  BY <1>2, <1>3, FlowsThen DEF TransportSwitchApply

(* What control_workflow sets the lock and the codes to. *)
LEMMA SetLockTame ==
  ASSUME NEW cs, NEW p \in cs \cap Words, NEW f
  PROVE  Tame(SetLock(p, f), cs)
<1>1. "plock" \in Words /\ "on" \in Words /\ "off" \in Words
  BY AllWords
<1>2. Tame(Set(p, "plock", "on"), cs) /\ Tame(Set(p, "plock", "off"), cs)
  BY <1>1, SetTame
<1> QED
  BY <1>2 DEF SetLock

LEMMA SetCodesTame ==
  ASSUME NEW p \in Words, NEW f
  PROVE  Tame(SetCodes(p, f), {p})
<1>1. Tame(Set(p, "codes", "off"), {p})
  BY AllWords, SetTame
<1>2. Tame(TurnsOn(p), {p})
  <2>1. TurnsOn(p) \in Seq({e \in Looking({p}) : e.op \in {"tell", "ack"}}) /\ Acked(TurnsOn(p))
    BY TurnsOnIs
  <2>2. {e \in Looking({p}) : e.op \in {"tell", "ack"}} \subseteq Taming({p})
    BY DEF Looking, Looks, Taming, Tames
  <2>3. TurnsOn(p) \in Seq(Taming({p}))
    BY <2>1, <2>2, SeqMonotonic
  <2> QED
    BY <2>1, <2>3 DEF Tame
<1>3. SetCodes(p, f) = TurnsOn(p) \/ SetCodes(p, f) = Set(p, "codes", "off")
  BY DEF SetCodes, TurnsOn
<1> QED
  BY <1>1, <1>2, <1>3

LEMMA ControlWorkflowFlows ==
  ASSUME NEW p \in Products, NEW f
  PROVE  Flows(ControlWorkflowApply(p, f) \o ControlWorkflowAfter(p, f), {p})
<1> DEFINE a == If("set-name" \in f, Set(p, "name", "planned"))
                \o If("set-led" \in f, Set(p, "led", "planned"))
                \o If("set-protocol-lock" \in f, SetLock(p, f))
                \o If("send-find" \in f, Set(p, "find", "planned"))
           b == If("send-sleep" \in f, Tell(p, "mode", "asleep"))
           c == If("factory-reset" \in f, Tell(p, "mode", "reset"))
           d == ControlWorkflowAfter(p, f)
<1>1. p \in Words /\ p \in {p} \cap Words
  BY ProductsAreWords
<1>2. Tame(a, {p})
  <2>1. Tame(If("set-name" \in f, Set(p, "name", "planned")), {p})
    BY <1>1, AllWords, SetTame, TameIf
  <2>2. Tame(If("set-led" \in f, Set(p, "led", "planned")), {p})
    BY <1>1, AllWords, SetTame, TameIf
  <2>3. Tame(If("set-protocol-lock" \in f, SetLock(p, f)), {p})
    BY <1>1, SetLockTame, TameIf
  <2>4. Tame(If("send-find" \in f, Set(p, "find", "planned")), {p})
    BY <1>1, AllWords, SetTame, TameIf
  <2> QED
    BY <2>1, <2>2, <2>3, <2>4, TameJoint
<1>3. b \in Seq(Loosening({p})) /\ c \in Seq(Loosening({p}))
  <2>1. Tell(p, "mode", "asleep") \in Seq(Loosening({p})) /\ Tell(p, "mode", "reset") \in Seq(Loosening({p}))
    BY <1>1, AllWords, TellLoosens
  <2> QED
    BY <2>1, Optional
<1>4. ControlWorkflowApply(p, f) = (a \o b) \o c
  BY DEF ControlWorkflowApply
<1>5. CASE {"send-sleep", "factory-reset"} \cap f = {}
  <2>1. b = <<>> /\ c = <<>>
    BY <1>5 DEF If
  <2>2. Tame(d, {p})
    <3>1. Tame(Asks(p, <<"name", "led", "plock", "baud">>), {p})
      <4>1. <<"name", "led", "plock", "baud">> \in Seq(Words)
        BY AllWords, Four
      <4> QED
        BY <1>1, <4>1, AsksTame
    <3>2. Tame(SetCodes(p, f), {p})
      BY <1>1, SetCodesTame
    <3>3. Tame(Ask(p, "codes"), {p})
      <4>1. Ask(p, "codes") \in Seq(Asking({p}) \cap Looking({p}))
        BY <1>1, AllWords, AskAsks
      <4>2. Asking({p}) \cap Looking({p}) \subseteq Asking({p})
        OBVIOUS
      <4> QED
        BY <4>1, <4>2, SeqMonotonic, AskingTame
    <3>4. Tame(If("set-response-codes" \in f, SetCodes(p, f) \o Ask(p, "codes")), {p})
      BY <3>2, <3>3, TameJoint, TameIf
    <3>5. Tame(Asks(p, <<"name", "led", "plock", "baud">>)
               \o If("set-response-codes" \in f, SetCodes(p, f) \o Ask(p, "codes")), {p})
      BY <3>1, <3>4, TameJoint
    <3> QED
      BY <3>5, TameIf DEF ControlWorkflowAfter
  <2> HIDE DEF a, b, c, d
  <2>3. (a \o b) \o c = a
    BY <1>2, <2>1, TameIsSteps, ConcatEmptySeq
  <2> QED
    BY <1>2, <1>4, <2>2, <2>3, TameJoint, TameFlows DEF d
<1>6. CASE {"send-sleep", "factory-reset"} \cap f # {}
  <2>1. d = <<>>
    BY <1>6 DEF ControlWorkflowAfter, If
  <2> HIDE DEF a, b, c, d
  <2>2. Flows((a \o b) \o c, {p})
    BY <1>2, <1>3, TameFlows, FlowsThen
  <2>3. ((a \o b) \o c) \o <<>> = (a \o b) \o c
    BY <2>2, FlowsIsSteps, ConcatEmptySeq
  <2> QED
    BY <1>4, <2>1, <2>2, <2>3 DEF d
<1> QED
  BY <1>5, <1>6

(* Every script for a UART. *)
LEMMA ScriptsReady ==
  ASSUME NEW n, NEW p \in MadeFor(n), NEW f \in OptionsOf(n)
  PROVE  Ready(Script(n, p, f), Uses(n, p))
<1>1. ASSUME n = "read_ph" PROVE Ready(Script(n, p, f), Uses(n, p))
  <2>1. p = "PH" /\ Uses(n, p) = {"PH"}
    BY <1>1 DEF MadeFor, Uses, Products
  <2> QED
    BY <1>1, <2>1, ReadPhOpens, OpenedReady DEF Script
<1>2. ASSUME n = "read_orp" PROVE Ready(Script(n, p, f), Uses(n, p))
  <2>1. p = "ORP" /\ Uses(n, p) = {"ORP"}
    BY <1>2 DEF MadeFor, Uses, Products
  <2> QED
    BY <1>2, <2>1, ReadOrpOpens, OpenedReady DEF Script
<1>3. ASSUME n = "read_ec" PROVE Ready(Script(n, p, f), Uses(n, p))
  <2>1. p = "EC" /\ Uses(n, p) = {"EC"}
    BY <1>3 DEF MadeFor, Uses, Products
  <2> QED
    BY <1>3, <2>1, ReadEcOpens, OpenedReady DEF Script
<1>4. ASSUME n = "read_do" PROVE Ready(Script(n, p, f), Uses(n, p))
  <2>1. p = "DO" /\ Uses(n, p) = {"DO"}
    BY <1>4 DEF MadeFor, Uses, Products
  <2> QED
    BY <1>4, <2>1, ReadDoOpens, OpenedReady DEF Script
<1>5. ASSUME n = "read_hum" PROVE Ready(Script(n, p, f), Uses(n, p))
  <2>1. p = "HUM" /\ Uses(n, p) = {"HUM"}
    BY <1>5 DEF MadeFor, Uses, Products
  <2> QED
    BY <1>5, <2>1, ReadHumOpens, OpenedReady DEF Script
<1>6. ASSUME n = "read_rtd" PROVE Ready(Script(n, p, f), Uses(n, p))
  <2>1. p = "RTD" /\ Uses(n, p) = {"RTD"}
    BY <1>6 DEF MadeFor, Uses, Products
  <2> QED
    BY <1>6, <2>1, ReadRtdOpens, OpenedReady DEF Script
<1>7. ASSUME n = "ph_temp_comp_from_rtd" PROVE Ready(Script(n, p, f), Uses(n, p))
  <2>1. p \in Products /\ Uses(n, p) = {"RTD", "PH"}
    BY <1>7 DEF MadeFor, Uses, Products
  <2> QED
    BY <1>7, <2>1, PhTempCompLookOpens, PhTempCompApplyTame, TameFlows, AppliedReady DEF Script
<1>8. ASSUME n = "ec_temp_comp_from_rtd" PROVE Ready(Script(n, p, f), Uses(n, p))
  <2>1. p \in Products /\ Uses(n, p) = {"RTD", "EC"}
    BY <1>8 DEF MadeFor, Uses, Products
  <2> QED
    BY <1>8, <2>1, EcTempCompLookOpens, EcTempCompApplyTame, TameFlows, AppliedReady DEF Script
<1>9. ASSUME n = "do_temp_comp_from_rtd" PROVE Ready(Script(n, p, f), Uses(n, p))
  <2>1. p \in Products /\ Uses(n, p) = {"RTD", "DO"}
    BY <1>9 DEF MadeFor, Uses, Products
  <2> QED
    BY <1>9, <2>1, DoTempCompLookOpens, DoTempCompApplyTame, TameFlows, AppliedReady DEF Script
<1>10. ASSUME n = "do_salinity_comp_from_ec" PROVE Ready(Script(n, p, f), Uses(n, p))
  <2>1. p \in Products /\ Uses(n, p) = {"EC", "DO"}
    BY <1>10 DEF MadeFor, Uses, Products
  <2> QED
    BY <1>10, <2>1, DoSalinityCompLookOpens, DoSalinityCompApplyTame, TameFlows, AppliedReady DEF Script
<1>11. ASSUME n = "do_full_compensation_chain" PROVE Ready(Script(n, p, f), Uses(n, p))
  <2>1. p \in Products /\ Uses(n, p) = {"RTD", "EC", "DO"}
    BY <1>11 DEF MadeFor, Uses, Products
  <2> QED
    BY <1>11, <2>1, DoFullChainLookOpens, DoFullChainApplyTame, TameFlows, AppliedReady DEF Script
<1>12. ASSUME n = "ph_calibration" PROVE Ready(Script(n, p, f), Uses(n, p))
  <2>1. p = "PH" /\ Uses(n, p) = {"PH"}
    BY <1>12 DEF MadeFor, Uses, Products
  <2>2. StepOf(f) \in Words
    <3>1. f \in PhCalibrationOptions
      BY <1>12 DEF OptionsOf
    <3> QED
      BY <3>1, StepOfIs DEF PhCalibrationOptions, Steps
  <2> QED
    BY <1>12, <2>1, <2>2, PhCalibrationLookOpens, PhCalibrationApplyTame, TameFlows, AppliedReady DEF Script
<1>13. ASSUME n = "orp_calibration" PROVE Ready(Script(n, p, f), Uses(n, p))
  <2>1. p = "ORP" /\ Uses(n, p) = {"ORP"}
    BY <1>13 DEF MadeFor, Uses, Products
  <2>2. StepOf(f) \in Words
    <3>1. f \in OrpCalibrationOptions
      BY <1>13 DEF OptionsOf
    <3> QED
      BY <3>1, StepOfIs DEF OrpCalibrationOptions, Steps
  <2> QED
    BY <1>13, <2>1, <2>2, OrpCalibrationLookOpens, OrpCalibrationApplyTame, TameFlows, AppliedReady DEF Script
<1>14. ASSUME n = "ec_calibration" PROVE Ready(Script(n, p, f), Uses(n, p))
  <2>1. p = "EC" /\ Uses(n, p) = {"EC"}
    BY <1>14 DEF MadeFor, Uses, Products
  <2>2. StepOf(f) \in Words
    <3>1. f \in EcCalibrationOptions
      BY <1>14 DEF OptionsOf
    <3> QED
      BY <3>1, StepOfIs DEF EcCalibrationOptions, Steps
  <2> QED
    BY <1>14, <2>1, <2>2, EcCalibrationLookOpens, EcCalibrationApplyTame, TameFlows, AppliedReady DEF Script
<1>15. ASSUME n = "do_calibration" PROVE Ready(Script(n, p, f), Uses(n, p))
  <2>1. p = "DO" /\ Uses(n, p) = {"DO"}
    BY <1>15 DEF MadeFor, Uses, Products
  <2>2. StepOf(f) \in Words
    <3>1. f \in DoCalibrationOptions
      BY <1>15 DEF OptionsOf
    <3> QED
      BY <3>1, StepOfIs DEF DoCalibrationOptions, Steps
  <2> QED
    BY <1>15, <2>1, <2>2, DoCalibrationLookOpens, DoCalibrationApplyTame, TameFlows, AppliedReady DEF Script
<1>16. ASSUME n = "rtd_calibration" PROVE Ready(Script(n, p, f), Uses(n, p))
  <2>1. p = "RTD" /\ Uses(n, p) = {"RTD"}
    BY <1>16 DEF MadeFor, Uses, Products
  <2>2. StepOf(f) \in Words
    <3>1. f \in RtdCalibrationOptions
      BY <1>16 DEF OptionsOf
    <3> QED
      BY <3>1, StepOfIs DEF RtdCalibrationOptions, Steps
  <2> QED
    BY <1>16, <2>1, <2>2, RtdCalibrationLookOpens, RtdCalibrationApplyTame, TameFlows, AppliedReady DEF Script
<1>17. ASSUME n = "hum_temperature_calibration" PROVE Ready(Script(n, p, f), Uses(n, p))
  <2>1. p = "HUM" /\ Uses(n, p) = {"HUM"}
    BY <1>17 DEF MadeFor, Uses, Products
  <2>2. StepOf(f) \in Words
    <3>1. f \in HumCalibrationOptions
      BY <1>17 DEF OptionsOf
    <3> QED
      BY <3>1, StepOfIs DEF HumCalibrationOptions, Steps
  <2> QED
    BY <1>17, <2>1, <2>2, HumCalibrationLookOpens, HumCalibrationApplyTame, TameFlows, AppliedReady DEF Script
<1>18. ASSUME n = "ph_workflow" PROVE Ready(Script(n, p, f), Uses(n, p))
  <2>1. p = "PH" /\ Uses(n, p) = {"PH"}
    BY <1>18 DEF MadeFor, Uses, Products
  <2> QED
    BY <1>18, <2>1, PhWorkflowLookOpens, PhWorkflowApplyTame, TameFlows, AppliedReady DEF Script
<1>19. ASSUME n = "orp_workflow" PROVE Ready(Script(n, p, f), Uses(n, p))
  <2>1. p = "ORP" /\ Uses(n, p) = {"ORP"}
    BY <1>19 DEF MadeFor, Uses, Products
  <2> QED
    BY <1>19, <2>1, OrpWorkflowLookOpens, OrpWorkflowApplyTame, TameFlows, AppliedReady DEF Script
<1>20. ASSUME n = "ec_workflow" PROVE Ready(Script(n, p, f), Uses(n, p))
  <2>1. p = "EC" /\ Uses(n, p) = {"EC"}
    BY <1>20 DEF MadeFor, Uses, Products
  <2> QED
    BY <1>20, <2>1, EcWorkflowLookOpens, EcWorkflowApplyTame, TameFlows, AppliedReady DEF Script
<1>21. ASSUME n = "do_workflow" PROVE Ready(Script(n, p, f), Uses(n, p))
  <2>1. p = "DO" /\ Uses(n, p) = {"DO"}
    BY <1>21 DEF MadeFor, Uses, Products
  <2> QED
    BY <1>21, <2>1, DoWorkflowLookOpens, DoWorkflowApplyTame, TameFlows, AppliedReady DEF Script
<1>22. ASSUME n = "hum_workflow" PROVE Ready(Script(n, p, f), Uses(n, p))
  <2>1. p = "HUM" /\ Uses(n, p) = {"HUM"}
    BY <1>22 DEF MadeFor, Uses, Products
  <2> QED
    BY <1>22, <2>1, HumWorkflowLookOpens, HumWorkflowApplyTame, TameFlows, AppliedReady DEF Script
<1>23. ASSUME n = "rtd_workflow" PROVE Ready(Script(n, p, f), Uses(n, p))
  <2>1. p = "RTD" /\ Uses(n, p) = {"RTD"}
    BY <1>23 DEF MadeFor, Uses, Products
  <2> QED
    BY <1>23, <2>1, RtdWorkflowLookOpens, RtdWorkflowApplyTame, TameFlows, AppliedReady DEF Script
<1>24. ASSUME n = "control_workflow" PROVE Ready(Script(n, p, f), Uses(n, p))
  <2>1. p \in Products /\ Uses(n, p) = {p}
    BY <1>24 DEF MadeFor, Uses, Products
  <2> QED
    BY <1>24, <2>1, ControlWorkflowLookOpens, ControlWorkflowFlows, AppliedReady DEF Script
<1>25. ASSUME n = "transport_switch" PROVE Ready(Script(n, p, f), Uses(n, p))
  <2>1. p \in Products /\ Uses(n, p) = {p}
    BY <1>25 DEF MadeFor, Uses, Products
  <2> QED
    BY <1>25, <2>1, TransportSwitchLookOpens, TransportSwitchFlows, AppliedReady DEF Script
<1>26. ASSUME n = "calibration_transfer" PROVE Ready(Script(n, p, f), Uses(n, p))
  <2>1. p \in Products /\ Uses(n, p) = {p}
    BY <1>26 DEF MadeFor, Uses, Products
  <2> QED
    BY <1>26, <2>1, CalibrationTransferReady DEF Script
<1>27. ASSUME n = "inspect_device" PROVE Ready(Script(n, p, f), Uses(n, p))
  <2>1. p \in Products /\ Uses(n, p) = {p}
    BY <1>27 DEF MadeFor, Uses, Products
  <2> QED
    BY <1>27, <2>1, InspectDeviceOpens, OpenedReady DEF Script
<1>28. ASSUME n = "readiness_check" PROVE Ready(Script(n, p, f), Uses(n, p))
  <2>1. p \in Products /\ Uses(n, p) = {p}
    BY <1>28 DEF MadeFor, Uses, Products
  <2> QED
    BY <1>28, <2>1, ReadinessCheckOpens, OpenedReady DEF Script
<1> QED
  BY <1>1, <1>2, <1>3, <1>4, <1>5, <1>6, <1>7, <1>8, <1>9, <1>10,
     <1>11, <1>12, <1>13, <1>14, <1>15, <1>16, <1>17, <1>18, <1>19, <1>20,
     <1>21, <1>22, <1>23, <1>24, <1>25, <1>26, <1>27, <1>28 DEF MadeFor

-----------------------------------------------------------------------------
(***************************************************************************)
(* A program in step with the circuits it talks to over a UART.            *)
(***************************************************************************)
(* Nothing is on the line but what the program is about to discard, or to  *)
(* read as an acknowledgement, unless nothing is asked any more.           *)
InStep(p) ==
  \/ line[p] = <<>>
  \/ After(todo, Discards(p), Needy(p))
  \/ Due("ack") /\ Head(todo).on = p /\ Tail(line[p]) = <<>>

Stopped == exit # "running" => todo = <<>>

(* A command that did not take effect is found out by the next step.       *)
Refused == Due("ack") /\ ~Matches(line[Head(todo).on], <<"OK">>)

FoundOut == missed \subseteq {"mode", "import"} \/ exit = "error" \/ Refused

Steady ==
  bus = "uart" =>
    /\ Flows(todo, DOMAIN config) /\ (\A p \in DOMAIN config : InStep(p))
    /\ Stopped /\ FoundOut

LEMMA FlowsTail ==
  ASSUME NEW cs, NEW s, Flows(s, cs), s # <<>>
  PROVE  /\ Flows(Tail(s), cs) /\ Head(s) \in Stopping(cs) /\ Head(s) \in AnyStep
         /\ Head(s).failing = "stops" /\ Head(s).on \in cs
<1>1. s \in Seq(AnyStep) /\ s \in Seq(Stopping(cs))
  BY FlowsIsSteps DEF Flows
<1>2. Tail(s) \in Seq(Stopping(cs)) /\ Head(s) \in Stopping(cs)
  BY <1>1, HeadTailProperties
<1>3. Acked(Tail(s)) /\ \A p \in Words : Never(Tail(s), Loose(p), Needy(p))
  BY <1>1, AckedTail, NeverTail DEF Flows
<1> QED
  BY <1>2, <1>3 DEF Flows, Stopping, MayStop

LEMMA FlowsLoose ==
  ASSUME NEW cs, NEW s, Flows(s, cs), s # <<>>, NEW p \in Words, Head(s) \in Loose(p)
  PROVE  ~Has(s, Needy(p)) /\ ~Has(Tail(s), Needy(p))
<1>1. s \in Seq(AnyStep)
  BY FlowsIsSteps
<1>2. ~Has(Tail(s), Needy(p))
  BY <1>1, NeverTail DEF Flows
<1>3. Head(s) \notin Needy(p)
  BY DEF Loose, Needy, Checked
<1> QED
  BY <1>1, <1>2, <1>3, HasTail

LEMMA ExportLoose ==
  ASSUME NEW s \in AnyStep, s.op \in {"export", "chunk", "result"}
  PROVE  s \in Loose(s.on)
  BY DEF Loose

LEMMA ChunkPrefix ==
  ASSUME NEW s \in Seq(AnyStep), s # <<>>
  PROVE  LET c == Chunk(Head(s)) IN
         /\ <<c>> \in Seq(AnyStep) /\ Len(<<c>>) = 1 /\ <<c>>[1] = c /\ c \in AnyStep
         /\ c.op = "chunk" /\ c.on = Head(s).on /\ c.failing = Head(s).failing
<1> DEFINE c == Chunk(Head(s))
<1>1. c \in AnyStep /\ c.op = "chunk" /\ c.on = Head(s).on /\ c.failing = Head(s).failing
  BY TailParts, ChunkIsStep
<1> HIDE DEF c
<1>2. <<c>> \in Seq(AnyStep) /\ Len(<<c>>) = 1 /\ <<c>>[1] = c
  BY <1>1, One
<1> QED
  BY <1>1, <1>2 DEF c

LEMMA ChunkNeedsNothing ==
  ASSUME NEW s \in Seq(AnyStep), s # <<>>, NEW p
  PROVE  ~Has(<<Chunk(Head(s))>>, Needy(p)) /\ Acked(<<Chunk(Head(s))>>)
<1> DEFINE c == Chunk(Head(s))
           t == <<c>>
<1>1. c \in AnyStep /\ c.op = "chunk" /\ Len(t) = 1 /\ t[1] = c
  BY ChunkPrefix
<1>2. 1 .. 1 = {1}
  OBVIOUS
<1> HIDE DEF c, t
<1>3. ~Has(t, Needy(p))
  BY <1>1, <1>2 DEF Has, Needy, Checked
<1>4. Acked(t)
  BY <1>1, <1>2 DEF Acked, Checked
<1> QED
  BY <1>3, <1>4 DEF c, t

LEMMA FlowsChunk ==
  ASSUME NEW cs, NEW s, Flows(s, cs), s # <<>>, Head(s).op = "export"
  PROVE  Flows(<<Chunk(Head(s))>> \o s, cs)
<1> DEFINE c == Chunk(Head(s))
           t == <<c>>
<1>1. s \in Seq(AnyStep)
  BY FlowsIsSteps
<1>2. Head(s) \in AnyStep /\ Head(s).on \in cs /\ Head(s).failing = "stops"
  BY FlowsTail
<1>3. t \in Seq(AnyStep) /\ c \in AnyStep /\ c.op = "chunk" /\ c.on = Head(s).on /\ c.failing = "stops"
  BY <1>1, <1>2, ChunkPrefix
<1>4. Acked(t)
  BY <1>1, ChunkNeedsNothing
<1>5. \A p : ~Has(t, Needy(p))
  BY <1>1, ChunkNeedsNothing
<1>6. t \in Seq(Stopping(cs))
  <2> HIDE DEF c
  <2>1. c \in Stopping(cs)
    BY <1>2, <1>3 DEF Stopping, MayStop
  <2> QED
    BY <2>1, One
<1>7. Len(t) = 1 /\ t[1] = c /\ 1 .. 1 = {1}
  BY <1>1, ChunkPrefix
<1> HIDE DEF c, t
<1>8. t \o s \in Seq(Stopping(cs))
  BY <1>6, Joint DEF Flows
<1>9. Acked(t \o s)
  BY <1>1, <1>3, <1>4, AckedJoint DEF Flows
<1>10. ASSUME NEW p \in Words PROVE Never(t \o s, Loose(p), Needy(p))
  <2>1. Never(t, Loose(p), Needy(p)) /\ Never(s, Loose(p), Needy(p))
    BY <1>5, LacksOrders DEF Flows
  <2>2. ASSUME Head(s).on = p PROVE ~Has(s, Needy(p))
    <3>1. Head(s) \in Loose(p)
      BY <1>2, <2>2, ExportLoose
    <3> QED
      BY <3>1, FlowsLoose
  <2>3. ASSUME Head(s).on # p PROVE ~Has(t, Loose(p))
    BY <1>3, <1>7, <2>3 DEF Has, Loose
  <2> QED
    BY <1>1, <1>3, <2>1, <2>2, <2>3, NeverJoint
<1> QED
  BY <1>8, <1>9, <1>10 DEF Flows, c, t

LEMMA FlowsMove ==
  ASSUME NEW cs, Flows(todo, cs), Moves
  PROVE  Flows(todo', cs)
<1>1. CASE UNCHANGED todo
  BY <1>1
<1>2. CASE todo' = <<>>
  BY <1>2, NothingFlows
<1>3. CASE todo # <<>> /\ todo' = Tail(todo)
  BY <1>3, FlowsTail
<1>4. CASE Due("export") /\ todo' = <<Chunk(Head(todo))>> \o todo
  <2>1. todo # <<>> /\ Head(todo).op = "export"
    BY <1>4 DEF Due
  <2> QED
    BY <1>4, <2>1, FlowsChunk
<1> QED
  BY <1>1, <1>2, <1>3, <1>4 DEF Moves

(* After the last step nothing is needed. *)
LEMMA NothingNeeded ==
  ASSUME NEW A, NEW B
  PROVE  After(<<>>, A, B)
<1>1. Len(<<>>) = 0 /\ 1 .. 0 = {}
  OBVIOUS
<1> QED
  BY <1>1 DEF After

(* The circuits a step is not about. *)
LEMMA OthersInStep ==
  ASSUME Flows(todo, DOMAIN config), NEW p \in Words, InStep(p), Moves,
         todo # <<>> => Head(todo).on # p, line'[p] = line[p]
  PROVE  InStep(p)'
<1>1. todo \in Seq(AnyStep)
  BY FlowsIsSteps
<1>2. CASE line[p] = <<>>
  BY <1>2 DEF InStep
<1>3. CASE After(todo, Discards(p), Needy(p))
  <2>1. CASE UNCHANGED todo
    BY <1>3, <2>1 DEF InStep
  <2>2. CASE todo' = <<>>
    BY <2>2, NothingNeeded DEF InStep
  <2>3. CASE todo # <<>> /\ todo' = Tail(todo)
    <3>1. Head(todo) \notin Discards(p)
      BY <2>3 DEF Discards
    <3> QED
      BY <1>1, <1>3, <2>3, <3>1, AfterTail DEF InStep
  <2>4. CASE Due("export") /\ todo' = <<Chunk(Head(todo))>> \o todo
    <3>1. todo # <<>>
      BY <2>4 DEF Due
    <3> DEFINE t == <<Chunk(Head(todo))>>
    <3>2. t \in Seq(AnyStep) /\ ~Has(t, Needy(p))
      BY <1>1, <3>1, ChunkPrefix, ChunkNeedsNothing
    <3> HIDE DEF t
    <3>3. After(t, Discards(p), Needy(p))
      BY <3>2, LacksOrders
    <3>4. After(t \o todo, Discards(p), Needy(p))
      BY <1>1, <1>3, <3>2, <3>3, AfterJoint
    <3> QED
      BY <2>4, <3>4 DEF InStep, t
  <2> QED
    BY <2>1, <2>2, <2>3, <2>4 DEF Moves
<1>4. CASE Due("ack") /\ Head(todo).on = p
  BY <1>4 DEF Due
<1> QED
  BY <1>2, <1>3, <1>4 DEF InStep

(* A step that leaves the lines alone. *)
LEMMA PassingInStep ==
  ASSUME Flows(todo, DOMAIN config), NEW p \in Words, InStep(p), todo # <<>>,
         todo' = Tail(todo) \/ todo' = <<>>,
         line'[p] = line[p] \/ line'[p] = <<>>, Head(todo) \notin Discards(p), ~Due("ack")
  PROVE  InStep(p)'
<1>1. todo \in Seq(AnyStep)
  BY FlowsIsSteps
<1>2. CASE line[p] = <<>>
  BY <1>2 DEF InStep
<1>3. CASE After(todo, Discards(p), Needy(p))
  <2>1. After(Tail(todo), Discards(p), Needy(p))
    BY <1>1, <1>3, AfterTail
  <2>2. After(<<>>, Discards(p), Needy(p))
    BY NothingNeeded
  <2>3. After(todo', Discards(p), Needy(p))
    BY <2>1, <2>2
  <2> QED
    BY <2>3 DEF InStep
<1> QED
  BY <1>2, <1>3 DEF InStep

LEMMA NeedyLine ==
  ASSUME Flows(todo, DOMAIN config), NEW p \in Words, InStep(p), todo # <<>>, Head(todo) \in Needy(p)
  PROVE  line[p] = <<>>
<1>1. todo \in Seq(AnyStep)
  BY FlowsIsSteps
<1>2. ~After(todo, Discards(p), Needy(p))
  BY <1>1, AfterTail
<1>3. ~Due("ack")
  BY DEF Due, Needy, Checked
<1> QED
  BY <1>2, <1>3 DEF InStep

LEMMA LineIs ==
  ASSUME NEW kind, NEW what, NEW value
  PROVE  /\ Len(Line(kind, what, value)) = 1 /\ Line(kind, what, value)[1].kind = kind
         /\ Line(kind, what, value) # <<>> /\ <<>> \o Line(kind, what, value) = Line(kind, what, value)
         /\ Line(kind, what, value) \in Seq({Line(kind, what, value)[1]})
         /\ Tail(Line(kind, what, value)) = <<>>
<1> DEFINE r == [kind |-> kind, what |-> what, value |-> value]
<1>1. Line(kind, what, value) = <<r>> /\ r.kind = kind
  BY DEF Line
<1> HIDE DEF r
<1>2. <<r>> \in Seq({r}) /\ Len(<<r>>) = 1 /\ <<r>>[1] = r /\ <<r>> # <<>>
  OBVIOUS
<1>3. <<>> \o <<r>> = <<r>>
  BY <1>2, ConcatEmptySeq
<1>4. Tail(<<r>>) = <<>>
  <2>1. Tail(<<r>>) \in Seq({r}) /\ Len(Tail(<<r>>)) = 0
    BY <1>2, HeadTailProperties
  <2> QED
    BY <2>1, EmptySeq
<1> QED
  BY <1>1, <1>2, <1>3, <1>4

(* The reply to a query has no more lines than are read.                   *)
LEMMA ReplyFits ==
  ASSUME bus = "uart", NEW p, NEW what, NEW codes
  PROVE  /\ Len(Reply(p, what, codes)) \in 0 .. Len(Expected(p, what))
         /\ <<>> \o Reply(p, what, codes) = Reply(p, what, codes)
         /\ Len(Expected(p, what)) \in {1, 2}
<1> DEFINE data == Line("DATA", what, Answer(p, what))
           yes == Line("OK", what, "none")
           ok == IF bus = "uart" /\ codes = "on" /\ what # "codes" THEN yes ELSE <<>>
           S == {data[1], yes[1]}
<1>1. Reply(p, what, codes) = IF p = "PH" /\ what = "read_compensated" THEN ok \o data ELSE data \o ok
  BY DEF Reply
<1>2. data \in Seq({data[1]}) /\ Len(data) = 1 /\ yes \in Seq({yes[1]}) /\ Len(yes) = 1
  BY LineIs
<1> HIDE DEF data, yes
<1>3. data \in Seq(S) /\ yes \in Seq(S)
  BY <1>2, SeqMonotonic
<1>4. /\ ok \in Seq(S) /\ Len(ok) \in {0, 1}
      /\ what = "codes" => Len(ok) = 0
  BY <1>2, <1>3, EmptySeq
<1> HIDE DEF S, ok
<1>5. /\ ok \o data \in Seq(S) /\ Len(ok \o data) = Len(ok) + 1
      /\ data \o ok \in Seq(S) /\ Len(data \o ok) = 1 + Len(ok)
  BY <1>2, <1>3, <1>4, ConcatProperties
<1>6. Reply(p, what, codes) \in Seq(S) /\ Len(Reply(p, what, codes)) = 1 + Len(ok)
  BY <1>1, <1>4, <1>5
<1>7. Len(Expected(p, what)) \in {1, 2} /\ (what # "codes" => Len(Expected(p, what)) = 2)
  BY DEF Expected
<1>8. <<>> \o Reply(p, what, codes) = Reply(p, what, codes)
  BY <1>6, ConcatEmptySeq
<1> DEFINE n == Len(Expected(p, what))
           m == Len(Reply(p, what, codes))
           k == Len(ok)
<1>9. n \in {1, 2} /\ (what # "codes" => n = 2) /\ m = 1 + k /\ k \in {0, 1} /\ (what = "codes" => k = 0)
  BY <1>4, <1>6, <1>7
<1> HIDE DEF n, m, k
<1>10. m \in 0 .. n
  <2>1. CASE what = "codes"
    BY <1>9, <2>1
  <2>2. CASE what # "codes"
    BY <1>9, <2>2
  <2> QED
    BY <2>1, <2>2
<1> QED
  BY <1>7, <1>8, <1>10 DEF n, m

LEMMA TakenAll ==
  ASSUME NEW l, NEW n \in Nat, Len(l) \in 0 .. n
  PROVE  SubSeq(l, n + 1, Len(l)) = <<>>
  OBVIOUS

(* A failed step of a program on a UART ends it. *)
LEMMA FailsEnds ==
  ASSUME NEW cs, Flows(todo, cs), todo # <<>>, Fails
  PROVE  todo' = <<>> /\ exit' = "error"
  BY FlowsTail DEF Fails, Stops

(* A query either ends the program or takes all the circuit has sent. *)
LEMMA QueryTakes ==
  ASSUME bus = "uart", Flows(todo, DOMAIN config), NEW p \in Words, p \in DOMAIN line, InStep(p), Query,
         Head(todo).on = p
  PROVE  (todo' = <<>> /\ exit' = "error") \/ (Proceeds /\ line'[p] = <<>>)
<1> DEFINE s == Head(todo)
           kinds == Expected(p, s.what)
           n == Len(kinds)
<1>1. todo # <<>> /\ s.op = "ask" /\ s \in AnyStep
  BY FlowsTail DEF Query, Due
<1>2. s \in Needy(p)
  BY <1>1 DEF Needy
<1>3. line[p] = <<>>
  BY <1>1, <1>2, NeedyLine
<1>4. CASE Fails
  BY <1>1, <1>4, FailsEnds
<1>5. CASE ~Fails
  <2>1. PICK l \in {<<>> \o Reply(p, s.what, config[p].codes), <<>> \o Line("ERROR", s.what, "none"), <<>>} :
          /\ Matches(l, kinds)
          /\ line' = [line EXCEPT ![p] = SubSeq(l, n + 1, Len(l))]
          /\ Proceeds
    BY <1>3, <1>5 DEF Query
  <2>2. Len(l) \in 0 .. n /\ n \in Nat
    <3>1. Len(Reply(p, s.what, config[p].codes)) \in 0 .. n /\ n \in {1, 2}
          /\ <<>> \o Reply(p, s.what, config[p].codes) = Reply(p, s.what, config[p].codes)
      BY ReplyFits
    <3>2. Len(<<>> \o Line("ERROR", s.what, "none")) = 1
      <4> DEFINE e == Line("ERROR", s.what, "none")
      <4>1. Len(e) = 1 /\ <<>> \o e = e
        BY LineIs
      <4> HIDE DEF e
      <4>2. Len(<<>> \o e) = 1
        BY <4>1
      <4> QED
        BY <4>2 DEF e
    <3>3. Len(<<>>) = 0
      OBVIOUS
    <3> HIDE DEF n
    <3> QED
      BY <2>1, <3>1, <3>2, <3>3
  <2>3. line'[p] = <<>>
    BY <2>1, <2>2, TakenAll
  <2> QED
    BY <2>1, <2>3
<1> QED
  BY <1>4, <1>5

LEMMA QueryInStep ==
  ASSUME bus = "uart", Flows(todo, DOMAIN config), NEW p \in Words, p \in DOMAIN line, InStep(p), Query,
         Head(todo).on = p
  PROVE  InStep(p)'
  BY QueryTakes, NothingNeeded DEF InStep

LEMMA MatchesOk ==
  ASSUME NEW l, Matches(l, <<"OK">>)
  PROVE  l[1].kind = "OK"
<1>1. 1 \in DOMAIN <<"OK">> /\ <<"OK">>[1] = "OK"
  OBVIOUS
<1> QED
  BY <1>1 DEF Matches

LEMMA NextIsAck ==
  ASSUME NEW p \in Words, Flows(todo, DOMAIN config), Due("tell"), Head(todo) \in Checked(p),
         Proceeds, UNCHANGED known
  PROVE  Due("ack")' /\ Head(todo').on = p
<1>1. todo # <<>> /\ todo \in Seq(AnyStep) /\ todo' = Tail(todo)
  BY FlowsIsSteps DEF Due, Proceeds
<1>2. todo' # <<>> /\ Acks(Head(todo), Head(todo'))
  BY <1>1, AckedTail DEF Flows
<1>3. Head(todo').op = "ack" /\ Head(todo').on = p /\ Head(todo').on = Head(todo).on
      /\ Head(todo').when = Head(todo).when
  BY <1>2 DEF Acks, Checked
<1>4. Holds(Head(todo).when, Head(todo).on)
  BY DEF Due
<1>5. PICK w : w = Head(todo).when
  OBVIOUS
<1>6. Holds(w, p)
  BY <1>3, <1>4, <1>5
<1>7. Holds(w, p)'
  BY <1>6 DEF Holds
<1>8. (Head(todo).when = w /\ Head(todo).on = p)'
  BY <1>3, <1>5
<1>9. Holds(Head(todo).when, Head(todo).on)'
  BY <1>7, <1>8
<1>10. (todo # <<>> /\ Head(todo).op = "ack")'
  BY <1>2, <1>3
<1> QED
  BY <1>3, <1>9, <1>10 DEF Due

(* A command ends the program, or its acknowledgement is read next. *)
LEMMA CommandAwaits ==
  ASSUME bus = "uart", Flows(todo, DOMAIN config), NEW p \in Words, p \in DOMAIN line, InStep(p),
         Command, Head(todo) \in Checked(p)
  PROVE  \/ todo' = <<>> /\ exit' = "error"
         \/ /\ Due("ack")' /\ Head(todo').on = p /\ (line'[p] = <<>> \/ Tail(line'[p]) = <<>>)
            /\ missed' = missed \/ Refused'
<1> DEFINE s == Head(todo)
<1>1. todo # <<>> /\ Due("tell") /\ UNCHANGED known
  BY DEF Command, Due
<1>2. s.on = p /\ s.what \notin {"mode", "import"} /\ s \in Needy(p)
  BY DEF Checked, Needy
<1>3. line[p] = <<>>
  BY <1>1, <1>2, NeedyLine
<1>4. \/ /\ Proceeds /\ missed' = missed
         /\ \E ack \in Acknowledged(p, s.what, Sent(s)) \cup {<<>>} : line' = [line EXCEPT ![p] = <<>> \o ack]
      \/ /\ Proceeds
         /\ \E kind \in {"ERROR", "WAKE"} :
              line' = [line EXCEPT ![p] = <<>> \o Line(kind, s.what, "none")]
      \/ Fails
  BY <1>2, <1>3 DEF Command
<1>5. CASE Fails
  BY <1>1, <1>5, FailsEnds
<1>6. ASSUME Proceeds PROVE Due("ack")' /\ Head(todo').on = p
  BY <1>1, <1>6, NextIsAck
<1>7. ASSUME Proceeds, missed' = missed, NEW ack \in Acknowledged(p, s.what, Sent(s)) \cup {<<>>},
             line' = [line EXCEPT ![p] = <<>> \o ack]
      PROVE  line'[p] = <<>> \/ Tail(line'[p]) = <<>>
  <2>1. ack \in {<<>>, Line("OK", s.what, "none")}
    BY <1>2 DEF Acknowledged
  <2>2. CASE ack = <<>>
    <3>1. <<>> \o <<>> = <<>>
      BY ConcatEmptySeq, EmptySeq
    <3>2. line'[p] = <<>>
      BY <1>7, <2>2, <3>1
    <3> QED
      BY <3>2
  <2>3. CASE ack = Line("OK", s.what, "none")
    <3> DEFINE e == Line("OK", s.what, "none")
    <3>1. <<>> \o e = e /\ Tail(e) = <<>>
      BY LineIs
    <3> HIDE DEF e
    <3>2. Tail(line'[p]) = <<>>
      BY <1>7, <2>3, <3>1 DEF e
    <3> QED
      BY <3>2
  <2> QED
    BY <2>1, <2>2, <2>3
<1>8. ASSUME Proceeds, NEW kind \in {"ERROR", "WAKE"},
             line' = [line EXCEPT ![p] = <<>> \o Line(kind, s.what, "none")]
      PROVE  Tail(line'[p]) = <<>> /\ Refused'
  <2> DEFINE l == Line(kind, s.what, "none")
  <2>1. <<>> \o l = l /\ Tail(l) = <<>> /\ l[1].kind = kind
    BY LineIs
  <2> HIDE DEF l
  <2>2. line'[p] = l
    BY <1>8, <2>1 DEF l
  <2>3. Due("ack")' /\ Head(todo').on = p
    BY <1>6, <1>8
  <2>4. ~Matches(line'[p], <<"OK">>)
    BY <2>1, <2>2, MatchesOk
  <2>5. Matches(line'[p], <<"OK">>) = Matches(line[p], <<"OK">>)'
    BY DEF Matches
  <2> QED
    BY <2>1, <2>2, <2>3, <2>4, <2>5 DEF Refused
<1> QED
  BY <1>4, <1>5, <1>6, <1>7, <1>8

LEMMA CommandInStep ==
  ASSUME bus = "uart", Flows(todo, DOMAIN config), NEW p \in Words, p \in DOMAIN line, InStep(p),
         Command, Head(todo) \in Checked(p)
  PROVE  InStep(p)' /\ (missed' = missed \/ Refused' \/ exit' = "error")
  BY CommandAwaits, NothingNeeded DEF InStep

LEMMA ReadOkInStep ==
  ASSUME bus = "uart", Flows(todo, DOMAIN config), NEW p \in Words, p \in DOMAIN line, InStep(p),
         ReadOk, Head(todo).on = p
  PROVE  InStep(p)'
<1>1. todo # <<>> /\ todo \in Seq(AnyStep) /\ Head(todo).op = "ack"
  BY FlowsIsSteps DEF ReadOk, Due
<1>2. line'[p] = IF line[p] = <<>> THEN <<>> ELSE Tail(line[p])
  BY DEF ReadOk
<1>3. todo' = Tail(todo) \/ todo' = <<>>
  BY <1>1, FailsEnds DEF ReadOk, Proceeds
<1>4. CASE line[p] = <<>>
  BY <1>2, <1>4 DEF InStep
<1>5. CASE After(todo, Discards(p), Needy(p))
  <2>1. Head(todo) \notin Discards(p)
    BY <1>1 DEF Discards
  <2>2. After(Tail(todo), Discards(p), Needy(p)) /\ After(<<>>, Discards(p), Needy(p))
    BY <1>1, <1>5, <2>1, AfterTail, NothingNeeded
  <2> QED
    BY <1>3, <2>2 DEF InStep
<1>6. CASE Tail(line[p]) = <<>>
  BY <1>2, <1>6 DEF InStep
<1> QED
  BY <1>4, <1>5, <1>6 DEF InStep

(* A step that may leave lines behind. *)
LEMMA LooseInStep ==
  ASSUME Flows(todo, DOMAIN config), NEW p \in Words, todo # <<>>, Head(todo) \in Loose(p), Moves
  PROVE  InStep(p)'
<1>1. todo \in Seq(AnyStep)
  BY FlowsIsSteps
<1>2. ~Has(todo, Needy(p)) /\ ~Has(Tail(todo), Needy(p))
  BY FlowsLoose
<1>3. ~Has(<<Chunk(Head(todo))>> \o todo, Needy(p))
  <2> DEFINE t == <<Chunk(Head(todo))>>
  <2>1. t \in Seq(AnyStep) /\ ~Has(t, Needy(p))
    BY <1>1, ChunkPrefix, ChunkNeedsNothing
  <2> HIDE DEF t
  <2>2. ~Has(t \o todo, Needy(p))
    BY <1>1, <1>2, <2>1, HasJoint
  <2> QED
    BY <2>2 DEF t
<1>4. After(todo', Discards(p), Needy(p))
  BY <1>2, <1>3, LacksOrders, NothingNeeded DEF Moves
<1> QED
  BY <1>4 DEF InStep

LEMMA OtherLines ==
  ASSUME [Next]_vars, NEW p \in DOMAIN line, todo # <<>> => Head(todo).on # p
  PROVE  line'[p] = line[p]
<1>1. CASE SendExport \/ Query \/ Command \/ ReadOk \/ Discard
  BY <1>1 DEF SendExport, Query, Command, ReadOk, Discard, Due
<1>2. CASE ReadChunkUart \/ ReadChunkI2c \/ ImportResultUart
  BY <1>2 DEF ReadChunkUart, ReadChunkI2c, ImportResultUart, Due
<1>3. CASE \/ Skip \/ OpenSession \/ ImportResultI2c \/ ConvertToCelsius \/ Decide \/ RaiseFirstError
           \/ Finish \/ Ended
  BY <1>3 DEF Skip, OpenSession, ImportResultI2c, ConvertToCelsius, Decide, RaiseFirstError, Finish,
     Ended, vars
<1>4. CASE UNCHANGED vars
  BY <1>4 DEF vars
<1> QED
  BY <1>1, <1>2, <1>3, <1>4 DEF Next

(* The step about a circuit leaves it in step with the program. *)
LEMMA OwnInStep ==
  ASSUME bus = "uart", Flows(todo, DOMAIN config), NEW p \in Words, p \in DOMAIN line, InStep(p),
         Next, todo # <<>>, Head(todo).on = p
  PROVE  InStep(p)'
<1> DEFINE s == Head(todo)
<1>1. s \in AnyStep /\ s.on = p /\ Moves
  BY FlowsTail, StepMoves
<1>2. CASE Skip
  <2>1. s \notin Discards(p) /\ ~Due("ack")
    BY <1>2 DEF Skip, Discards, Due, Holds
  <2> QED
    BY <1>2, <2>1, PassingInStep DEF Skip, Proceeds
<1>3. CASE OpenSession \/ ConvertToCelsius \/ Decide \/ RaiseFirstError
  <2>1. s.op \in {"open", "celsius", "need", "raise"}
    BY <1>3 DEF OpenSession, ConvertToCelsius, Decide, RaiseFirstError, Due
  <2>2. s \notin Discards(p) /\ ~Due("ack")
    BY <2>1 DEF Discards, Due
  <2>3. (todo' = Tail(todo) \/ todo' = <<>>) /\ UNCHANGED line
    BY <1>3 DEF OpenSession, ConvertToCelsius, Decide, RaiseFirstError, Proceeds, Stops, Fails
  <2> QED
    BY <2>2, <2>3, PassingInStep
<1>4. CASE Discard
  <2>1. line'[p] = <<>>
    BY <1>1, <1>4 DEF Discard
  <2> QED
    BY <2>1 DEF InStep
<1>5. CASE Query
  BY <1>1, <1>5, QueryInStep
<1>6. CASE Command
  <2>1. s.op = "tell"
    BY <1>6 DEF Command, Due
  <2>2. CASE s.what \in {"mode", "import"}
    <3>1. s \in Loose(p)
      BY <1>1, <2>1, <2>2 DEF Loose
    <3> QED
      BY <1>1, <3>1, LooseInStep
  <2>3. CASE s.what \notin {"mode", "import"}
    <3>1. s \in Checked(p)
      BY <1>1, <2>1, <2>3 DEF Checked
    <3> QED
      BY <1>6, <3>1, CommandInStep
  <2> QED
    BY <2>2, <2>3
<1>7. CASE ReadOk
  BY <1>1, <1>7, ReadOkInStep
<1>8. CASE SendExport \/ ReadChunkUart \/ ImportResultUart
  <2>1. s.op \in {"export", "chunk", "result"}
    BY <1>8 DEF SendExport, ReadChunkUart, ImportResultUart, Due
  <2>2. s \in Loose(p)
    BY <1>1, <2>1, ExportLoose
  <2> QED
    BY <1>1, <2>2, LooseInStep
<1>9. CASE ReadChunkI2c \/ ImportResultI2c
  BY <1>9 DEF ReadChunkI2c, ImportResultI2c
<1>10. CASE Finish \/ Ended
  <2>1. UNCHANGED <<todo, line, known>>
    BY <1>10 DEF Finish, Ended, vars
  <2> QED
    BY <2>1 DEF InStep, After, Due, Holds
<1> QED
  BY <1>2, <1>3, <1>4, <1>5, <1>6, <1>7, <1>8, <1>9, <1>10 DEF Next

LEMMA StaysInStep ==
  ASSUME bus = "uart", Flows(todo, DOMAIN config), NEW p \in Words, p \in DOMAIN line, InStep(p),
         [Next]_vars
  PROVE  InStep(p)'
<1>1. CASE Next /\ todo # <<>> /\ Head(todo).on = p
  BY <1>1, OwnInStep
<1>2. CASE todo # <<>> => Head(todo).on # p
  <2>1. Moves /\ line'[p] = line[p]
    BY <1>2, StepMoves, OtherLines
  <2> QED
    BY <1>2, <2>1, OthersInStep
<1>3. CASE UNCHANGED vars
  BY <1>3 DEF vars, InStep, After, Due, Holds
<1> QED
  BY <1>1, <1>2, <1>3

(* A program that has ended stays as it ended. *)
LEMMA StaysStopped ==
  ASSUME Stopped, [Next]_vars
  PROVE  Stopped' /\ (exit # "running" => exit' = exit)
<1>1. CASE exit # "running"
  <2>1. todo = <<>>
    BY <1>1 DEF Stopped
  <2>2. UNCHANGED <<todo, exit>>
    BY <1>1, <2>1 DEF Next, Skip, OpenSession, Discard, Query, Command, ReadOk, SendExport,
       ReadChunkUart, ReadChunkI2c, ImportResultUart, ImportResultI2c, ConvertToCelsius, Decide,
       RaiseFirstError, Finish, Ended, vars, Due
  <2> QED
    BY <2>1, <2>2 DEF Stopped
<1>2. CASE exit = "running"
  <2>1. exit' = exit \/ todo' = <<>>
    BY DEF Next, Skip, OpenSession, Discard, Query, Command, ReadOk, SendExport,
       ReadChunkUart, ReadChunkI2c, ImportResultUart, ImportResultI2c, ConvertToCelsius, Decide,
       RaiseFirstError, Finish, Ended, vars, Due, Proceeds, Fails, Stops
  <2> QED
    BY <1>2, <2>1 DEF Stopped
<1> QED
  BY <1>1, <1>2

LEMMA RefusalIsRead ==
  ASSUME Flows(todo, DOMAIN config), Stopped, Refused, Next
  PROVE  exit' = "error"
<1>1. Due("ack") /\ todo # <<>> /\ Head(todo).op = "ack" /\ Holds(Head(todo).when, Head(todo).on)
      /\ ~Matches(line[Head(todo).on], <<"OK">>)
  BY DEF Refused, Due
<1>2. CASE ReadOk
  BY <1>1, <1>2, FailsEnds DEF ReadOk
<1>3. CASE ~ReadOk
  <2>1. Ended
    BY <1>1, <1>3 DEF Next, Skip, OpenSession, Discard, Query, Command, SendExport,
       ReadChunkUart, ReadChunkI2c, ImportResultUart, ImportResultI2c, ConvertToCelsius, Decide,
       RaiseFirstError, Finish, Due
  <2> QED
    BY <1>1, <2>1 DEF Ended, Stopped
<1> QED
  BY <1>2, <1>3

LEMMA StaysFoundOut ==
  ASSUME Typed, program \in Examples, bus = "uart", Flows(todo, DOMAIN config),
         \A p \in DOMAIN config : InStep(p), Stopped, FoundOut, [Next]_vars
  PROVE  FoundOut'
<1>1. CASE exit = "error"
  <2>1. exit' = "error"
    BY <1>1, StaysStopped
  <2> QED
    BY <2>1 DEF FoundOut
<1>2. CASE Refused /\ Next
  <2>1. exit' = "error"
    BY <1>2, RefusalIsRead
  <2> QED
    BY <2>1 DEF FoundOut
<1>3. CASE UNCHANGED vars
  BY <1>3 DEF vars, FoundOut, Refused, Due, Holds, Matches
<1>4. CASE missed \subseteq {"mode", "import"} /\ Command
  <2> DEFINE s == Head(todo)
             p == s.on
  <2>1. todo # <<>> /\ s.op = "tell"
    BY <1>4 DEF Command, Due
  <2>2. p \in DOMAIN config /\ s \in AnyStep
    BY <2>1, FlowsTail
  <2>3. p \in Words /\ p \in DOMAIN line
    BY <2>2, HasMode, ProductsAreWords DEF Typed, ProgramTypeOK
  <2>4. CASE s.what \in {"mode", "import"}
    <3>1. missed' \subseteq missed \cup {s.what}
      BY <1>4 DEF Command
    <3> QED
      BY <1>4, <2>4, <3>1 DEF FoundOut
  <2>5. CASE s.what \notin {"mode", "import"}
    <3>1. s \in Checked(p)
      BY <2>1, <2>2, <2>5 DEF Checked
    <3> HIDE DEF p
    <3>2. missed' = missed \/ Refused' \/ exit' = "error"
      BY <1>4, <2>2, <2>3, <3>1, CommandInStep
    <3>3. CASE missed' = missed
      BY <1>4, <3>3 DEF FoundOut
    <3>4. CASE Refused' \/ exit' = "error"
      BY <3>4 DEF FoundOut
    <3> QED
      BY <3>2, <3>3, <3>4
  <2> QED
    BY <2>4, <2>5
<1>5. CASE missed \subseteq {"mode", "import"} /\ Next /\ ~Command
  <2>1. UNCHANGED missed
    BY <1>5 DEF Next, Skip, OpenSession, Discard, Query, ReadOk, SendExport,
       ReadChunkUart, ReadChunkI2c, ImportResultUart, ImportResultI2c, ConvertToCelsius, Decide,
       RaiseFirstError, Finish, Ended, vars
  <2> QED
    BY <1>5, <2>1 DEF FoundOut
<1> QED
  BY <1>1, <1>2, <1>3, <1>4, <1>5 DEF FoundOut

LEMMA StepSteady ==
  ASSUME Typed, Steady, [Next]_vars
  PROVE  Steady'
<1>1. program \in Examples /\ UNCHANGED bus /\ DOMAIN config' = DOMAIN config
  BY StepExamples, StepGiven, StepConfig
<1> SUFFICES ASSUME bus = "uart"
             PROVE  (/\ Flows(todo, DOMAIN config) /\ (\A p \in DOMAIN config : InStep(p))
                     /\ Stopped /\ FoundOut)'
  BY <1>1 DEF Steady
<1>2. /\ Flows(todo, DOMAIN config) /\ (\A p \in DOMAIN config : InStep(p))
      /\ Stopped /\ FoundOut
  BY DEF Steady
<1>3. Flows(todo, DOMAIN config)'
  BY <1>1, <1>2, StepMoves, FlowsMove
<1>4. ASSUME NEW p \in DOMAIN config PROVE InStep(p)'
  <2>1. p \in Words /\ p \in DOMAIN line
    BY <1>1, HasMode, ProductsAreWords DEF Typed, ProgramTypeOK
  <2> QED
    BY <1>2, <2>1, StaysInStep
<1>5. Stopped' /\ FoundOut'
  BY <1>1, <1>2, StaysStopped, StaysFoundOut
<1> QED
  BY <1>1, <1>3, <1>4, <1>5

LEMMA InitSteady ==
  ASSUME Init
  PROVE  Steady
<1> SUFFICES ASSUME bus = "uart"
             PROVE  /\ Flows(todo, DOMAIN config) /\ (\A p \in DOMAIN config : InStep(p))
                    /\ Stopped /\ FoundOut
  BY DEF Steady
<1>1. program \in Examples
  BY ProgramAssumption DEF Init
<1>2. program.on \in MadeFor(program.name) /\ program.on \in Products
  BY <1>1, ExamplePairs
<1>3. DOMAIN config = Uses(program.name, program.on)
  BY DEF Init, SettingsOf
<1>4. Ready(todo, DOMAIN config)
  BY <1>2, <1>3, ScriptsReady DEF Init
<1>5. ASSUME NEW p \in DOMAIN config PROVE InStep(p)
  <2>1. p \in Words
    BY <1>2, <1>3, UsesProducts, ProductsAreWords
  <2> QED
    BY <1>4, <2>1 DEF Ready, InStep
<1> QED
  BY <1>4, <1>5 DEF Ready, Stopped, FoundOut, Init

(* Over a UART a program that succeeds has had every command carried out   *)
(* that it sends an acknowledgement for: a refused one, and one a sleeping *)
(* circuit takes for a wake-up call, is found out by the very next step.   *)
THEOREM SuccessIsApplied == Spec => []SuccessMeansApplied
<1>1. Init => Typed /\ Steady
  BY InitTyped, InitSteady
<1>2. Typed /\ Steady /\ [Next]_vars => Typed' /\ Steady'
  BY StepTyped, StepSteady
<1>3. Steady => SuccessMeansApplied
  <2> SUFFICES ASSUME Steady, bus = "uart", exit = "ok" PROVE missed \subseteq {"mode", "import"}
    BY DEF SuccessMeansApplied
  <2>1. todo = <<>>
    BY DEF Steady, Stopped
  <2> QED
    BY <2>1 DEF Steady, FoundOut, Refused, Due
<1> QED
  BY <1>1, <1>2, <1>3, PTL DEF Spec

-----------------------------------------------------------------------------
(***************************************************************************)
(* Switching a circuit to another transport.                               *)
(***************************************************************************)
Switches(s) == s.op = "tell" /\ s.what = "mode" /\ s.value \notin {"asleep", "reset"}

Calm == {s \in AnyStep : ~Switches(s)}

LEMMA CalmKinds ==
  ASSUME NEW cs
  PROVE  Inspecting \subseteq Calm /\ Taming(cs) \subseteq Calm /\ Calm \subseteq AnyStep
  BY DEF Calm, Switches, Inspecting, Inspects, Taming, Tames

LEMMA NeverCalm ==
  ASSUME NEW s \in Calm
  PROVE  Made(s, "never", s.failing) \in Calm
<1>1. s \in AnyStep /\ ~Switches(s) /\ "never" \in Words
  BY AllWords DEF Calm
<1> DEFINE t == Made(s, "never", s.failing)
<1>2. t \in AnyStep /\ t.op = s.op /\ t.what = s.what /\ t.value = s.value
  BY <1>1, MadeWhen
<1> HIDE DEF t
<1>3. t \in Calm
  BY <1>1, <1>2 DEF Calm, Switches
<1> QED
  BY <1>3 DEF t

LEMMA CalmOverI2c ==
  ASSUME NEW s \in Seq(Calm)
  PROVE  OverI2c(s) \in Seq(Calm)
  BY NeverCalm, OverI2cOf

LEMMA OpenedCalm ==
  ASSUME NEW cs, NEW s, Opened(s, cs)
  PROVE  s \in Seq(Calm) /\ OverI2c(s) \in Seq(Calm)
<1>1. s \in Seq(Calm)
  BY OpenedInspects, CalmKinds, SeqMonotonic
<1> QED
  BY <1>1, CalmOverI2c

LEMMA TameCalm ==
  ASSUME NEW cs, NEW s, Tame(s, cs)
  PROVE  s \in Seq(Calm)
  BY CalmKinds, SeqMonotonic DEF Tame

LEMMA AppliedCalm ==
  ASSUME NEW f, NEW look \in Seq(Calm), NEW apply \in Seq(Calm)
  PROVE  /\ Applied(f, look, apply) \in Seq(Calm)
         /\ Applied(f, OverI2c(look), OverI2c(apply)) \in Seq(Calm)
<1>1. OverI2c(look) \in Seq(Calm) /\ OverI2c(apply) \in Seq(Calm)
  BY CalmOverI2c
<1>2. If("apply" \in f, apply) \in Seq(Calm) /\ If("apply" \in f, OverI2c(apply)) \in Seq(Calm)
  BY <1>1, Optional
<1> QED
  BY <1>1, <1>2, Joint DEF Applied

LEMMA OpenedTameCalm ==
  ASSUME NEW f, NEW cs, NEW look, NEW apply, Opened(look, cs), Tame(apply, cs)
  PROVE  /\ Applied(f, look, apply) \in Seq(Calm)
         /\ Applied(f, OverI2c(look), OverI2c(apply)) \in Seq(Calm)
<1>1. look \in Seq(Calm) /\ apply \in Seq(Calm)
  BY OpenedCalm, TameCalm
<1> QED
  BY <1>1, AppliedCalm

LEMMA TellCalm ==
  ASSUME NEW p \in Words, NEW what \in Words, NEW value \in Words,
         what # "mode" \/ value \in {"asleep", "reset"}
  PROVE  Tell(p, what, value) \in Seq(Calm)
<1> DEFINE a == Call("tell", p, what, value)
<1>0. "tell" \in Words
  BY AllWords
<1>1. a \in AnyStep /\ a.what = what /\ a.value = value
  BY <1>0, CallIsStep
<1>2. Tell(p, what, value) = <<a>>
  BY DEF Tell
<1> HIDE DEF a
<1>3. a \in Calm
  BY <1>1 DEF Calm, Switches
<1> QED
  BY <1>2, <1>3, One

(* control_workflow.c sends a circuit to sleep, or resets it. *)
LEMMA ControlWorkflowCalm ==
  ASSUME NEW p \in Products, NEW f
  PROVE  ControlWorkflowApply(p, f) \in Seq(Calm) /\ ControlWorkflowAfter(p, f) \in Seq(Calm)
<1>1. p \in Words /\ p \in {p} \cap Words
  BY ProductsAreWords
<1>2. \A what \in Words \ {"mode", "import"}, value \in Words : Set(p, what, value) \in Seq(Calm)
  BY <1>1, SetTame, TameCalm
<1>3. /\ Set(p, "name", "planned") \in Seq(Calm) /\ Set(p, "led", "planned") \in Seq(Calm)
      /\ SetLock(p, f) \in Seq(Calm) /\ Set(p, "find", "planned") \in Seq(Calm)
      /\ SetCodes(p, f) \in Seq(Calm)
  <2>1. Tame(SetLock(p, f), {p}) /\ Tame(SetCodes(p, f), {p})
    BY <1>1, SetLockTame, SetCodesTame
  <2> QED
    BY <1>2, <2>1, AllWords, TameCalm
<1>4. Tell(p, "mode", "asleep") \in Seq(Calm) /\ Tell(p, "mode", "reset") \in Seq(Calm)
  BY <1>1, AllWords, TellCalm
<1>5. ControlWorkflowApply(p, f) \in Seq(Calm)
  BY <1>3, <1>4, Optional, Joint DEF ControlWorkflowApply
<1>6. Asks(p, <<"name", "led", "plock", "baud">>) \in Seq(Calm)
  <2>1. <<"name", "led", "plock", "baud">> \in Seq(Words)
    BY AllWords, Four
  <2> QED
    BY <1>1, <2>1, AsksTame, TameCalm
<1>7. Ask(p, "codes") \in Seq(Calm)
  <2>1. Ask(p, "codes") \in Seq(Inspecting)
    BY <1>1, AllWords, StepInspects DEF Ask
  <2> QED
    BY <2>1, CalmKinds, SeqMonotonic
<1>8. If("set-response-codes" \in f, SetCodes(p, f) \o Ask(p, "codes")) \in Seq(Calm)
  BY <1>3, <1>7, Optional, Joint
<1>9. Asks(p, <<"name", "led", "plock", "baud">>)
      \o If("set-response-codes" \in f, SetCodes(p, f) \o Ask(p, "codes")) \in Seq(Calm)
  BY <1>6, <1>8, Joint
<1>10. ControlWorkflowAfter(p, f) \in Seq(Calm)
  BY <1>9, Optional DEF ControlWorkflowAfter
<1> QED
  BY <1>5, <1>10

LEMMA CalibrationTransferCalm ==
  ASSUME NEW p \in Products
  PROVE  CalibrationTransferLook(p) \in Seq(Calm) /\ CalibrationTransferApply(p) \in Seq(Calm)
<1>1. CalibrationTransferLook(p) \in Seq(Calm)
  BY TransferInspects, CalmKinds, SeqMonotonic
<1>2. Tell(p, "import", "imported") \in Seq(Calm)
  BY ProductsAreWords, AllWords, TellCalm
<1>3. Step("result", p, "import") \in Seq(Calm)
  <2>1. Step("result", p, "import") \in Seq(Inspecting)
    BY ProductsAreWords, AllWords, StepInspects
  <2> QED
    BY <2>1, CalmKinds, SeqMonotonic
<1> QED
  BY <1>1, <1>2, <1>3, Joint DEF CalibrationTransferApply

(* No program but transport_switch.c switches a circuit over. *)
LEMMA ScriptsCalm ==
  ASSUME NEW n, n # "transport_switch", NEW p \in MadeFor(n),
         NEW f \in OptionsOf(n) \cup OptionsOverI2c(n)
  PROVE  Script(n, p, f) \in Seq(Calm) /\ ScriptOverI2c(n, p, f) \in Seq(Calm)
<1>0. p \in Products
  BY DEF MadeFor, Products
<1>1. CASE n = "read_ph"
  BY <1>1, ReadPhOpens, OpenedCalm DEF Script, ScriptOverI2c, ReadPhI2c
<1>2. CASE n = "read_orp"
  BY <1>2, ReadOrpOpens, OpenedCalm DEF Script, ScriptOverI2c, ReadOrpI2c
<1>3. CASE n = "read_ec"
  BY <1>3, ReadEcOpens, OpenedCalm DEF Script, ScriptOverI2c, ReadEcI2c
<1>4. CASE n = "read_do"
  BY <1>4, ReadDoOpens, OpenedCalm DEF Script, ScriptOverI2c, ReadDoI2c
<1>5. CASE n = "read_hum"
  BY <1>5, ReadHumOpens, OpenedCalm DEF Script, ScriptOverI2c, ReadHumI2c
<1>6. CASE n = "read_rtd"
  BY <1>6, ReadRtdOpens, OpenedCalm DEF Script, ScriptOverI2c, ReadRtdI2c
<1>7. CASE n = "ph_temp_comp_from_rtd"
  BY <1>7, PhTempCompLookOpens, PhTempCompApplyTame, OpenedTameCalm
     DEF Script, ScriptOverI2c, PhTempCompLookI2c, PhTempCompApplyI2c
<1>8. CASE n = "ec_temp_comp_from_rtd"
  BY <1>8, EcTempCompLookOpens, EcTempCompApplyTame, OpenedTameCalm
     DEF Script, ScriptOverI2c, EcTempCompLookI2c, EcTempCompApplyI2c
<1>9. CASE n = "do_temp_comp_from_rtd"
  BY <1>9, DoTempCompLookOpens, DoTempCompApplyTame, OpenedTameCalm
     DEF Script, ScriptOverI2c, DoTempCompLookI2c, DoTempCompApplyI2c
<1>10. CASE n = "do_salinity_comp_from_ec"
  BY <1>10, DoSalinityCompLookOpens, DoSalinityCompApplyTame, OpenedTameCalm
     DEF Script, ScriptOverI2c, DoSalinityCompLookI2c, DoSalinityCompApplyI2c
<1>11. CASE n = "do_full_compensation_chain"
  BY <1>11, DoFullChainLookOpens, DoFullChainApplyTame, OpenedTameCalm
     DEF Script, ScriptOverI2c, DoFullChainLookI2c, DoFullChainApplyI2c
<1>12. CASE n = "ph_calibration"
  <2>1. f \in PhCalibrationOptions
    BY <1>12 DEF OptionsOf, OptionsOverI2c, PhCalibrationOptionsI2c
  <2>2. StepOf(f) \in Words
    BY <2>1, StepOfIs DEF PhCalibrationOptions, Steps
  <2> QED
    BY <1>12, <2>2, PhCalibrationLookOpens, PhCalibrationApplyTame, OpenedTameCalm
       DEF Script, ScriptOverI2c, PhCalibrationLookI2c, PhCalibrationApplyI2c
<1>13. CASE n = "orp_calibration"
  <2>1. f \in OrpCalibrationOptions
    BY <1>13 DEF OptionsOf, OptionsOverI2c, OrpCalibrationOptionsI2c
  <2>2. StepOf(f) \in Words
    BY <2>1, StepOfIs DEF OrpCalibrationOptions, Steps
  <2> QED
    BY <1>13, <2>2, OrpCalibrationLookOpens, OrpCalibrationApplyTame, OpenedTameCalm
       DEF Script, ScriptOverI2c, OrpCalibrationLookI2c, OrpCalibrationApplyI2c
<1>14. CASE n = "ec_calibration"
  <2>1. f \in EcCalibrationOptions
    BY <1>14 DEF OptionsOf, OptionsOverI2c, EcCalibrationOptionsI2c
  <2>2. StepOf(f) \in Words
    BY <2>1, StepOfIs DEF EcCalibrationOptions, Steps
  <2> QED
    BY <1>14, <2>2, EcCalibrationLookOpens, EcCalibrationApplyTame, OpenedTameCalm
       DEF Script, ScriptOverI2c, EcCalibrationLookI2c, EcCalibrationApplyI2c
<1>15. CASE n = "do_calibration"
  <2>1. f \in DoCalibrationOptions
    BY <1>15 DEF OptionsOf, OptionsOverI2c, DoCalibrationOptionsI2c
  <2>2. StepOf(f) \in Words
    BY <2>1, StepOfIs DEF DoCalibrationOptions, Steps
  <2> QED
    BY <1>15, <2>2, DoCalibrationLookOpens, DoCalibrationApplyTame, OpenedTameCalm
       DEF Script, ScriptOverI2c, DoCalibrationLookI2c, DoCalibrationApplyI2c
<1>16. CASE n = "rtd_calibration"
  <2>1. f \in RtdCalibrationOptions
    BY <1>16 DEF OptionsOf, OptionsOverI2c, RtdCalibrationOptionsI2c
  <2>2. StepOf(f) \in Words
    BY <2>1, StepOfIs DEF RtdCalibrationOptions, Steps
  <2> QED
    BY <1>16, <2>2, RtdCalibrationLookOpens, RtdCalibrationApplyTame, OpenedTameCalm
       DEF Script, ScriptOverI2c, RtdCalibrationLookI2c, RtdCalibrationApplyI2c
<1>17. CASE n = "hum_temperature_calibration"
  <2>1. f \in HumCalibrationOptions
    BY <1>17 DEF OptionsOf, OptionsOverI2c, HumCalibrationOptionsI2c
  <2>2. StepOf(f) \in Words
    BY <2>1, StepOfIs DEF HumCalibrationOptions, Steps
  <2> QED
    BY <1>17, <2>2, HumCalibrationLookOpens, HumCalibrationApplyTame, OpenedTameCalm
       DEF Script, ScriptOverI2c, HumCalibrationLookI2c, HumCalibrationApplyI2c
<1>18. CASE n = "ph_workflow"
  BY <1>18, PhWorkflowLookOpens, PhWorkflowApplyTame, OpenedTameCalm
     DEF Script, ScriptOverI2c, PhWorkflowLookI2c, PhWorkflowApplyI2c
<1>19. CASE n = "orp_workflow"
  BY <1>19, OrpWorkflowLookOpens, OrpWorkflowApplyTame, OpenedTameCalm
     DEF Script, ScriptOverI2c, OrpWorkflowLookI2c, OrpWorkflowApplyI2c
<1>20. CASE n = "ec_workflow"
  BY <1>20, EcWorkflowLookOpens, EcWorkflowApplyTame, OpenedTameCalm
     DEF Script, ScriptOverI2c, EcWorkflowLookI2c, EcWorkflowApplyI2c
<1>21. CASE n = "do_workflow"
  BY <1>21, DoWorkflowLookOpens, DoWorkflowApplyTame, OpenedTameCalm
     DEF Script, ScriptOverI2c, DoWorkflowLookI2c, DoWorkflowApplyI2c
<1>22. CASE n = "hum_workflow"
  BY <1>22, HumWorkflowLookOpens, HumWorkflowApplyTame, OpenedTameCalm
     DEF Script, ScriptOverI2c, HumWorkflowLookI2c, HumWorkflowApplyI2c
<1>23. CASE n = "rtd_workflow"
  BY <1>23, RtdWorkflowLookOpens, RtdWorkflowApplyTame, OpenedTameCalm
     DEF Script, ScriptOverI2c, RtdWorkflowLookI2c, RtdWorkflowApplyI2c
<1>24. CASE n = "control_workflow"
  <2>1. ControlWorkflowLook(p) \in Seq(Calm) /\ OverI2c(ControlWorkflowLook(p)) \in Seq(Calm)
    BY <1>0, ControlWorkflowLookOpens, OpenedCalm
  <2>2. /\ ControlWorkflowApply(p, f) \in Seq(Calm) /\ ControlWorkflowAfter(p, f) \in Seq(Calm)
        /\ OverI2c(ControlWorkflowApply(p, f)) \in Seq(Calm) /\ OverI2c(ControlWorkflowAfter(p, f)) \in Seq(Calm)
    BY <1>0, ControlWorkflowCalm, CalmOverI2c
  <2>3. /\ If("apply" \in f, ControlWorkflowApply(p, f) \o ControlWorkflowAfter(p, f)) \in Seq(Calm)
        /\ If("apply" \in f, OverI2c(ControlWorkflowApply(p, f)) \o OverI2c(ControlWorkflowAfter(p, f))) \in Seq(Calm)
    BY <2>2, Joint, Optional
  <2> QED
    BY <1>24, <2>1, <2>3, Joint DEF Script, ScriptOverI2c, Applied,
       ControlWorkflowLookI2c, ControlWorkflowApplyI2c, ControlWorkflowAfterI2c
<1>25. CASE n = "calibration_transfer"
  BY <1>25, <1>0, CalibrationTransferCalm, AppliedCalm
     DEF Script, ScriptOverI2c, CalibrationTransferLookI2c, CalibrationTransferApplyI2c
<1>26. CASE n = "inspect_device"
  <2>1. InspectDeviceI2c(p) \in Seq(Calm)
    BY <1>0, InspectDeviceI2cInspects, CalmKinds, SeqMonotonic
  <2> QED
    BY <1>26, <1>0, <2>1, InspectDeviceOpens, OpenedCalm DEF Script, ScriptOverI2c
<1>27. CASE n = "readiness_check"
  <2>1. ReadinessCheckI2c(p) \in Seq(Calm)
    BY <1>0, ReadinessCheckI2cInspects, CalmKinds, SeqMonotonic
  <2> QED
    BY <1>27, <1>0, <2>1, ReadinessCheckOpens, OpenedCalm DEF Script, ScriptOverI2c
<1> QED
  BY <1>1, <1>2, <1>3, <1>4, <1>5, <1>6, <1>7, <1>8, <1>9, <1>10,
     <1>11, <1>12, <1>13, <1>14, <1>15, <1>16, <1>17, <1>18, <1>19, <1>20,
     <1>21, <1>22, <1>23, <1>24, <1>25, <1>26, <1>27 DEF MadeFor

(* The protocol lock: asking for it, and going on only if it is off.       *)
AsksLock(p) ==
  {s \in AnyStep : /\ s.op = "ask" /\ s.on = p /\ s.what = "plock"
                   /\ s.when = "always" /\ s.failing = "stops"}

NeedsLock(p) ==
  {s \in AnyStep : s.op = "need" /\ s.on = p /\ s.what = "unlocked" /\ s.when = "always"}

Switching(p) == {s \in AnyStep : Switches(s) /\ s.on = p}

SetsLock(s) == s.op = "tell" /\ s.what = "plock"

KeepsLock == {s \in AnyStep : ~SetsLock(s)}

LEMMA OverI2cParts ==
  ASSUME NEW s \in Seq(AnyStep)
  PROVE  /\ OverI2c(s) \in Seq(AnyStep) /\ Len(OverI2c(s)) = Len(s) /\ Len(s) \in Nat
         /\ \A i \in 1 .. Len(s) :
              /\ s[i] \in AnyStep
              /\ OverI2c(s)[i] = IF OnlyOverUart(s[i]) THEN Made(s[i], "never", s[i].failing) ELSE s[i]
<1>1. Len(s) \in Nat /\ DOMAIN s = 1 .. Len(s) /\ \A i \in 1 .. Len(s) : s[i] \in AnyStep
  BY LenProperties, ElementOfSeq
<1>2. "never" \in Words
  BY AllWords
<1>3. \A e \in AnyStep : Made(e, "never", e.failing) \in AnyStep
  BY <1>2, MadeWhen
<1> DEFINE t == OverI2c(s)
<1>4. DOMAIN t = 1 .. Len(s) /\ t = [i \in 1 .. Len(s) |-> t[i]]
      /\ \A i \in 1 .. Len(s) :
           t[i] = IF OnlyOverUart(s[i]) THEN Made(s[i], "never", s[i].failing) ELSE s[i]
  BY <1>1 DEF OverI2c
<1>5. \A i \in 1 .. Len(s) : t[i] \in AnyStep
  BY <1>1, <1>3, <1>4
<1> HIDE DEF t
<1>6. t \in Seq(AnyStep) /\ Len(t) = Len(s)
  BY <1>1, <1>4, <1>5, SeqOf
<1> QED
  BY <1>1, <1>4, <1>6 DEF t

(* The order of steps that I2C has a use for is the same over I2C. *)
LEMMA OverI2cAfter ==
  ASSUME NEW s \in Seq(AnyStep), NEW A, NEW B, \A e \in A : ~OnlyOverUart(e),
         \A e \in AnyStep : OnlyOverUart(e) => Made(e, "never", e.failing) \notin B
  PROVE  /\ Has(s, A) => Has(OverI2c(s), A)
         /\ Has(OverI2c(s), B) => Has(s, B)
         /\ After(s, A, B) => After(OverI2c(s), A, B)
<1> DEFINE t == OverI2c(s)
<1>1. Len(t) = Len(s)
  BY OverI2cParts
<1>2. \A i \in 1 .. Len(s) : (s[i] \in A => t[i] \in A) /\ (t[i] \in B => s[i] \in B)
  BY OverI2cParts
<1> HIDE DEF t
<1>3. Has(s, A) => Has(t, A)
  BY <1>1, <1>2 DEF Has
<1>4. Has(t, B) => Has(s, B)
  BY <1>1, <1>2 DEF Has
<1>5. ASSUME After(s, A, B) PROVE After(t, A, B)
  <2> SUFFICES ASSUME NEW i \in 1 .. Len(s), t[i] \in B
               PROVE  \E j \in 1 .. Len(s) : j < i /\ t[j] \in A
    BY <1>1 DEF After
  <2>1. s[i] \in B
    BY <1>2
  <2>2. PICK j \in 1 .. Len(s) : j < i /\ s[j] \in A
    BY <1>5, <2>1 DEF After
  <2> QED
    BY <1>2, <2>2
<1> QED
  BY <1>3, <1>4, <1>5 DEF t

LEMMA LockOverI2c ==
  ASSUME NEW p
  PROVE  /\ \A e \in AsksLock(p) \cup NeedsLock(p) : ~OnlyOverUart(e)
         /\ \A e \in AnyStep : OnlyOverUart(e) =>
              /\ Made(e, "never", e.failing) \notin NeedsLock(p)
              /\ Made(e, "never", e.failing) \notin Switching(p)
         /\ \A e \in KeepsLock : Made(e, "never", e.failing) \in KeepsLock
<1>0. "never" \in Words
  BY AllWords
<1>1. \A e \in AsksLock(p) \cup NeedsLock(p) : ~OnlyOverUart(e)
  BY DEF AsksLock, NeedsLock, OnlyOverUart
<1>2. ASSUME NEW e \in AnyStep
      PROVE  LET t == Made(e, "never", e.failing) IN
             /\ OnlyOverUart(e) => t \notin NeedsLock(p) /\ t \notin Switching(p)
             /\ e \in KeepsLock => t \in KeepsLock
  <2> DEFINE t == Made(e, "never", e.failing)
  <2>1. t \in AnyStep /\ t.op = e.op /\ t.what = e.what /\ t.when = "never"
    BY <1>0, MadeWhen
  <2> HIDE DEF t
  <2>2. t \notin NeedsLock(p)
    BY <2>1 DEF NeedsLock
  <2>3. OnlyOverUart(e) => t \notin Switching(p)
    BY <2>1 DEF Switching, Switches, OnlyOverUart
  <2>4. e \in KeepsLock => t \in KeepsLock
    BY <2>1 DEF KeepsLock, SetsLock
  <2> QED
    BY <2>2, <2>3, <2>4 DEF t
<1>3. KeepsLock \subseteq AnyStep
  BY DEF KeepsLock
<1> QED
  BY <1>1, <1>2, <1>3

(* transport_switch.c looks at the protocol lock before it switches. *)
Guarded(s, p) ==
  s \in Seq(KeepsLock) /\ After(s, AsksLock(p), NeedsLock(p)) /\ After(s, NeedsLock(p), Switching(p))

LEMMA TransportSwitchLooks ==
  ASSUME NEW p \in Products
  PROVE  LET look == TransportSwitchLook(p) IN
         /\ look \in Seq(KeepsLock) /\ Has(look, AsksLock(p))
         /\ ~Has(look, NeedsLock(p)) /\ ~Has(look, Switching(p))
<1> DEFINE look == TransportSwitchLook(p)
           asks == Asks(p, <<"info", "plock", "baud", "codes">>)
           a == Call("ask", p, "plock", "none")
<1>1. look \in Seq(Looking({p})) /\ look \in Seq(AnyStep)
  BY TransportSwitchLookOpens, KindsOf DEF Opened
<1>2. Looking({p}) \subseteq KeepsLock
  BY DEF Looking, Looks, KeepsLock, SetsLock
<1>3. \A e \in Looking({p}) : e \notin NeedsLock(p) /\ e \notin Switching(p)
  BY DEF Looking, Looks, NeedsLock, Switching, Switches
<1>4. ~Has(look, NeedsLock(p)) /\ ~Has(look, Switching(p))
  BY <1>1, <1>3, LacksKind
<1>5. look \in Seq(KeepsLock)
  BY <1>1, <1>2, SeqMonotonic
<1>6. a \in AsksLock(p)
  <2>0. "ask" \in Words /\ "plock" \in Words /\ "none" \in Words /\ p \in Words
    BY AllWords, ProductsAreWords
  <2>1. a \in AnyStep /\ a.op = "ask" /\ a.on = p /\ a.what = "plock" /\ a.when = "always"
        /\ a.failing = "stops"
    BY <2>0, CallIsStep
  <2> HIDE DEF a
  <2> QED
    BY <2>1 DEF AsksLock
<1>7. asks \in Seq(AnyStep) /\ Len(asks) = 4 /\ asks[2] = a
  <2>0. p \in Words /\ "ask" \in Words /\ "none" \in Words
    BY AllWords, ProductsAreWords
  <2>1. <<"info", "plock", "baud", "codes">> \in Seq(Words)
    BY AllWords, Four
  <2>2. \A what \in Words : Call("ask", p, what, "none") \in AnyStep
    BY <2>0, CallIsStep
  <2>3. Len(<<"info", "plock", "baud", "codes">>) = 4 /\ <<"info", "plock", "baud", "codes">>[2] = "plock"
        /\ 2 \in DOMAIN <<"info", "plock", "baud", "codes">>
    OBVIOUS
  <2>4. asks[2] = a
    BY <2>3 DEF Asks
  <2> HIDE DEF a
  <2> QED
    BY <2>0, <2>1, <2>2, <2>3, <2>4, AsksOf
<1>8. Has(asks, AsksLock(p))
  <2> HIDE DEF a, asks
  <2>1. 2 \in 1 .. 4
    OBVIOUS
  <2> QED
    BY <1>6, <1>7, <2>1 DEF Has
<1>9. Begin(p) \in Seq(AnyStep)
  BY ProductsAreWords, BeginOpens, KindsOf DEF Opened
<1>10. look = Begin(p) \o asks
  BY DEF TransportSwitchLook
<1> HIDE DEF look, asks
<1>11. Has(look, AsksLock(p))
  BY <1>7, <1>8, <1>9, <1>10, HasJoint
<1> QED
  BY <1>4, <1>5, <1>11 DEF look

LEMMA TransportSwitchAsksFirst ==
  ASSUME NEW p \in Products, NEW f
  PROVE  LET apply == TransportSwitchApply(p, f) IN
         apply \in Seq(KeepsLock) /\ After(apply, NeedsLock(p), Switching(p))
<1> DEFINE a == Call("need", p, "unlocked", "none")
           value == IF "target-uart" \in f THEN "new baud" ELSE "i2c"
           b == Call("tell", p, "mode", value)
<1>0. /\ "need" \in Words /\ "unlocked" \in Words /\ "none" \in Words /\ p \in Words
      /\ "tell" \in Words /\ "mode" \in Words
  BY AllWords, ProductsAreWords
<1>9. value \in Words
  BY AllWords
<1>1. TransportSwitchApply(p, f) = <<a>> \o <<b>>
  BY DEF TransportSwitchApply, Need, Step, Tell
<1>2. a \in AnyStep /\ a.op = "need" /\ a.on = p /\ a.what = "unlocked" /\ a.when = "always"
  <2> HIDE DEF value
  <2> QED
    BY <1>0, CallIsStep
<1> HIDE DEF value
<1>3. b \in AnyStep /\ b.op = "tell" /\ b.what = "mode"
  BY <1>0, <1>9, CallIsStep
<1> HIDE DEF a, b
<1>4. a \in NeedsLock(p) /\ a \notin Switching(p) /\ a \in KeepsLock /\ b \in KeepsLock
  BY <1>2, <1>3 DEF NeedsLock, Switching, Switches, KeepsLock, SetsLock
<1> DEFINE s == <<a>>
           t == <<b>>
<1>5. s \in Seq(AnyStep) /\ t \in Seq(AnyStep) /\ s \in Seq(KeepsLock) /\ t \in Seq(KeepsLock)
      /\ Len(s) = 1 /\ s[1] = a /\ 1 .. 1 = {1}
  BY <1>2, <1>3, <1>4, One
<1> HIDE DEF s, t
<1>6. Has(s, NeedsLock(p)) /\ ~Has(s, Switching(p))
  BY <1>4, <1>5 DEF Has
<1>7. After(s \o t, NeedsLock(p), Switching(p))
  BY <1>5, <1>6, LacksOrders, AfterJoint
<1>8. s \o t \in Seq(KeepsLock)
  BY <1>5, Joint
<1> QED
  BY <1>1, <1>7, <1>8 DEF s, t

LEMMA AppliedGuarded ==
  ASSUME NEW p, NEW f, NEW look \in Seq(KeepsLock), NEW apply \in Seq(KeepsLock),
         Has(look, AsksLock(p)), ~Has(look, NeedsLock(p)), ~Has(look, Switching(p)),
         After(apply, NeedsLock(p), Switching(p))
  PROVE  Guarded(Applied(f, look, apply), p)
<1> DEFINE t == If("apply" \in f, apply)
<1>1. KeepsLock \subseteq AnyStep
  BY DEF KeepsLock
<1>2. look \in Seq(AnyStep) /\ t \in Seq(KeepsLock)
  BY <1>1, SeqMonotonic, Optional
<1>3. t \in Seq(AnyStep)
  BY <1>1, <1>2, SeqMonotonic
<1>4. After(t, NeedsLock(p), Switching(p))
  BY NothingNeeded DEF If
<1>5. Applied(f, look, apply) = look \o t
  BY DEF Applied
<1> HIDE DEF t
<1>6. look \o t \in Seq(KeepsLock)
  BY <1>2, Joint
<1>7. After(look \o t, AsksLock(p), NeedsLock(p))
  BY <1>2, <1>3, LacksOrders, AfterJoint
<1>8. After(look \o t, NeedsLock(p), Switching(p))
  BY <1>2, <1>3, <1>4, LacksOrders, AfterJoint
<1> QED
  BY <1>5, <1>6, <1>7, <1>8 DEF Guarded

LEMMA TransportSwitchGuarded ==
  ASSUME NEW p \in Products, NEW f
  PROVE  /\ Guarded(Script("transport_switch", p, f), p)
         /\ Guarded(ScriptOverI2c("transport_switch", p, f), p)
<1> DEFINE look == TransportSwitchLook(p)
           apply == TransportSwitchApply(p, f)
<1>1. /\ look \in Seq(KeepsLock) /\ Has(look, AsksLock(p))
      /\ ~Has(look, NeedsLock(p)) /\ ~Has(look, Switching(p))
  BY TransportSwitchLooks
<1>2. apply \in Seq(KeepsLock) /\ After(apply, NeedsLock(p), Switching(p))
  BY TransportSwitchAsksFirst
<1>3. Script("transport_switch", p, f) = Applied(f, look, apply)
  BY DEF Script
<1>4. ScriptOverI2c("transport_switch", p, f) = Applied(f, OverI2c(look), OverI2c(apply))
  BY DEF ScriptOverI2c, TransportSwitchLookI2c, TransportSwitchApplyI2c
<1> HIDE DEF look, apply
<1>5. look \in Seq(AnyStep) /\ apply \in Seq(AnyStep)
  <2>1. KeepsLock \subseteq AnyStep
    BY DEF KeepsLock
  <2> QED
    BY <1>1, <1>2, <2>1, SeqMonotonic
<1>6. OverI2c(look) \in Seq(KeepsLock) /\ OverI2c(apply) \in Seq(KeepsLock)
  BY <1>1, <1>2, LockOverI2c, OverI2cOf
<1>7. /\ Has(OverI2c(look), AsksLock(p))
      /\ ~Has(OverI2c(look), NeedsLock(p)) /\ ~Has(OverI2c(look), Switching(p))
  BY <1>1, <1>5, LockOverI2c, OverI2cAfter
<1>8. After(OverI2c(apply), NeedsLock(p), Switching(p))
  BY <1>2, <1>5, LockOverI2c, OverI2cAfter
<1> QED
  BY <1>1, <1>2, <1>3, <1>4, <1>6, <1>7, <1>8, AppliedGuarded

(* What a query makes known, of a circuit in step with the program. *)
LEMMA LineParts ==
  ASSUME NEW kind, NEW what, NEW value
  PROVE  /\ Line(kind, what, value)[1].kind = kind /\ Line(kind, what, value)[1].value = value
         /\ Len(Line(kind, what, value)) = 1
  BY DEF Line

LEMMA ReplyParts ==
  ASSUME NEW p, NEW what, NEW codes
  PROVE  LET data == Line("DATA", what, Answer(p, what))[1]
             yes == Line("OK", what, "none")[1]
         IN /\ Reply(p, what, codes) \in Seq({data, yes})
            /\ <<>> \o Reply(p, what, codes) = Reply(p, what, codes)
<1> DEFINE data == Line("DATA", what, Answer(p, what))
           yes == Line("OK", what, "none")
           ok == IF bus = "uart" /\ codes = "on" /\ what # "codes" THEN yes ELSE <<>>
           S == {data[1], yes[1]}
<1>1. Reply(p, what, codes) = IF p = "PH" /\ what = "read_compensated" THEN ok \o data ELSE data \o ok
  BY DEF Reply
<1>2. data \in Seq({data[1]}) /\ yes \in Seq({yes[1]})
  BY LineIs
<1> HIDE DEF data, yes
<1>3. data \in Seq(S) /\ yes \in Seq(S)
  BY <1>2, SeqMonotonic
<1>4. ok \in Seq(S)
  BY <1>3, EmptySeq
<1> HIDE DEF S, ok
<1>5. Reply(p, what, codes) \in Seq(S)
  BY <1>1, <1>3, <1>4, Joint
<1>6. <<>> \o Reply(p, what, codes) = Reply(p, what, codes)
  BY <1>5, ConcatEmptySeq
<1> QED
  BY <1>5, <1>6 DEF S, data, yes

LEMMA AnswerTaken ==
  ASSUME NEW p, NEW what, NEW codes,
         NEW l \in {<<>> \o Reply(p, what, codes), <<>> \o Line("ERROR", what, "none"), <<>>},
         Matches(l, Expected(p, what))
  PROVE  l[CHOOSE i \in DOMAIN Expected(p, what) : Expected(p, what)[i] = "DATA"].value = Answer(p, what)
<1> DEFINE kinds == Expected(p, what)
           i == CHOOSE j \in DOMAIN kinds : kinds[j] = "DATA"
           data == Line("DATA", what, Answer(p, what))[1]
           yes == Line("OK", what, "none")[1]
           e == Line("ERROR", what, "none")
<1>1. /\ DOMAIN kinds = 1 .. Len(kinds) /\ Len(kinds) \in Nat
      /\ \E j \in DOMAIN kinds : kinds[j] = "DATA"
  <2>1. kinds \in {<<"DATA">>, <<"OK", "DATA">>, <<"DATA", "OK">>}
    BY DEF Expected
  <2>2. CASE kinds = <<"DATA">>
    BY <2>2
  <2>3. CASE kinds = <<"OK", "DATA">>
    <3>1. 2 \in DOMAIN kinds /\ kinds[2] = "DATA"
      BY <2>3
    <3> QED
      BY <2>3, <3>1
  <2>4. CASE kinds = <<"DATA", "OK">>
    <3>1. 1 \in DOMAIN kinds /\ kinds[1] = "DATA"
      BY <2>4
    <3> QED
      BY <2>4, <3>1
  <2> QED
    BY <2>1, <2>2, <2>3, <2>4
<1>2. i \in DOMAIN kinds /\ kinds[i] = "DATA"
  BY <1>1
<1>3. data.kind = "DATA" /\ data.value = Answer(p, what) /\ yes.kind = "OK"
  BY LineParts
<1>4. e[1].kind = "ERROR" /\ Len(e) = 1 /\ <<>> \o e = e
  BY LineIs
<1>5. Reply(p, what, codes) \in Seq({data, yes}) /\ <<>> \o Reply(p, what, codes) = Reply(p, what, codes)
  BY ReplyParts
<1> DEFINE n == Len(kinds)
<1> HIDE DEF i, kinds, data, yes, e
<1>6. l[i].kind = "DATA" /\ i \in 1 .. n /\ n <= Len(l) /\ n \in Nat
  BY <1>1, <1>2 DEF Matches, kinds
<1> HIDE DEF n
<1>7. CASE l = Reply(p, what, codes)
  <2>1. Len(l) \in Nat /\ \A j \in 1 .. Len(l) : l[j] \in {data, yes}
    BY <1>5, <1>7, LenProperties, ElementOfSeq
  <2>2. i \in 1 .. Len(l)
    BY <1>6, <2>1
  <2>3. l[i] = data
    BY <1>3, <1>6, <2>1, <2>2
  <2> QED
    BY <1>3, <2>3 DEF i, kinds
<1>8. CASE l = e
  <2>1. Len(l) = 1
    BY <1>4, <1>8
  <2>2. n \in {0, 1}
    BY <1>6, <2>1
  <2>3. i \in 1 .. 1
    BY <1>6, <2>2
  <2>4. i = 1
    BY <2>3
  <2> QED
    BY <1>4, <1>6, <1>8, <2>4
<1>9. CASE l = <<>>
  <2>1. Len(l) = 0
    BY <1>9
  <2> QED
    BY <1>6, <2>1
<1> QED
  BY <1>4, <1>5, <1>7, <1>8, <1>9 DEF e

LEMMA QueryReads ==
  ASSUME Query, NEW p, NEW what, p = Head(todo).on, what = Head(todo).what, bus = "i2c" \/ line[p] = <<>>
  PROVE  \/ Fails /\ UNCHANGED known
         \/ /\ Proceeds
            /\ known' = [known EXCEPT ![p] = Learnt(known[p], what, Filed(p, what, Answer(p, what)))]
<1> DEFINE s == Head(todo)
           kinds == Expected(s.on, s.what)
           value(l) == l[CHOOSE i \in DOMAIN kinds : kinds[i] = "DATA"].value
           before == IF bus = "i2c" THEN <<>> ELSE line[s.on]
<1> SUFFICES ASSUME ~(Fails /\ UNCHANGED known)
             PROVE  /\ Proceeds
                    /\ known' = [known EXCEPT ![s.on] = Learnt(known[s.on], s.what, Filed(s.on, s.what, Answer(s.on, s.what)))]
  OBVIOUS
<1>1. before = <<>>
  OBVIOUS
<1>2. PICK l \in {before \o Reply(s.on, s.what, config[s.on].codes), before \o Line("ERROR", s.what, "none"), before} :
         /\ Matches(l, kinds) /\ Proceeds
         /\ known' = [known EXCEPT ![s.on] = Learnt(known[s.on], s.what, Filed(s.on, s.what, value(l)))]
  BY DEF Query
<1>3. l \in {<<>> \o Reply(s.on, s.what, config[s.on].codes), <<>> \o Line("ERROR", s.what, "none"), <<>>}
  BY <1>1, <1>2
<1>4. PICK q, w, c : q = s.on /\ w = s.what /\ c = config[s.on].codes
  OBVIOUS
<1>5. Matches(l, Expected(q, w)) /\ l \in {<<>> \o Reply(q, w, c), <<>> \o Line("ERROR", w, "none"), <<>>}
  BY <1>2, <1>3, <1>4
<1>6. l[CHOOSE i \in DOMAIN Expected(q, w) : Expected(q, w)[i] = "DATA"].value = Answer(q, w)
  BY <1>5, AnswerTaken
<1>7. value(l) = Answer(s.on, s.what)
  BY <1>4, <1>6
<1> QED
  BY <1>2, <1>7

(* What a step does to the settings that the lock is about.                *)
LEMMA EffectOn ==
  ASSUME NEW c, NEW what, NEW value
  PROVE  /\ "mode" \in DOMAIN c =>
              Effect(c, what, value).mode = IF what = "mode" THEN value ELSE c.mode
         /\ "plock" \in DOMAIN c =>
              Effect(c, what, value).plock = IF what = "plock" THEN value ELSE c.plock
  BY DEF Effect

LEMMA SentMode ==
  ASSUME NEW s, s.value \in {"asleep", "reset"}
  PROVE  Sent(s) = s.value
  BY DEF Sent

LEMMA SettingsChange ==
  ASSUME Typed, program \in Examples, Changes, NEW p \in DOMAIN config
  PROVE  \/ config'[p] = config[p]
         \/ config'[p].mode = "awake" /\ config'[p].plock = config[p].plock
         \/ /\ todo # <<>> /\ Head(todo).op = "tell" /\ Head(todo).on = p
            /\ config'[p] = Effect(config[p], Head(todo).what, Sent(Head(todo)))
<1>1. {"mode", "plock"} \subseteq DOMAIN config[p]
  BY HasMode
<1> DEFINE q == Head(todo).on
<1>2. CASE q # p
  BY <1>2 DEF Changes
<1>3. CASE q = p
  <2>1. CASE UNCHANGED config
    BY <2>1
  <2>2. CASE /\ todo # <<>> /\ Due("tell")
             /\ config' = [config EXCEPT ![Head(todo).on]
                             = Effect(config[Head(todo).on], Head(todo).what, Sent(Head(todo)))]
    BY <1>3, <2>2 DEF Due
  <2>3. CASE config' = [config EXCEPT ![Head(todo).on] = [config[Head(todo).on] EXCEPT !.mode = "awake"]]
    BY <1>1, <1>3, <2>3
  <2> QED
    BY <2>1, <2>2, <2>3 DEF Changes
<1> QED
  BY <1>2, <1>3

(* A program that does not switch circuits over. *)
Unswitched ==
  todo \in Seq(Calm) /\ \A p \in DOMAIN config : config[p].mode \notin {"i2c", "new baud"}

LEMMA StaysUnswitched ==
  ASSUME Typed, program \in Examples, Unswitched, [Next]_vars
  PROVE  Unswitched'
<1>1. Changes /\ DOMAIN config' = DOMAIN config
  BY StepChanges, StepConfig
<1>2. todo' \in Seq(Calm)
  <2>1. \A s \in Calm : Chunk(s) \in Calm
    BY ChunkIsStep DEF Calm, Switches
  <2>2. Calm \subseteq AnyStep
    BY CalmKinds
  <2> QED
    BY <2>1, <2>2, StepKeeps DEF Unswitched
<1>3. ASSUME NEW p \in DOMAIN config PROVE config'[p].mode \notin {"i2c", "new baud"}
  <2>1. config[p].mode \notin {"i2c", "new baud"} /\ {"mode", "plock"} \subseteq DOMAIN config[p]
    BY HasMode DEF Unswitched
  <2>2. CASE /\ todo # <<>> /\ Head(todo).op = "tell" /\ Head(todo).on = p
             /\ config'[p] = Effect(config[p], Head(todo).what, Sent(Head(todo)))
    <3>1. Head(todo) \in Calm
      BY <2>2, HeadTailProperties DEF Unswitched
    <3>2. Head(todo).what = "mode" => Head(todo).value \in {"asleep", "reset"}
      BY <2>2, <3>1 DEF Calm, Switches
    <3>3. Head(todo).what = "mode" => Sent(Head(todo)) \in {"asleep", "reset"}
      BY <3>2, SentMode
    <3>4. config'[p].mode = IF Head(todo).what = "mode" THEN Sent(Head(todo)) ELSE config[p].mode
      <4>1. PICK c, what, value : c = config[p] /\ what = Head(todo).what /\ value = Sent(Head(todo))
        OBVIOUS
      <4>2. config'[p] = Effect(c, what, value) /\ "mode" \in DOMAIN c
        BY <2>1, <2>2, <4>1
      <4>3. config'[p].mode = IF what = "mode" THEN value ELSE c.mode
        BY <4>2, EffectOn
      <4> QED
        BY <4>1, <4>3
    <3> QED
      BY <2>1, <3>3, <3>4
  <2> QED
    BY <1>1, <2>1, <2>2, SettingsChange
<1> QED
  BY <1>1, <1>2, <1>3 DEF Unswitched

(* A program that looks at the lock first.                                 *)
Knows(p) == "plock" \in DOMAIN known[p]

Guarding(p) ==
  /\ todo \in Seq(KeepsLock)
  /\ Knows(p) => known[p].plock = config[p].plock
  /\ After(todo, AsksLock(p), NeedsLock(p)) \/ Knows(p)
  /\ After(todo, NeedsLock(p), Switching(p)) \/ config[p].plock = "off"
  /\ config[p].mode \in {"i2c", "new baud"} => config[p].plock = "off"

LEMMA LearntLock ==
  ASSUME NEW facts, NEW what, NEW value
  PROVE  /\ "plock" \in DOMAIN Learnt(facts, what, value) <=> "plock" \in DOMAIN facts \/ what = "plock"
         /\ Learnt(facts, "plock", value).plock = value
         /\ what # "plock" /\ "plock" \in DOMAIN facts => Learnt(facts, what, value).plock = facts.plock
  BY DEF Learnt

(* What a step makes known of the lock. *)
LEMMA LockLearnt ==
  ASSUME Typed, program \in Examples, NEW p \in DOMAIN config, [Next]_vars,
         Due("ask") /\ Head(todo).on = p => bus = "i2c" \/ line[p] = <<>>
  PROVE  \/ /\ Knows(p)' <=> Knows(p)
            /\ Knows(p) => known'[p].plock = known[p].plock
            /\ todo # <<>> /\ Head(todo) \in AsksLock(p) => UNCHANGED todo \/ todo' = <<>>
         \/ Knows(p)' /\ known'[p].plock = config[p].plock
<1>1. p \in DOMAIN known /\ "plock" \in DOMAIN config[p]
  BY HasMode DEF Typed, ProgramTypeOK
<1>2. CASE Query /\ Head(todo).on = p
  <2> DEFINE s == Head(todo)
  <2>1. PICK what : what = s.what
    OBVIOUS
  <2>2. \/ Fails /\ UNCHANGED known
        \/ known' = [known EXCEPT ![p] = Learnt(known[p], what, Filed(p, what, Answer(p, what)))]
    <3>1. Due("ask")
      BY <1>2 DEF Query
    <3>2. bus = "i2c" \/ line[p] = <<>>
      BY <1>2, <3>1
    <3> QED
      BY <1>2, <2>1, <3>2, QueryReads
  <2>3. CASE Fails /\ UNCHANGED known
    <3>1. s \in AsksLock(p) => todo' = <<>>
      BY <2>3 DEF Fails, Stops, AsksLock
    <3> QED
      BY <2>3, <3>1 DEF Knows
  <2>4. CASE known' = [known EXCEPT ![p] = Learnt(known[p], what, Filed(p, what, Answer(p, what)))]
    <3> DEFINE v == Filed(p, what, Answer(p, what))
    <3>1. known'[p] = Learnt(known[p], what, v)
      BY <1>1, <2>4
    <3>2. CASE what = "plock"
      <4>1. v = config[p].plock
        BY <1>1, <3>2 DEF Filed, Answer
      <4> HIDE DEF v
      <4>2. "plock" \in DOMAIN known'[p] /\ known'[p].plock = v
        BY <3>1, <3>2, LearntLock
      <4> QED
        BY <4>1, <4>2 DEF Knows
    <3>3. CASE what # "plock"
      <4>1. s \notin AsksLock(p)
        BY <2>1, <3>3 DEF AsksLock
      <4> HIDE DEF v
      <4>2. /\ "plock" \in DOMAIN known'[p] <=> "plock" \in DOMAIN known[p]
            /\ "plock" \in DOMAIN known[p] => known'[p].plock = known[p].plock
        BY <3>1, <3>3, LearntLock
      <4> QED
        BY <4>1, <4>2 DEF Knows
    <3> QED
      BY <3>2, <3>3
  <2> QED
    BY <2>2, <2>3, <2>4
<1>3. CASE ~(Query /\ Head(todo).on = p)
  <2>1. \/ known'[p] = known[p]
        \/ known'[p] = [known[p] EXCEPT !.codes = "on"]
        \/ known'[p] = Learnt(known[p], "celsius", ToCelsius(known[p].read))
    <3>1. CASE Query
      BY <1>1, <1>3, <3>1 DEF Query
    <3>2. CASE ReadOk
      BY <1>1, <3>2 DEF ReadOk
    <3>3. CASE ConvertToCelsius
      BY <1>1, <3>3 DEF ConvertToCelsius
    <3>4. CASE ~Query /\ ~ReadOk /\ ~ConvertToCelsius
      <4>1. UNCHANGED known
        BY <3>4 DEF Next, Skip, OpenSession, Discard, Command, SendExport,
           ReadChunkUart, ReadChunkI2c, ImportResultUart, ImportResultI2c, Decide,
           RaiseFirstError, Finish, Ended, vars
      <4> QED
        BY <4>1
    <3> QED
      BY <3>1, <3>2, <3>3, <3>4
  <2>2. /\ Knows(p)' <=> Knows(p)
        /\ Knows(p) => known'[p].plock = known[p].plock
    <3>1. CASE known'[p] = known[p]
      BY <3>1 DEF Knows
    <3>2. CASE known'[p] = [known[p] EXCEPT !.codes = "on"]
      BY <3>2 DEF Knows
    <3>3. CASE known'[p] = Learnt(known[p], "celsius", ToCelsius(known[p].read))
      <4> DEFINE v == ToCelsius(known[p].read)
      <4> HIDE DEF v
      <4>1. known'[p] = Learnt(known[p], "celsius", v)
        BY <3>3 DEF v
      <4>2. /\ "plock" \in DOMAIN known'[p] <=> "plock" \in DOMAIN known[p]
            /\ "plock" \in DOMAIN known[p] => known'[p].plock = known[p].plock
        BY <4>1, LearntLock
      <4> QED
        BY <4>2 DEF Knows
    <3> QED
      BY <2>1, <3>1, <3>2, <3>3
  <2>3. ASSUME todo # <<>>, Head(todo) \in AsksLock(p) PROVE UNCHANGED todo
    <3>1. Head(todo).op = "ask" /\ Head(todo).on = p /\ Holds(Head(todo).when, Head(todo).on)
      BY <2>3 DEF AsksLock, Holds
    <3>2. CASE Next
      BY <1>3, <2>3, <3>1, <3>2 DEF Next, Skip, OpenSession, Discard, Query, Command, ReadOk, SendExport,
         ReadChunkUart, ReadChunkI2c, ImportResultUart, ImportResultI2c, ConvertToCelsius, Decide,
         RaiseFirstError, Finish, Ended, vars, Due
    <3>3. CASE UNCHANGED vars
      BY <3>3 DEF vars
    <3> QED
      BY <3>2, <3>3
  <2> QED
    BY <2>2, <2>3
<1> QED
  BY <1>2, <1>3

LEMMA AfterMove ==
  ASSUME NEW A, NEW B, \A e \in B : e.op # "chunk", todo \in Seq(AnyStep), Moves, After(todo, A, B),
         todo # <<>> /\ Head(todo) \in A => UNCHANGED todo \/ todo' = <<>>
  PROVE  After(todo', A, B)
<1>1. CASE UNCHANGED todo
  BY <1>1
<1>2. CASE todo' = <<>>
  BY <1>2, NothingNeeded
<1>3. CASE todo # <<>> /\ todo' = Tail(todo)
  <2>1. CASE Head(todo) \in A
    BY <1>1, <1>2, <1>3, <2>1
  <2>2. CASE Head(todo) \notin A
    BY <1>3, <2>2, AfterTail
  <2> QED
    BY <2>1, <2>2
<1>4. CASE Due("export") /\ todo' = <<Chunk(Head(todo))>> \o todo
  <2>1. todo # <<>>
    BY <1>4 DEF Due
  <2> DEFINE c == Chunk(Head(todo))
             t == <<c>>
  <2>2. t \in Seq(AnyStep) /\ Len(t) = 1 /\ t[1] = c /\ c.op = "chunk" /\ 1 .. 1 = {1}
    BY <2>1, ChunkPrefix
  <2> HIDE DEF c, t
  <2>3. ~Has(t, B)
    BY <2>2 DEF Has
  <2>4. After(t \o todo, A, B)
    BY <2>2, <2>3, LacksOrders, AfterJoint
  <2> QED
    BY <1>4, <2>4 DEF c, t
<1> QED
  BY <1>1, <1>2, <1>3, <1>4 DEF Moves

LEMMA StaysGuarding ==
  ASSUME Typed, program \in Examples, NEW p \in DOMAIN config, Guarding(p), [Next]_vars,
         Due("ask") /\ Head(todo).on = p => bus = "i2c" \/ line[p] = <<>>
  PROVE  Guarding(p)'
<1>1. Changes /\ Moves /\ DOMAIN config' = DOMAIN config
  BY StepChanges, StepMoves, StepConfig
<1>2. KeepsLock \subseteq AnyStep /\ todo \in Seq(AnyStep)
  <2>1. KeepsLock \subseteq AnyStep
    BY DEF KeepsLock
  <2> QED
    BY <2>1, SeqMonotonic DEF Guarding
<1>3. todo' \in Seq(KeepsLock)
  <2>1. \A s \in KeepsLock : Chunk(s) \in KeepsLock
    BY ChunkIsStep DEF KeepsLock, SetsLock
  <2> QED
    BY <1>2, <2>1, StepKeeps DEF Guarding
<1>4. /\ config'[p].plock = config[p].plock
      /\ config'[p].mode \in {"i2c", "new baud"} => config[p].plock = "off"
  <2>1. {"mode", "plock"} \subseteq DOMAIN config[p]
    BY HasMode
  <2>2. CASE /\ todo # <<>> /\ Head(todo).op = "tell" /\ Head(todo).on = p
             /\ config'[p] = Effect(config[p], Head(todo).what, Sent(Head(todo)))
    <3> DEFINE s == Head(todo)
    <3>1. s \in KeepsLock /\ s \in AnyStep
      BY <1>2, <2>2, HeadTailProperties DEF Guarding
    <3>2. s.what # "plock"
      BY <2>2, <3>1 DEF KeepsLock, SetsLock
    <3>3. PICK c, what, value : c = config[p] /\ what = s.what /\ value = Sent(s)
      OBVIOUS
    <3>4. config'[p] = Effect(c, what, value) /\ "mode" \in DOMAIN c /\ "plock" \in DOMAIN c
      BY <2>1, <2>2, <3>3
    <3>5. /\ config'[p].mode = IF what = "mode" THEN value ELSE c.mode
          /\ config'[p].plock = IF what = "plock" THEN value ELSE c.plock
      BY <3>4, EffectOn
    <3>6. CASE what # "mode"
      BY <3>2, <3>3, <3>5, <3>6 DEF Guarding
    <3>7. CASE what = "mode" /\ s.value \in {"asleep", "reset"}
      <4>1. value \in {"asleep", "reset"}
        BY <3>3, <3>7, SentMode
      <4> QED
        BY <3>2, <3>3, <3>5, <3>7, <4>1
    <3>8. CASE what = "mode" /\ s.value \notin {"asleep", "reset"}
      <4>1. s \in Switching(p)
        BY <2>2, <3>1, <3>3, <3>8 DEF Switching, Switches
      <4>2. ~After(todo, NeedsLock(p), Switching(p))
        BY <1>2, <2>2, <4>1, AfterTail
      <4>3. config[p].plock = "off"
        BY <4>2 DEF Guarding
      <4> QED
        BY <3>2, <3>3, <3>5, <4>3
    <3> QED
      BY <3>6, <3>7, <3>8
  <2> QED
    BY <1>1, <2>1, <2>2, SettingsChange DEF Guarding
<1>5. Knows(p)' => known'[p].plock = config'[p].plock
  BY <1>4, LockLearnt DEF Guarding
<1>6. After(todo', AsksLock(p), NeedsLock(p)) \/ Knows(p)'
  <2>1. CASE Knows(p)
    BY <2>1, LockLearnt
  <2>2. CASE Knows(p)'
    BY <2>2
  <2>3. CASE ~Knows(p) /\ ~Knows(p)'
    <3>1. todo # <<>> /\ Head(todo) \in AsksLock(p) => UNCHANGED todo \/ todo' = <<>>
      BY <2>3, LockLearnt
    <3>2. After(todo, AsksLock(p), NeedsLock(p))
      BY <2>3 DEF Guarding
    <3>3. \A e \in NeedsLock(p) : e.op # "chunk"
      BY DEF NeedsLock
    <3> QED
      BY <1>1, <1>2, <3>1, <3>2, <3>3, AfterMove
  <2> QED
    BY <2>1, <2>2, <2>3
<1>7. After(todo', NeedsLock(p), Switching(p)) \/ config'[p].plock = "off"
  <2>1. CASE config[p].plock = "off"
    BY <1>4, <2>1
  <2>2. CASE config[p].plock # "off"
    <3>1. After(todo, NeedsLock(p), Switching(p))
      BY <2>2 DEF Guarding
    <3>2. \A e \in Switching(p) : e.op # "chunk"
      BY DEF Switching, Switches
    <3>3. ASSUME todo # <<>>, Head(todo) \in NeedsLock(p)
          PROVE  UNCHANGED todo \/ todo' = <<>>
      <4>1. ~After(todo, AsksLock(p), NeedsLock(p))
        BY <1>2, <3>3, AfterTail
      <4>2. known[p].plock # "off"
        BY <2>2, <4>1 DEF Guarding
      <4>3. Head(todo).op = "need" /\ Head(todo).on = p /\ Head(todo).what = "unlocked"
            /\ Head(todo).when = "always"
        BY <3>3 DEF NeedsLock
      <4>4. ~Holds(Head(todo).what, Head(todo).on) /\ Holds(Head(todo).when, Head(todo).on)
        BY <4>2, <4>3 DEF Holds
      <4>5. CASE Decide
        BY <4>4, <4>5 DEF Decide, Stops
      <4>6. CASE Next /\ ~Decide
        BY <3>3, <4>3, <4>4, <4>6 DEF Next, Skip, OpenSession, Discard, Query, Command, ReadOk,
           SendExport, ReadChunkUart, ReadChunkI2c, ImportResultUart, ImportResultI2c,
           ConvertToCelsius, RaiseFirstError, Finish, Ended, vars, Due
      <4>7. CASE UNCHANGED vars
        BY <4>7 DEF vars
      <4> QED
        BY <4>5, <4>6, <4>7
    <3>4. After(todo', NeedsLock(p), Switching(p))
      BY <1>1, <1>2, <3>1, <3>2, <3>3, AfterMove
    <3> QED
      BY <3>4
  <2> QED
    BY <2>1, <2>2
<1> QED
  BY <1>3, <1>4, <1>5, <1>6, <1>7 DEF Guarding

(* The inductive invariant: no step of the script switches a circuit over, *)
(* or the script guards every switch.                                      *)
Careful == Unswitched \/ \A p \in DOMAIN config : Guarding(p)

LEMMA InitCareful ==
  ASSUME Init
  PROVE  Careful
<1> DEFINE n == program.name
           on == program.on
<1>1. program \in Examples
  BY ProgramAssumption DEF Init
<1>2. on \in MadeFor(n) /\ on \in Products
  BY <1>1, ExamplePairs
<1>3. DOMAIN config = Uses(n, on) /\ \A p \in DOMAIN config : config[p] \in Circuits[p]
  BY DEF Init, SettingsOf
<1>4. ASSUME NEW p \in DOMAIN config PROVE p \in Products /\ config[p].mode = "awake"
  <2>1. p \in Products
    BY <1>2, <1>3, UsesProducts
  <2> QED
    BY <1>3, <2>1, ProgramAssumption
<1>5. todo \in {Script(n, on, flags), ScriptOverI2c(n, on, flags)}
  BY DEF Init
<1>6. CASE n # "transport_switch"
  <2>1. flags \in OptionsOf(n) \cup OptionsOverI2c(n)
    BY DEF Init
  <2>2. todo \in Seq(Calm)
    BY <1>2, <1>5, <1>6, <2>1, ScriptsCalm
  <2> QED
    BY <1>4, <2>2 DEF Careful, Unswitched
<1>7. CASE n = "transport_switch"
  <2>1. DOMAIN config = {on}
    BY <1>3, <1>7 DEF Uses
  <2>2. Guarded(todo, on)
    BY <1>2, <1>5, <1>7, TransportSwitchGuarded
  <2>3. ~Knows(on)
    <3>1. known[on] = <<>>
      BY <2>1 DEF Init
    <3>2. DOMAIN <<>> = {}
      OBVIOUS
    <3> QED
      BY <3>1, <3>2 DEF Knows
  <2>4. Guarding(on)
    BY <1>4, <2>1, <2>2, <2>3 DEF Guarded, Guarding
  <2> QED
    BY <2>1, <2>4 DEF Careful
<1> QED
  BY <1>6, <1>7

(* Before a question nothing is left unread over a UART. *)
LEMMA AsksInStep ==
  ASSUME Typed, Steady, program \in Examples, NEW p \in DOMAIN config, Due("ask"), Head(todo).on = p
  PROVE  bus = "i2c" \/ line[p] = <<>>
<1> SUFFICES ASSUME bus = "uart" PROVE line[p] = <<>>
  BY DEF Typed, ProgramTypeOK
<1>1. Flows(todo, DOMAIN config) /\ InStep(p)
  BY DEF Steady
<1>2. todo # <<>> /\ Head(todo).op = "ask"
  BY DEF Due
<1>3. Head(todo) \in Needy(p)
  BY <1>1, <1>2, FlowsTail DEF Needy
<1>4. p \in Words
  BY HasMode, ProductsAreWords
<1> QED
  BY <1>1, <1>2, <1>3, <1>4, NeedyLine

LEMMA StepCareful ==
  ASSUME Typed, Steady, Careful, [Next]_vars
  PROVE  Careful'
<1>1. program \in Examples /\ DOMAIN config' = DOMAIN config
  BY StepExamples, StepConfig
<1>2. CASE Unswitched
  BY <1>1, <1>2, StaysUnswitched DEF Careful
<1>3. CASE \A p \in DOMAIN config : Guarding(p)
  <2>1. ASSUME NEW p \in DOMAIN config PROVE Guarding(p)'
    BY <1>1, <1>3, AsksInStep, StaysGuarding
  <2> QED
    BY <1>1, <2>1 DEF Careful
<1> QED
  BY <1>2, <1>3 DEF Careful

(* No example program leaves a circuit switched over, or changing its baud *)
(* rate, whose protocol lock is on: transport_switch.c reads the lock from *)
(* the circuit itself, and no answer to another question passes for it.    *)
THEOREM SwitchesAreUnlocked == Spec => []SwitchedUnlocked
<1>1. Init => Typed /\ Steady /\ Careful
  BY InitTyped, InitSteady, InitCareful
<1>2. Typed /\ Steady /\ Careful /\ [Next]_vars => Typed' /\ Steady' /\ Careful'
  BY StepTyped, StepSteady, StepCareful
<1>3. Careful => SwitchedUnlocked
  BY DEF Careful, Unswitched, Guarding, SwitchedUnlocked
<1> QED
  BY <1>1, <1>2, <1>3, PTL DEF Spec

-----------------------------------------------------------------------------
(***************************************************************************)
(* Compensation.                                                           *)
(***************************************************************************)
AsksFor(p, what) ==
  {s \in AnyStep : /\ s.op = "ask" /\ s.on = p /\ s.what = what
                   /\ s.when = "always" /\ s.failing = "stops"}

Converts ==
  {s \in AnyStep : s.op = "celsius" /\ s.on = "RTD" /\ s.what = "read" /\ s.when = "always"}

NeedsSalinity ==
  {s \in AnyStep : s.op = "need" /\ s.on = "EC" /\ s.what = "salinity measured" /\ s.when = "always"}

Sets(what) == {s \in AnyStep : s.op = "tell" /\ s.what = what}

(* The steps of a compensation program.                                    *)
Measures(s) ==
  /\ s.op \in {"ask", "celsius", "need"} => s.when \in {"always", "never"} /\ s.failing = "stops"
  /\ s.op = "ask" => s.what # "celsius"
  /\ s.op = "celsius" => s.on = "RTD" /\ s.what = "read"
  /\ s.op = "tell" =>
       /\ s.what \notin {"scale", "output", "output_on", "output_off"}
       /\ s.what = "temperature" => s.value = "celsius"
       /\ s.what = "salinity" => s.value = "ppt"

Measuring == {s \in AnyStep : Measures(s)}

(* The temperature a script sets comes from a reading of the RTD circuit,  *)
(* and the scale of that from the circuit as well.                         *)
SetsTemperature(s) ==
  /\ After(s, AsksFor("RTD", "scale"), AsksFor("RTD", "read"))
  /\ After(s, AsksFor("RTD", "read"), Converts)
  /\ After(s, Converts, Sets("temperature"))

(* The salinity it sets comes from the EC circuit, if that reports it.     *)
SetsSalinity(s) ==
  /\ After(s, AsksFor("EC", "output"), AsksFor("EC", "read"))
  /\ After(s, AsksFor("EC", "read"), NeedsSalinity)
  /\ After(s, NeedsSalinity, Sets("salinity"))

LEMMA MeasuringKinds ==
  /\ Measuring \subseteq AnyStep
  /\ \A s \in Measuring : Made(s, "never", s.failing) \in Measuring /\ Chunk(s) \in Measuring
<1>1. "never" \in Words
  BY AllWords
<1>2. ASSUME NEW s \in Measuring PROVE Made(s, "never", s.failing) \in Measuring
  <2> DEFINE t == Made(s, "never", s.failing)
  <2>1. s \in AnyStep /\ Measures(s)
    BY DEF Measuring
  <2>2. t \in AnyStep /\ t.op = s.op /\ t.on = s.on /\ t.what = s.what /\ t.value = s.value
        /\ t.when = "never" /\ t.failing = s.failing
    BY <1>1, <2>1, MadeWhen
  <2> HIDE DEF t
  <2>3. t \in Measuring
    BY <2>1, <2>2 DEF Measuring, Measures
  <2> QED
    BY <2>3 DEF t
<1>3. ASSUME NEW s \in Measuring PROVE Chunk(s) \in Measuring
  <2>1. s \in AnyStep
    BY DEF Measuring
  <2>2. Chunk(s) \in AnyStep /\ Chunk(s).op = "chunk"
    BY <2>1, ChunkIsStep
  <2> QED
    BY <2>2 DEF Measuring, Measures
<1> QED
  BY <1>2, <1>3 DEF Measuring

(* Over I2C none of these steps is left out. *)
LEMMA MeasuresOverI2c ==
  ASSUME NEW A \in {AsksFor("RTD", "scale"), AsksFor("RTD", "read"), Converts, Sets("temperature"),
                    AsksFor("EC", "output"), AsksFor("EC", "read"), NeedsSalinity, Sets("salinity")}
  PROVE  /\ \A e \in A : ~OnlyOverUart(e)
         /\ \A e \in AnyStep : OnlyOverUart(e) => Made(e, "never", e.failing) \notin A
<1>1. \A e \in A : ~OnlyOverUart(e)
  BY DEF AsksFor, Converts, Sets, NeedsSalinity, OnlyOverUart
<1>2. ASSUME NEW e \in AnyStep, OnlyOverUart(e) PROVE Made(e, "never", e.failing) \notin A
  <2> DEFINE t == Made(e, "never", e.failing)
  <2>1. "never" \in Words
    BY AllWords
  <2>3. t.op = e.op /\ t.what = e.what
    BY <2>1, MadeWhen
  <2> HIDE DEF t
  <2>2. ~(\A x \in {t} : ~OnlyOverUart(x))
    BY <1>2, <2>3 DEF OnlyOverUart
  <2>4. t \notin A
    BY <1>1, <2>2
  <2> QED
    BY <2>4 DEF t
<1> QED
  BY <1>1, <1>2

(* An order that begins in the look of a program, on both transports. *)
LEMMA AppliedAfter ==
  ASSUME NEW f, NEW look \in Seq(AnyStep), NEW apply \in Seq(AnyStep), NEW A, NEW B,
         After(look, A, B), Has(look, A) \/ After(apply, A, B),
         \A e \in A : ~OnlyOverUart(e),
         \A e \in AnyStep : OnlyOverUart(e) => Made(e, "never", e.failing) \notin B
  PROVE  /\ After(Applied(f, look, apply), A, B)
         /\ After(Applied(f, OverI2c(look), OverI2c(apply)), A, B)
<1>1. ASSUME NEW s \in Seq(AnyStep), NEW t \in Seq(AnyStep), After(s, A, B), Has(s, A) \/ After(t, A, B)
      PROVE  After(Applied(f, s, t), A, B)
  <2> DEFINE u == If("apply" \in f, t)
  <2>1. u \in Seq(AnyStep)
    BY <1>1, Optional
  <2>2. Has(s, A) \/ After(u, A, B)
    BY <1>1, NothingNeeded DEF If
  <2> HIDE DEF u
  <2>3. After(s \o u, A, B)
    BY <1>1, <2>1, <2>2, AfterJoint
  <2> QED
    BY <2>3 DEF Applied, u
<1>2. OverI2c(look) \in Seq(AnyStep) /\ OverI2c(apply) \in Seq(AnyStep)
  BY OverI2cParts
<1>3. /\ After(OverI2c(look), A, B) /\ (Has(look, A) => Has(OverI2c(look), A))
      /\ (After(apply, A, B) => After(OverI2c(apply), A, B))
  BY OverI2cAfter
<1> QED
  BY <1>1, <1>2, <1>3

(* What a look has found out, and what is then left to be done in order. *)
FindsTemperature(s) ==
  /\ SetsTemperature(s)
  /\ Has(s, AsksFor("RTD", "scale")) /\ Has(s, AsksFor("RTD", "read")) /\ Has(s, Converts)

FindsSalinity(s) ==
  /\ SetsSalinity(s)
  /\ Has(s, AsksFor("EC", "output")) /\ Has(s, AsksFor("EC", "read"))

LEMMA AppliedTemperature ==
  ASSUME NEW f, NEW look \in Seq(AnyStep), NEW apply \in Seq(AnyStep),
         SetsTemperature(look), FindsTemperature(look) \/ SetsTemperature(apply)
  PROVE  /\ SetsTemperature(Applied(f, look, apply))
         /\ SetsTemperature(Applied(f, OverI2c(look), OverI2c(apply)))
  BY MeasuresOverI2c, AppliedAfter DEF SetsTemperature, FindsTemperature

LEMMA AppliedSalinity ==
  ASSUME NEW f, NEW look \in Seq(AnyStep), NEW apply \in Seq(AnyStep), SetsSalinity(look),
         (FindsSalinity(look) /\ After(apply, NeedsSalinity, Sets("salinity"))) \/ SetsSalinity(apply)
  PROVE  /\ SetsSalinity(Applied(f, look, apply))
         /\ SetsSalinity(Applied(f, OverI2c(look), OverI2c(apply)))
  BY MeasuresOverI2c, AppliedAfter DEF SetsSalinity, FindsSalinity

(* Steps that neither measure a temperature nor set one; and a salinity.   *)
LeavesTemperature ==
  {s \in AnyStep : s \notin AsksFor("RTD", "read") /\ s \notin Converts /\ s \notin Sets("temperature")}

LeavesSalinity ==
  {s \in AnyStep : s \notin AsksFor("EC", "read") /\ s \notin NeedsSalinity /\ s \notin Sets("salinity")}

Aside == Measuring \cap LeavesTemperature \cap LeavesSalinity

LEMMA AsideKinds ==
  /\ Aside \subseteq Measuring /\ Aside \subseteq LeavesTemperature /\ Aside \subseteq LeavesSalinity
  /\ LeavesTemperature \subseteq AnyStep /\ LeavesSalinity \subseteq AnyStep /\ Aside \subseteq AnyStep
  /\ Measuring \cap LeavesSalinity \subseteq Measuring
  /\ Measuring \cap LeavesSalinity \subseteq LeavesSalinity
  /\ Measuring \cap LeavesTemperature \subseteq Measuring
  /\ Measuring \cap LeavesTemperature \subseteq LeavesTemperature
  BY DEF Aside, LeavesTemperature, LeavesSalinity

LEMMA LeavesInOrder ==
  ASSUME NEW s
  PROVE  /\ s \in Seq(LeavesTemperature) => SetsTemperature(s)
         /\ s \in Seq(LeavesSalinity) => SetsSalinity(s)
<1>1. ASSUME s \in Seq(LeavesTemperature) PROVE SetsTemperature(s)
  <2>1. ~Has(s, AsksFor("RTD", "read")) /\ ~Has(s, Converts) /\ ~Has(s, Sets("temperature"))
    <3>1. \A e \in LeavesTemperature :
            e \notin AsksFor("RTD", "read") /\ e \notin Converts /\ e \notin Sets("temperature")
      BY DEF LeavesTemperature
    <3> QED
      BY <1>1, <3>1, LacksKind
  <2> QED
    BY <2>1, LacksOrders DEF SetsTemperature
<1>2. ASSUME s \in Seq(LeavesSalinity) PROVE SetsSalinity(s)
  <2>1. ~Has(s, AsksFor("EC", "read")) /\ ~Has(s, NeedsSalinity) /\ ~Has(s, Sets("salinity"))
    <3>1. \A e \in LeavesSalinity :
            e \notin AsksFor("EC", "read") /\ e \notin NeedsSalinity /\ e \notin Sets("salinity")
      BY DEF LeavesSalinity
    <3> QED
      BY <1>2, <3>1, LacksKind
  <2> QED
    BY <2>1, LacksOrders DEF SetsSalinity
<1> QED
  BY <1>1, <1>2

LEMMA CallAside ==
  ASSUME NEW s \in AnyStep,
         s.op \in {"open", "discard", "ack"} \/ (s.op = "tell" /\ s.what \in {"codes", "pressure"})
  PROVE  s \in Aside
  BY DEF Aside, Measuring, Measures, LeavesTemperature, LeavesSalinity, AsksFor, Converts, NeedsSalinity, Sets

LEMMA AskAside ==
  ASSUME NEW p \in Words, NEW what \in Words
  PROVE  LET s == Call("ask", p, what, "none") IN
         /\ s \in AsksFor(p, what) /\ s \in AnyStep
         /\ what # "celsius" => s \in Measuring
         /\ p # "RTD" \/ what # "read" => s \in LeavesTemperature
         /\ p # "EC" \/ what # "read" => s \in LeavesSalinity
<1> DEFINE s == Call("ask", p, what, "none")
<1>1. "ask" \in Words /\ "none" \in Words
  BY AllWords
<1>2. s \in AnyStep /\ s.op = "ask" /\ s.on = p /\ s.what = what /\ s.when = "always" /\ s.failing = "stops"
  BY <1>1, CallIsStep
<1> HIDE DEF s
<1>3. s \in AsksFor(p, what)
  BY <1>2 DEF AsksFor
<1>4. what # "celsius" => s \in Measuring
  BY <1>2 DEF Measuring, Measures
<1>5. /\ p # "RTD" \/ what # "read" => s \in LeavesTemperature
      /\ p # "EC" \/ what # "read" => s \in LeavesSalinity
  BY <1>2 DEF LeavesTemperature, LeavesSalinity, AsksFor, Converts, NeedsSalinity, Sets
<1> QED
  BY <1>2, <1>3, <1>4, <1>5 DEF s

LEMMA AsksAside ==
  ASSUME NEW p \in Words, NEW whats \in Seq(Words \ {"celsius"})
  PROVE  /\ Asks(p, whats) \in Seq(Measuring) /\ Asks(p, whats) \in Seq(AnyStep)
         /\ Len(Asks(p, whats)) = Len(whats) /\ Len(whats) \in Nat
         /\ \A i \in 1 .. Len(whats) :
              whats[i] \in Words /\ Asks(p, whats)[i] \in AsksFor(p, whats[i])
         /\ p # "RTD" => Asks(p, whats) \in Seq(LeavesTemperature)
         /\ p # "EC" => Asks(p, whats) \in Seq(LeavesSalinity)
         /\ p \notin {"EC", "RTD"} => Asks(p, whats) \in Seq(Aside)
<1> DEFINE s == Asks(p, whats)
<1>1. Len(whats) \in Nat /\ DOMAIN whats = 1 .. Len(whats)
      /\ \A i \in 1 .. Len(whats) : whats[i] \in Words \ {"celsius"}
  BY LenProperties, ElementOfSeq
<1>2. DOMAIN s = 1 .. Len(whats) /\ s = [i \in 1 .. Len(whats) |-> s[i]]
      /\ \A i \in 1 .. Len(whats) : s[i] = Call("ask", p, whats[i], "none")
  BY <1>1 DEF Asks
<1> HIDE DEF s
<1>3. ASSUME NEW i \in 1 .. Len(whats)
      PROVE  /\ s[i] \in AsksFor(p, whats[i]) /\ s[i] \in AnyStep /\ s[i] \in Measuring
             /\ p # "RTD" => s[i] \in LeavesTemperature
             /\ p # "EC" => s[i] \in LeavesSalinity
  BY <1>1, <1>2, AskAside
<1>4. s \in Seq(Measuring) /\ s \in Seq(AnyStep) /\ Len(s) = Len(whats)
  BY <1>1, <1>2, <1>3, SeqOf
<1>5. p # "RTD" => s \in Seq(LeavesTemperature)
  BY <1>1, <1>2, <1>3, SeqOf
<1>6. p # "EC" => s \in Seq(LeavesSalinity)
  BY <1>1, <1>2, <1>3, SeqOf
<1>7. p \notin {"EC", "RTD"} => s \in Seq(Aside)
  <2>1. p \notin {"EC", "RTD"} => \A i \in 1 .. Len(whats) : s[i] \in Aside
    BY <1>3 DEF Aside
  <2> QED
    BY <1>1, <1>2, <2>1, SeqOf
<1> QED
  BY <1>1, <1>3, <1>4, <1>5, <1>6, <1>7 DEF s

LEMMA BootAside ==
  ASSUME NEW p \in Words
  PROVE  Boot(p) \in Seq(Aside)
<1> DEFINE S == {s \in AnyStep : s.op = "ack" \/ (s.op = "tell" /\ s.what = "codes")}
<1>0. /\ "discard" \in Words /\ "input" \in Words /\ "none" \in Words /\ "codes" \in Words
      /\ "tell" \in Words /\ "on" \in Words /\ "ack" \in Words /\ "codes off" \in Words
  BY AllWords
<1>1. Step("discard", p, "input") \in Seq(Aside)
  <2> DEFINE c == Call("discard", p, "input", "none")
  <2>0. "discard" \in Words /\ "input" \in Words /\ "none" \in Words
    BY <1>0
  <2>1. c \in AnyStep /\ c.op = "discard"
    BY <2>0, CallIsStep
  <2>2. Step("discard", p, "input") = <<c>>
    BY DEF Step
  <2> HIDE DEF c
  <2> QED
    BY <2>1, <2>2, CallAside, One
<1>2. Ask(p, "codes") \in Seq(Aside)
  <2>1. Call("ask", p, "codes", "none") \in Aside
    BY <1>0, AskAside DEF Aside
  <2> QED
    BY <2>1, One DEF Ask, Step
<1>3. Tell(p, "codes", "on") \in Seq(S) /\ Step("ack", p, "codes") \in Seq(S)
  <2> DEFINE c == Call("tell", p, "codes", "on")
             d == Call("ack", p, "codes", "none")
  <2>0. "tell" \in Words /\ "codes" \in Words /\ "on" \in Words
    BY <1>0
  <2>1. c \in AnyStep /\ c.op = "tell" /\ c.what = "codes"
    BY <2>0, CallIsStep
  <2>5. "ack" \in Words /\ "codes" \in Words /\ "none" \in Words
    BY <1>0
  <2>2. d \in AnyStep /\ d.op = "ack"
    BY <2>5, CallIsStep
  <2>3. Tell(p, "codes", "on") = <<c>> /\ Step("ack", p, "codes") = <<d>>
    BY DEF Tell, Step
  <2> HIDE DEF c, d
  <2>4. c \in S /\ d \in S
    BY <2>1, <2>2
  <2> HIDE DEF S
  <2> QED
    BY <2>3, <2>4, One
<1>4. \A s \in S : Made(s, "codes off", s.failing) \in S
  BY <1>0, MadeWhen
<1>5. S \subseteq Aside
  BY CallAside
<1> HIDE DEF S
<1>6. When("codes off", Tell(p, "codes", "on") \o Step("ack", p, "codes")) \in Seq(S)
  BY <1>3, <1>4, Joint, WhenOf
<1>7. When("codes off", Tell(p, "codes", "on") \o Step("ack", p, "codes")) \in Seq(Aside)
  BY <1>5, <1>6, SeqMonotonic
<1> QED
  BY <1>1, <1>2, <1>7, Joint DEF Boot

LEMMA BeginsAside ==
  ASSUME NEW p \in Words, NEW q \in Words, NEW r \in Words
  PROVE  Begins(<<p, q>>) \in Seq(Aside) /\ Begins(<<p, q, r>>) \in Seq(Aside)
<1>0. "open" \in Words /\ "session" \in Words /\ "none" \in Words
  BY AllWords
<1>1. ASSUME NEW c \in Words PROVE Call("open", c, "session", "none") \in Aside
  <2> DEFINE a == Call("open", c, "session", "none")
  <2>1. a \in AnyStep /\ a.op = "open"
    BY <1>0, CallIsStep
  <2> HIDE DEF a
  <2>2. a \in Aside
    BY <2>1, CallAside
  <2> QED
    BY <2>2 DEF a
<1>2. ASSUME NEW ps \in Seq(Words), Len(ps) \in {2, 3} PROVE Begins(ps) \in Seq(Aside)
  <2> DEFINE s == [i \in DOMAIN ps |-> Call("open", ps[i], "session", "none")]
  <2>1. DOMAIN ps = 1 .. Len(ps) /\ Len(ps) \in Nat /\ \A i \in 1 .. Len(ps) : ps[i] \in Words
    BY LenProperties, ElementOfSeq
  <2>2. \A i \in 1 .. Len(ps) : s[i] \in Aside
    BY <1>1, <2>1
  <2>3. DOMAIN s = 1 .. Len(ps) /\ s = [i \in 1 .. Len(ps) |-> s[i]]
    BY <2>1
  <2> HIDE DEF s
  <2>4. s \in Seq(Aside)
    BY <2>1, <2>2, <2>3, SeqOf
  <2>5. 1 \in 1 .. Len(ps) /\ 2 \in 1 .. Len(ps) /\ (Len(ps) = 3 => 3 \in 1 .. Len(ps))
    BY <1>2
  <2>6. Boot(ps[1]) \in Seq(Aside) /\ Boot(ps[2]) \in Seq(Aside) /\ (Len(ps) = 3 => Boot(ps[3]) \in Seq(Aside))
    BY <2>1, <2>5, BootAside
  <2> DEFINE t == IF Len(ps) = 3 THEN Boot(ps[3]) ELSE <<>>
  <2>7. t \in Seq(Aside)
    BY <2>6, EmptySeq
  <2>8. Begins(ps) = s \o Boot(ps[1]) \o Boot(ps[2]) \o t
    BY DEF Begins, s
  <2> HIDE DEF t
  <2> QED
    BY <2>4, <2>6, <2>7, <2>8, Joint
<1>3. <<p, q>> \in Seq(Words) /\ Len(<<p, q>>) = 2 /\ <<p, q, r>> \in Seq(Words) /\ Len(<<p, q, r>>) = 3
  OBVIOUS
<1> QED
  BY <1>2, <1>3

LEMMA SetIs ==
  ASSUME NEW p \in Words, NEW what \in Words, NEW value \in Words
  PROVE  Set(p, what, value)
           \in Seq({s \in AnyStep : s.op = "ack" \/ (s.op = "tell" /\ s.what = what /\ s.value = value)})
<1> DEFINE S == {s \in AnyStep : s.op = "ack" \/ (s.op = "tell" /\ s.what = what /\ s.value = value)}
           c == Call("tell", p, what, value)
           d == Call("ack", p, "OK", "none")
<1>1. c \in AnyStep /\ c.op = "tell" /\ c.what = what /\ c.value = value
  <2>1. "tell" \in Words
    BY AllWords
  <2> QED
    BY <2>1, CallIsStep
<1>2. d \in AnyStep /\ d.op = "ack"
  <2>1. "ack" \in Words /\ "OK" \in Words /\ "none" \in Words
    BY AllWords
  <2> QED
    BY <2>1, CallIsStep
<1>3. Set(p, what, value) = <<c>> \o <<d>>
  BY DEF Set, Tell, Ack, Step
<1> HIDE DEF c, d
<1>4. c \in S /\ d \in S
  BY <1>1, <1>2
<1> HIDE DEF S
<1>5. <<c>> \o <<d>> \in Seq(S)
  BY <1>4, One, Joint
<1> QED
  BY <1>3, <1>5 DEF S

(* What compensation programs set. *)
LEMMA SetsInKind ==
  ASSUME NEW p \in Words
  PROVE  /\ Set(p, "temperature", "celsius") \in Seq(Measuring \cap LeavesSalinity)
         /\ Set(p, "salinity", "ppt") \in Seq(Measuring \cap LeavesTemperature)
         /\ Set(p, "pressure", "planned") \in Seq(Aside)
<1> DEFINE S(what, value) ==
             {s \in AnyStep : s.op = "ack" \/ (s.op = "tell" /\ s.what = what /\ s.value = value)}
<1>1. /\ Set(p, "temperature", "celsius") \in Seq(S("temperature", "celsius"))
      /\ Set(p, "salinity", "ppt") \in Seq(S("salinity", "ppt"))
      /\ Set(p, "pressure", "planned") \in Seq(S("pressure", "planned"))
  <2>1. "temperature" \in Words /\ "celsius" \in Words
    BY AllWords
  <2>2. "salinity" \in Words /\ "ppt" \in Words
    BY AllWords
  <2>3. "pressure" \in Words /\ "planned" \in Words
    BY AllWords
  <2>4. Set(p, "temperature", "celsius") \in Seq(S("temperature", "celsius"))
    BY <2>1, SetIs
  <2>5. Set(p, "salinity", "ppt") \in Seq(S("salinity", "ppt"))
    BY <2>2, SetIs
  <2>6. Set(p, "pressure", "planned") \in Seq(S("pressure", "planned"))
    BY <2>3, SetIs
  <2> QED
    BY <2>4, <2>5, <2>6
<1>2. S("temperature", "celsius") \subseteq Measuring \cap LeavesSalinity
  BY DEF Measuring, Measures, LeavesSalinity, AsksFor, NeedsSalinity, Sets
<1>3. S("salinity", "ppt") \subseteq Measuring \cap LeavesTemperature
  BY DEF Measuring, Measures, LeavesTemperature, AsksFor, Converts, Sets
<1>4. S("pressure", "planned") \subseteq Aside
  BY CallAside
<1> QED
  BY <1>1, <1>2, <1>3, <1>4, SeqMonotonic

(* The order of two questions in one list of them. *)
LEMMA AsksInOrder ==
  ASSUME NEW p \in Words, NEW whats \in Seq(Words \ {"celsius"}), NEW k \in 2 .. Len(whats),
         whats[1] # whats[k]
  PROVE  /\ Has(Asks(p, whats), AsksFor(p, whats[1])) /\ Has(Asks(p, whats), AsksFor(p, whats[k]))
         /\ After(Asks(p, whats), AsksFor(p, whats[1]), AsksFor(p, whats[k]))
<1> DEFINE s == Asks(p, whats)
<1>1. /\ Len(s) = Len(whats) /\ Len(whats) \in Nat
      /\ \A i \in 1 .. Len(whats) : s[i] \in AsksFor(p, whats[i])
  BY AsksAside
<1> HIDE DEF s
<1>2. 1 \in 1 .. Len(s) /\ k \in 1 .. Len(s)
  BY <1>1
<1>3. Has(s, AsksFor(p, whats[1])) /\ Has(s, AsksFor(p, whats[k]))
  BY <1>1, <1>2 DEF Has
<1>4. s[1] \notin AsksFor(p, whats[k])
  BY <1>1, <1>2 DEF AsksFor
<1>5. After(s, AsksFor(p, whats[1]), AsksFor(p, whats[k]))
  <2> SUFFICES ASSUME NEW i \in 1 .. Len(s), s[i] \in AsksFor(p, whats[k])
               PROVE  \E j \in 1 .. Len(s) : j < i /\ s[j] \in AsksFor(p, whats[1])
    BY DEF After
  <2>1. i # 1
    BY <1>4
  <2>2. 1 < i
    BY <1>1, <2>1
  <2> QED
    BY <1>1, <1>2, <2>2
<1> QED
  BY <1>3, <1>5 DEF s

LEMMA MeasuredCelsiusParts ==
  LET s == MeasuredCelsius IN
  /\ s \in Seq(Measuring \cap LeavesSalinity) /\ FindsTemperature(s)
<1> DEFINE x == Asks("RTD", <<"scale", "read">>)
           c == Call("celsius", "RTD", "read", "none")
           y == <<c>>
<1>1. <<"scale", "read">> \in Seq(Words \ {"celsius"}) /\ "RTD" \in Words
  BY AllWords, Two
<1>2. c \in AnyStep /\ c.op = "celsius" /\ c.on = "RTD" /\ c.what = "read" /\ c.when = "always" /\ c.failing = "stops"
  <2>1. "celsius" \in Words /\ "RTD" \in Words /\ "read" \in Words /\ "none" \in Words
    BY AllWords
  <2> QED
    BY <2>1, CallIsStep
<1>3. x \in Seq(Measuring) /\ x \in Seq(LeavesSalinity) /\ x \in Seq(AnyStep)
  BY <1>1, AsksAside
<1>4. MeasuredCelsius = x \o y
  BY DEF MeasuredCelsius, Step
<1> HIDE DEF c
<1>5. c \in Converts /\ c \in Measuring \cap LeavesSalinity /\ c \notin AsksFor("RTD", "read")
      /\ c \notin Sets("temperature")
  BY <1>2 DEF Converts, Measuring, Measures, LeavesSalinity, AsksFor, NeedsSalinity, Sets
<1>6. y \in Seq(Measuring \cap LeavesSalinity) /\ y \in Seq(AnyStep) /\ Len(y) = 1 /\ y[1] = c /\ 1 .. 1 = {1}
  BY <1>2, <1>5, One
<1>7. /\ Has(x, AsksFor("RTD", "scale")) /\ Has(x, AsksFor("RTD", "read"))
      /\ After(x, AsksFor("RTD", "scale"), AsksFor("RTD", "read"))
  <2>1. Len(<<"scale", "read">>) = 2 /\ <<"scale", "read">>[1] = "scale" /\ <<"scale", "read">>[2] = "read"
    OBVIOUS
  <2> DEFINE whats == <<"scale", "read">>
  <2> HIDE DEF whats
  <2>2. whats \in Seq(Words \ {"celsius"}) /\ 2 \in 2 .. Len(whats) /\ whats[1] # whats[2]
    BY <1>1, <2>1 DEF whats
  <2>3. /\ Has(Asks("RTD", whats), AsksFor("RTD", whats[1])) /\ Has(Asks("RTD", whats), AsksFor("RTD", whats[2]))
        /\ After(Asks("RTD", whats), AsksFor("RTD", whats[1]), AsksFor("RTD", whats[2]))
    BY <1>1, <2>2, AsksInOrder
  <2> QED
    BY <2>1, <2>3 DEF whats
<1>8. x \in Seq(Measuring \cap LeavesSalinity)
  BY <1>3, LenProperties, ElementOfSeq, SeqDef
<1>9. ~Has(x, Converts) /\ ~Has(x, Sets("temperature"))
  <2>1. x \in Seq({e \in AnyStep : e.op = "ask"})
    <3>1. \A i \in 1 .. Len(x) : x[i] \in {e \in AnyStep : e.op = "ask"}
      <4>1. Len(x) = Len(<<"scale", "read">>)
            /\ \A i \in 1 .. Len(<<"scale", "read">>) : x[i] \in AsksFor("RTD", <<"scale", "read">>[i])
        BY <1>1, AsksAside
      <4> QED
        BY <4>1 DEF AsksFor
    <3> HIDE DEF x
    <3> QED
      BY <1>3, <3>1, LenProperties, SeqDef
  <2>2. \A e \in {e \in AnyStep : e.op = "ask"} : e \notin Converts /\ e \notin Sets("temperature")
    BY DEF Converts, Sets
  <2> HIDE DEF x
  <2> QED
    BY <2>1, <2>2, LacksKind
<1> HIDE DEF x, y
<1>10. Has(y, Converts) /\ ~Has(y, Sets("temperature")) /\ ~Has(y, AsksFor("RTD", "read"))
  BY <1>5, <1>6 DEF Has
<1>11. x \o y \in Seq(Measuring \cap LeavesSalinity)
  BY <1>6, <1>8, Joint
<1>12. /\ After(x \o y, AsksFor("RTD", "scale"), AsksFor("RTD", "read"))
       /\ After(x \o y, AsksFor("RTD", "read"), Converts)
       /\ After(x \o y, Converts, Sets("temperature"))
  BY <1>3, <1>6, <1>7, <1>9, <1>10, LacksOrders, AfterJoint
<1>13. Has(x \o y, AsksFor("RTD", "scale")) /\ Has(x \o y, AsksFor("RTD", "read")) /\ Has(x \o y, Converts)
  BY <1>3, <1>6, <1>7, <1>10, HasJoint
<1> QED
  BY <1>4, <1>11, <1>12, <1>13 DEF FindsTemperature, SetsTemperature

LEMMA FindsTemperatureThen ==
  ASSUME NEW s \in Seq(AnyStep), NEW t \in Seq(AnyStep), FindsTemperature(s)
  PROVE  FindsTemperature(s \o t)
<1>1. /\ After(s \o t, AsksFor("RTD", "scale"), AsksFor("RTD", "read"))
      /\ After(s \o t, AsksFor("RTD", "read"), Converts)
      /\ After(s \o t, Converts, Sets("temperature"))
  BY AfterJoint DEF FindsTemperature, SetsTemperature
<1>2. Has(s \o t, AsksFor("RTD", "scale")) /\ Has(s \o t, AsksFor("RTD", "read")) /\ Has(s \o t, Converts)
  BY HasJoint DEF FindsTemperature
<1> QED
  BY <1>1, <1>2 DEF FindsTemperature, SetsTemperature

LEMMA FindsTemperatureAfter ==
  ASSUME NEW s \in Seq(LeavesTemperature), NEW t \in Seq(AnyStep), FindsTemperature(t)
  PROVE  FindsTemperature(s \o t)
<1>0. s \in Seq(AnyStep) /\ SetsTemperature(s)
  BY AsideKinds, SeqMonotonic, LeavesInOrder
<1>1. /\ After(s \o t, AsksFor("RTD", "scale"), AsksFor("RTD", "read"))
      /\ After(s \o t, AsksFor("RTD", "read"), Converts)
      /\ After(s \o t, Converts, Sets("temperature"))
  BY <1>0, AfterJoint DEF FindsTemperature, SetsTemperature
<1>2. Has(s \o t, AsksFor("RTD", "scale")) /\ Has(s \o t, AsksFor("RTD", "read")) /\ Has(s \o t, Converts)
  BY <1>0, HasJoint DEF FindsTemperature
<1> QED
  BY <1>1, <1>2 DEF FindsTemperature, SetsTemperature

LEMMA FindsSalinityThen ==
  ASSUME NEW s \in Seq(AnyStep), NEW t \in Seq(AnyStep), FindsSalinity(s),
         After(t, NeedsSalinity, Sets("salinity"))
  PROVE  FindsSalinity(s \o t)
<1>1. /\ After(s \o t, AsksFor("EC", "output"), AsksFor("EC", "read"))
      /\ After(s \o t, AsksFor("EC", "read"), NeedsSalinity)
      /\ After(s \o t, NeedsSalinity, Sets("salinity"))
  BY AfterJoint DEF FindsSalinity, SetsSalinity
<1>2. Has(s \o t, AsksFor("EC", "output")) /\ Has(s \o t, AsksFor("EC", "read"))
  BY HasJoint DEF FindsSalinity
<1> QED
  BY <1>1, <1>2 DEF FindsSalinity, SetsSalinity

LEMMA FindsSalinityAfter ==
  ASSUME NEW s \in Seq(LeavesSalinity), NEW t \in Seq(AnyStep), FindsSalinity(t)
  PROVE  FindsSalinity(s \o t)
<1>0. s \in Seq(AnyStep) /\ SetsSalinity(s)
  BY AsideKinds, SeqMonotonic, LeavesInOrder
<1>1. /\ After(s \o t, AsksFor("EC", "output"), AsksFor("EC", "read"))
      /\ After(s \o t, AsksFor("EC", "read"), NeedsSalinity)
      /\ After(s \o t, NeedsSalinity, Sets("salinity"))
  BY <1>0, AfterJoint DEF FindsSalinity, SetsSalinity
<1>2. Has(s \o t, AsksFor("EC", "output")) /\ Has(s \o t, AsksFor("EC", "read"))
  BY <1>0, HasJoint DEF FindsSalinity
<1> QED
  BY <1>1, <1>2 DEF FindsSalinity, SetsSalinity

LEMMA AsksSalinity ==
  LET s == Asks("EC", <<"output", "read">>) IN s \in Seq(Measuring) /\ FindsSalinity(s)
<1> DEFINE whats == <<"output", "read">>
           s == Asks("EC", whats)
<1>1. Len(whats) = 2 /\ whats[1] = "output" /\ whats[2] = "read"
  OBVIOUS
<1>2. whats \in Seq(Words \ {"celsius"}) /\ "EC" \in Words
  BY AllWords, Two
<1> HIDE DEF whats
<1>3. 2 \in 2 .. Len(whats) /\ whats[1] # whats[2]
  BY <1>1
<1>4. /\ Has(s, AsksFor("EC", "output")) /\ Has(s, AsksFor("EC", "read"))
      /\ After(s, AsksFor("EC", "output"), AsksFor("EC", "read"))
  BY <1>1, <1>2, <1>3, AsksInOrder
<1>5. s \in Seq(Measuring)
  BY <1>2, AsksAside
<1>6. s \in Seq(Asking({"EC"}) \cap Looking({"EC"}))
  <2>1. Words \ {"celsius"} \subseteq Words
    OBVIOUS
  <2>2. whats \in Seq(Words)
    BY <1>2, <2>1, SeqMonotonic
  <2> QED
    BY <1>2, <2>2, AsksAsk
<1>7. \A e \in Asking({"EC"}) \cap Looking({"EC"}) : e \notin NeedsSalinity /\ e \notin Sets("salinity")
  BY DEF Looking, Looks, NeedsSalinity, Sets
<1> HIDE DEF s
<1>8. ~Has(s, NeedsSalinity) /\ ~Has(s, Sets("salinity"))
  BY <1>6, <1>7, LacksKind
<1> QED
  BY <1>4, <1>5, <1>8, LacksOrders DEF FindsSalinity, SetsSalinity, s, whats

LEMMA HasThen ==
  ASSUME NEW s \in Seq(AnyStep), NEW t \in Seq(AnyStep), NEW A, NEW B, Has(s, A), After(s, A, B)
  PROVE  Has(s \o t, A) /\ After(s \o t, A, B)
  BY HasJoint, AfterJoint

(* The decision that the salinity is measured. *)
LEMMA NeedFirst ==
  LET s == Need("EC", "salinity measured") IN
  /\ s \in Seq(Measuring \cap LeavesTemperature) /\ s \in Seq(AnyStep)
  /\ Has(s, NeedsSalinity) /\ After(s, NeedsSalinity, Sets("salinity"))
<1> DEFINE a == Call("need", "EC", "salinity measured", "none")
           s == <<a>>
<1>1. a \in AnyStep /\ a.op = "need" /\ a.on = "EC" /\ a.what = "salinity measured" /\ a.when = "always"
      /\ a.failing = "stops"
  <2>1. "need" \in Words /\ "EC" \in Words /\ "salinity measured" \in Words /\ "none" \in Words
    BY AllWords
  <2>2. PICK op, p, what, value \in Words :
          op = "need" /\ p = "EC" /\ what = "salinity measured" /\ value = "none"
    BY <2>1
  <2>3. LET c == Call(op, p, what, value) IN
        c \in AnyStep /\ c.op = op /\ c.on = p /\ c.what = what /\ c.when = "always" /\ c.failing = "stops"
    BY CallIsStep
  <2> QED
    BY <2>2, <2>3
<1>2. Need("EC", "salinity measured") = s
  BY DEF Need, Step
<1> HIDE DEF a
<1>3. a \in NeedsSalinity /\ a \notin Sets("salinity") /\ a \in Measuring \cap LeavesTemperature
  BY <1>1 DEF NeedsSalinity, Sets, Measuring, Measures, LeavesTemperature, AsksFor, Converts
<1>4. s \in Seq(Measuring \cap LeavesTemperature) /\ s \in Seq(AnyStep) /\ Len(s) = 1 /\ s[1] = a
      /\ 1 .. 1 = {1}
  <2>1. s \in Seq(Measuring \cap LeavesTemperature)
    BY <1>3, One
  <2>2. s \in Seq(AnyStep)
    BY <1>1, One
  <2> QED
    BY <2>1, <2>2
<1> HIDE DEF s
<1>5. Has(s, NeedsSalinity) /\ ~Has(s, Sets("salinity"))
  BY <1>3, <1>4 DEF Has
<1>6. After(s, NeedsSalinity, Sets("salinity"))
  BY <1>5, LacksOrders
<1> QED
  BY <1>2, <1>4, <1>5, <1>6

(* Programs that set no salinity, or no temperature. *)
Without(what) == {s \in AnyStep : s \notin Sets(what)}

LEMMA WithoutKinds ==
  ASSUME NEW what
  PROVE  /\ Without(what) \subseteq AnyStep
         /\ \A s \in Without(what) : Made(s, "never", s.failing) \in Without(what) /\ Chunk(s) \in Without(what)
<1>1. "never" \in Words
  BY AllWords
<1>2. ASSUME NEW s \in Without(what) PROVE Made(s, "never", s.failing) \in Without(what)
  <2> DEFINE t == Made(s, "never", s.failing)
  <2>1. s \in AnyStep /\ s \notin Sets(what)
    BY DEF Without
  <2>2. t \in AnyStep /\ t.op = s.op /\ t.what = s.what
    BY <1>1, <2>1, MadeWhen
  <2> HIDE DEF t
  <2>3. t \in Without(what)
    BY <2>1, <2>2 DEF Without, Sets
  <2> QED
    BY <2>3 DEF t
<1>3. ASSUME NEW s \in Without(what) PROVE Chunk(s) \in Without(what)
  <2>1. s \in AnyStep
    BY DEF Without
  <2>2. Chunk(s) \in AnyStep /\ Chunk(s).op = "chunk"
    BY <2>1, ChunkIsStep
  <2> QED
    BY <2>2 DEF Without, Sets
<1> QED
  BY <1>2, <1>3 DEF Without

LEMMA LooksWithout ==
  ASSUME NEW cs, NEW what \in {"temperature", "salinity"}
  PROVE  Looking(cs) \subseteq Without(what) /\ Asking(cs) \subseteq Without(what)
  BY DEF Looking, Looks, Asking, OnlyAsks, Without, Sets

LEMMA AppliedOf ==
  ASSUME NEW S, \A s \in S : Made(s, "never", s.failing) \in S,
         NEW f, NEW look \in Seq(S), NEW apply \in Seq(S)
  PROVE  /\ Applied(f, look, apply) \in Seq(S)
         /\ Applied(f, OverI2c(look), OverI2c(apply)) \in Seq(S)
<1>1. OverI2c(look) \in Seq(S) /\ OverI2c(apply) \in Seq(S)
  BY OverI2cOf
<1>2. If("apply" \in f, apply) \in Seq(S) /\ If("apply" \in f, OverI2c(apply)) \in Seq(S)
  BY <1>1, Optional
<1> QED
  BY <1>1, <1>2, Joint DEF Applied

(* What the compensation programs are: each sets a temperature, or a       *)
(* salinity, or both, after measuring it.                                  *)
Heats(s) == s \in Seq(Measuring) /\ SetsTemperature(s) /\ s \in Seq(Without("salinity"))

Salts(s) == s \in Seq(Measuring) /\ SetsSalinity(s) /\ s \in Seq(Without("temperature"))

HeatsAndSalts(s) == s \in Seq(Measuring) /\ SetsTemperature(s) /\ SetsSalinity(s)

LEMMA SubKinds ==
  /\ Measuring \subseteq AnyStep /\ Aside \subseteq Measuring
  /\ LeavesSalinity \subseteq Without("salinity") /\ LeavesTemperature \subseteq Without("temperature")
  /\ Aside \subseteq Without("salinity") /\ Aside \subseteq Without("temperature")
  BY DEF Measuring, Aside, LeavesSalinity, LeavesTemperature, Without

LEMMA InKind ==
  ASSUME NEW s
  PROVE  /\ s \in Seq(Measuring) => s \in Seq(AnyStep)
         /\ s \in Seq(Aside) => /\ s \in Seq(Measuring) /\ s \in Seq(AnyStep)
                                /\ s \in Seq(LeavesTemperature) /\ s \in Seq(LeavesSalinity)
                                /\ s \in Seq(Without("salinity")) /\ s \in Seq(Without("temperature"))
         /\ s \in Seq(Measuring \cap LeavesSalinity) =>
              /\ s \in Seq(Measuring) /\ s \in Seq(AnyStep) /\ s \in Seq(LeavesSalinity)
              /\ s \in Seq(Without("salinity"))
         /\ s \in Seq(Measuring \cap LeavesTemperature) =>
              /\ s \in Seq(Measuring) /\ s \in Seq(AnyStep) /\ s \in Seq(LeavesTemperature)
              /\ s \in Seq(Without("temperature"))
<1>1. s \in Seq(Measuring) => s \in Seq(AnyStep)
  BY SubKinds, SeqMonotonic
<1>2. s \in Seq(Aside) => s \in Seq(Measuring) /\ s \in Seq(LeavesTemperature) /\ s \in Seq(LeavesSalinity)
  BY AsideKinds, SeqMonotonic
<1>3. /\ s \in Seq(Measuring \cap LeavesSalinity) => s \in Seq(Measuring) /\ s \in Seq(LeavesSalinity)
      /\ s \in Seq(Measuring \cap LeavesTemperature) => s \in Seq(Measuring) /\ s \in Seq(LeavesTemperature)
  BY AsideKinds, SeqMonotonic
<1>4. /\ s \in Seq(LeavesSalinity) => s \in Seq(Without("salinity"))
      /\ s \in Seq(LeavesTemperature) => s \in Seq(Without("temperature"))
  BY SubKinds, SeqMonotonic
<1> QED
  BY <1>1, <1>2, <1>3, <1>4

LEMMA AsksWithout ==
  ASSUME NEW p \in Words, NEW whats \in Seq(Words \ {"celsius"}), NEW what \in {"temperature", "salinity"}
  PROVE  Asks(p, whats) \in Seq(Measuring) /\ Asks(p, whats) \in Seq(Without(what))
<1>1. whats \in Seq(Words)
  <2>1. Words \ {"celsius"} \subseteq Words
    OBVIOUS
  <2> QED
    BY <2>1, SeqMonotonic
<1>2. Asks(p, whats) \in Seq(Asking({p}) \cap Looking({p}))
  BY <1>1, AsksAsk
<1>3. Asking({p}) \cap Looking({p}) \subseteq Without(what)
  BY LooksWithout
<1>4. Asks(p, whats) \in Seq(Without(what))
  BY <1>2, <1>3, SeqMonotonic
<1> QED
  BY <1>4, AsksAside

LEMMA LooksAtTemperature ==
  ASSUME NEW b \in Seq(Aside), NEW a \in Seq(Measuring), a \in Seq(Without("salinity"))
  PROVE  LET s == b \o MeasuredCelsius \o a IN
         s \in Seq(Measuring) /\ FindsTemperature(s) /\ s \in Seq(Without("salinity"))
<1> DEFINE m == MeasuredCelsius
<1>1. m \in Seq(Measuring \cap LeavesSalinity) /\ FindsTemperature(m)
  BY MeasuredCelsiusParts
<1> HIDE DEF m
<1>2. m \in Seq(Measuring) /\ m \in Seq(Without("salinity")) /\ m \in Seq(AnyStep)
  BY <1>1, InKind
<1>3. b \in Seq(Measuring) /\ b \in Seq(Without("salinity")) /\ b \in Seq(AnyStep)
      /\ b \in Seq(LeavesTemperature) /\ a \in Seq(AnyStep)
  BY InKind
<1>4. FindsTemperature(b \o m)
  BY <1>1, <1>2, <1>3, FindsTemperatureAfter
<1>5. b \o m \in Seq(AnyStep) /\ b \o m \in Seq(Measuring) /\ b \o m \in Seq(Without("salinity"))
  BY <1>2, <1>3, Joint
<1> DEFINE c == b \o m
<1> HIDE DEF c
<1>6. FindsTemperature(c \o a)
  BY <1>3, <1>4, <1>5, FindsTemperatureThen DEF c
<1>7. c \o a \in Seq(Measuring) /\ c \o a \in Seq(Without("salinity"))
  BY <1>5, Joint DEF c
<1> QED
  BY <1>6, <1>7 DEF c, m

LEMMA AppliesTemperature ==
  ASSUME NEW p \in Words
  PROVE  LET s == Set(p, "temperature", "celsius") \o Asks(p, <<"temperature", "read">>) IN
         s \in Seq(Measuring) /\ s \in Seq(Without("salinity"))
<1> DEFINE a == Set(p, "temperature", "celsius")
           b == Asks(p, <<"temperature", "read">>)
<1>1. a \in Seq(Measuring) /\ a \in Seq(Without("salinity"))
  BY SetsInKind, InKind
<1>2. b \in Seq(Measuring) /\ b \in Seq(Without("salinity"))
  <2>1. <<"temperature", "read">> \in Seq(Words \ {"celsius"})
    BY AllWords, Two
  <2> QED
    BY <2>1, AsksWithout
<1> HIDE DEF a, b
<1>3. a \o b \in Seq(Measuring) /\ a \o b \in Seq(Without("salinity"))
  BY <1>1, <1>2, Joint
<1> QED
  BY <1>3 DEF a, b

LEMMA AppliedHeats ==
  ASSUME NEW f, NEW look \in Seq(Measuring), look \in Seq(Without("salinity")), FindsTemperature(look),
         NEW apply \in Seq(Measuring), apply \in Seq(Without("salinity"))
  PROVE  /\ Heats(Applied(f, look, apply))
         /\ Heats(Applied(f, OverI2c(look), OverI2c(apply)))
<1>1. look \in Seq(AnyStep) /\ apply \in Seq(AnyStep)
  BY InKind
<1>2. /\ SetsTemperature(Applied(f, look, apply))
      /\ SetsTemperature(Applied(f, OverI2c(look), OverI2c(apply)))
  BY <1>1, AppliedTemperature DEF FindsTemperature
<1>3. /\ Applied(f, look, apply) \in Seq(Measuring)
      /\ Applied(f, OverI2c(look), OverI2c(apply)) \in Seq(Measuring)
  BY MeasuringKinds, AppliedOf
<1>4. /\ Applied(f, look, apply) \in Seq(Without("salinity"))
      /\ Applied(f, OverI2c(look), OverI2c(apply)) \in Seq(Without("salinity"))
  BY WithoutKinds, AppliedOf
<1> QED
  BY <1>2, <1>3, <1>4 DEF Heats

LEMMA PhTempCompHeats ==
  ASSUME NEW p, NEW f
  PROVE  /\ Heats(Script("ph_temp_comp_from_rtd", p, f))
         /\ Heats(ScriptOverI2c("ph_temp_comp_from_rtd", p, f))
<1>1. PhTempCompLook \in Seq(Measuring) /\ PhTempCompLook \in Seq(Without("salinity"))
      /\ FindsTemperature(PhTempCompLook)
  <2>1. <<"temperature", "read">> \in Seq(Words \ {"celsius"}) /\ "PH" \in Words /\ "RTD" \in Words
    BY AllWords, Two
  <2>2. Begins(<<"RTD", "PH">>) \in Seq(Aside)
    BY <2>1, BeginsAside
  <2>3. /\ Asks("PH", <<"temperature", "read">>) \in Seq(Measuring)
        /\ Asks("PH", <<"temperature", "read">>) \in Seq(Without("salinity"))
    BY <2>1, AsksWithout
  <2> QED
    BY <2>2, <2>3, LooksAtTemperature DEF PhTempCompLook
<1>2. PhTempCompApply \in Seq(Measuring) /\ PhTempCompApply \in Seq(Without("salinity"))
  BY AllWords, AppliesTemperature DEF PhTempCompApply
<1>3. Script("ph_temp_comp_from_rtd", p, f) = Applied(f, PhTempCompLook, PhTempCompApply)
  BY DEF Script
<1>4. ScriptOverI2c("ph_temp_comp_from_rtd", p, f)
        = Applied(f, OverI2c(PhTempCompLook), OverI2c(PhTempCompApply))
  BY DEF ScriptOverI2c, PhTempCompLookI2c, PhTempCompApplyI2c
<1> QED
  BY <1>1, <1>2, <1>3, <1>4, AppliedHeats

LEMMA EcTempCompHeats ==
  ASSUME NEW p, NEW f
  PROVE  /\ Heats(Script("ec_temp_comp_from_rtd", p, f))
         /\ Heats(ScriptOverI2c("ec_temp_comp_from_rtd", p, f))
<1>1. EcTempCompLook \in Seq(Measuring) /\ EcTempCompLook \in Seq(Without("salinity"))
      /\ FindsTemperature(EcTempCompLook)
  <2>1. <<"output", "temperature", "read">> \in Seq(Words \ {"celsius"}) /\ "EC" \in Words /\ "RTD" \in Words
    BY AllWords, Three
  <2>2. Begins(<<"RTD", "EC">>) \in Seq(Aside)
    BY <2>1, BeginsAside
  <2>3. /\ Asks("EC", <<"output", "temperature", "read">>) \in Seq(Measuring)
        /\ Asks("EC", <<"output", "temperature", "read">>) \in Seq(Without("salinity"))
    BY <2>1, AsksWithout
  <2> QED
    BY <2>2, <2>3, LooksAtTemperature DEF EcTempCompLook
<1>2. EcTempCompApply \in Seq(Measuring) /\ EcTempCompApply \in Seq(Without("salinity"))
  BY AllWords, AppliesTemperature DEF EcTempCompApply
<1>3. Script("ec_temp_comp_from_rtd", p, f) = Applied(f, EcTempCompLook, EcTempCompApply)
  BY DEF Script
<1>4. ScriptOverI2c("ec_temp_comp_from_rtd", p, f)
        = Applied(f, OverI2c(EcTempCompLook), OverI2c(EcTempCompApply))
  BY DEF ScriptOverI2c, EcTempCompLookI2c, EcTempCompApplyI2c
<1> QED
  BY <1>1, <1>2, <1>3, <1>4, AppliedHeats

LEMMA DoTempCompHeats ==
  ASSUME NEW p, NEW f
  PROVE  /\ Heats(Script("do_temp_comp_from_rtd", p, f))
         /\ Heats(ScriptOverI2c("do_temp_comp_from_rtd", p, f))
<1>1. DoTempCompLook \in Seq(Measuring) /\ DoTempCompLook \in Seq(Without("salinity"))
      /\ FindsTemperature(DoTempCompLook)
  <2>1. <<"output", "temperature", "read">> \in Seq(Words \ {"celsius"}) /\ "DO" \in Words /\ "RTD" \in Words
    BY AllWords, Three
  <2>2. Begins(<<"RTD", "DO">>) \in Seq(Aside)
    BY <2>1, BeginsAside
  <2>3. /\ Asks("DO", <<"output", "temperature", "read">>) \in Seq(Measuring)
        /\ Asks("DO", <<"output", "temperature", "read">>) \in Seq(Without("salinity"))
    BY <2>1, AsksWithout
  <2> QED
    BY <2>2, <2>3, LooksAtTemperature DEF DoTempCompLook
<1>2. DoTempCompApply \in Seq(Measuring) /\ DoTempCompApply \in Seq(Without("salinity"))
  BY AllWords, AppliesTemperature DEF DoTempCompApply
<1>3. Script("do_temp_comp_from_rtd", p, f) = Applied(f, DoTempCompLook, DoTempCompApply)
  BY DEF Script
<1>4. ScriptOverI2c("do_temp_comp_from_rtd", p, f)
        = Applied(f, OverI2c(DoTempCompLook), OverI2c(DoTempCompApply))
  BY DEF ScriptOverI2c, DoTempCompLookI2c, DoTempCompApplyI2c
<1> QED
  BY <1>1, <1>2, <1>3, <1>4, AppliedHeats

LEMMA AsksLeaveSalinity ==
  ASSUME NEW whats \in Seq(Words \ {"celsius"})
  PROVE  LET s == Asks("DO", whats) IN
         /\ s \in Seq(Measuring) /\ s \in Seq(AnyStep) /\ s \in Seq(Without("temperature"))
         /\ After(s, NeedsSalinity, Sets("salinity"))
<1> DEFINE s == Asks("DO", whats)
<1>1. "DO" \in Words /\ "DO" # "EC"
  BY AllWords
<1>2. s \in Seq(Measuring) /\ s \in Seq(LeavesSalinity)
  BY <1>1, AsksAside
<1>3. s \in Seq(Without("temperature"))
  BY <1>1, AsksWithout
<1> HIDE DEF s
<1>4. s \in Seq(AnyStep) /\ After(s, NeedsSalinity, Sets("salinity"))
  BY <1>2, InKind, LeavesInOrder DEF SetsSalinity
<1> QED
  BY <1>2, <1>3, <1>4 DEF s

LEMMA LooksAtSalinity ==
  ASSUME NEW b \in Seq(Measuring \cap LeavesSalinity), NEW whats \in Seq(Words \ {"celsius"})
  PROVE  LET s == b \o Asks("EC", <<"output", "read">>) \o Asks("DO", whats) IN
         s \in Seq(Measuring) /\ FindsSalinity(s)
<1> DEFINE m == Asks("EC", <<"output", "read">>)
           a == Asks("DO", whats)
<1>1. m \in Seq(Measuring) /\ FindsSalinity(m)
  BY AsksSalinity
<1>2. a \in Seq(Measuring) /\ a \in Seq(AnyStep) /\ After(a, NeedsSalinity, Sets("salinity"))
  BY AsksLeaveSalinity
<1> HIDE DEF m, a
<1>3. b \in Seq(Measuring) /\ b \in Seq(AnyStep) /\ b \in Seq(LeavesSalinity) /\ m \in Seq(AnyStep)
  BY <1>1, InKind
<1>4. FindsSalinity(b \o m)
  BY <1>1, <1>3, FindsSalinityAfter
<1>5. b \o m \in Seq(AnyStep) /\ b \o m \in Seq(Measuring)
  BY <1>1, <1>3, Joint
<1> DEFINE c == b \o m
<1> HIDE DEF c
<1>6. FindsSalinity(c \o a)
  BY <1>2, <1>4, <1>5, FindsSalinityThen DEF c
<1>7. c \o a \in Seq(Measuring)
  BY <1>2, <1>5, Joint DEF c
<1> QED
  BY <1>6, <1>7 DEF c, m, a

LEMMA DoSalinityCompSalts ==
  ASSUME NEW p, NEW f
  PROVE  /\ Salts(Script("do_salinity_comp_from_ec", p, f))
         /\ Salts(ScriptOverI2c("do_salinity_comp_from_ec", p, f))
<1> DEFINE look == DoSalinityCompLook
           apply == DoSalinityCompApply
<1>1. look \in Seq(Measuring) /\ FindsSalinity(look) /\ look \in Seq(Without("temperature"))
  <2>1. <<"output", "salinity", "read">> \in Seq(Words \ {"celsius"}) /\ "DO" \in Words /\ "EC" \in Words
    BY AllWords, Three
  <2>2. Begins(<<"EC", "DO">>) \in Seq(Aside)
    BY <2>1, BeginsAside
  <2>3. Begins(<<"EC", "DO">>) \in Seq(Measuring \cap LeavesSalinity)
    <3>1. Aside \subseteq Measuring \cap LeavesSalinity
      BY AsideKinds
    <3> QED
      BY <2>2, <3>1, SeqMonotonic
  <2>4. look \in Seq(Measuring) /\ FindsSalinity(look)
    BY <2>1, <2>3, LooksAtSalinity DEF DoSalinityCompLook
  <2>5. look \in Seq(Looking({"EC", "DO"}))
    BY DoSalinityCompLookOpens DEF Opened
  <2>6. Looking({"EC", "DO"}) \subseteq Without("temperature")
    BY LooksWithout
  <2> QED
    BY <2>4, <2>5, <2>6, SeqMonotonic
<1>2. /\ apply \in Seq(Measuring) /\ apply \in Seq(Without("temperature"))
      /\ After(apply, NeedsSalinity, Sets("salinity"))
  <2> DEFINE n == Need("EC", "salinity measured")
             s == Set("DO", "salinity", "ppt")
             a == Asks("DO", <<"salinity", "read">>)
  <2>1. <<"salinity", "read">> \in Seq(Words \ {"celsius"}) /\ "DO" \in Words
    BY AllWords, Two
  <2>2. /\ n \in Seq(Measuring \cap LeavesTemperature) /\ n \in Seq(AnyStep)
        /\ Has(n, NeedsSalinity) /\ After(n, NeedsSalinity, Sets("salinity"))
    BY NeedFirst
  <2>3. s \in Seq(Measuring \cap LeavesTemperature)
    BY <2>1, SetsInKind
  <2>4. a \in Seq(Measuring) /\ a \in Seq(AnyStep) /\ a \in Seq(Without("temperature"))
    BY <2>1, AsksLeaveSalinity
  <2>5. apply = n \o s \o a
    BY DEF DoSalinityCompApply
  <2> HIDE DEF n, s, a, apply
  <2>6. /\ n \in Seq(Measuring) /\ n \in Seq(Without("temperature"))
        /\ s \in Seq(Measuring) /\ s \in Seq(AnyStep) /\ s \in Seq(Without("temperature"))
    BY <2>2, <2>3, InKind
  <2>7. /\ n \o s \in Seq(Measuring) /\ n \o s \in Seq(Without("temperature")) /\ n \o s \in Seq(AnyStep)
        /\ Has(n \o s, NeedsSalinity) /\ After(n \o s, NeedsSalinity, Sets("salinity"))
    BY <2>2, <2>6, Joint, HasThen
  <2> DEFINE c == n \o s
  <2> HIDE DEF c
  <2>8. c \o a \in Seq(Measuring) /\ c \o a \in Seq(Without("temperature"))
        /\ After(c \o a, NeedsSalinity, Sets("salinity"))
    BY <2>4, <2>7, Joint, HasThen DEF c
  <2> QED
    BY <2>5, <2>8 DEF c
<1>3. Script("do_salinity_comp_from_ec", p, f) = Applied(f, look, apply)
  BY DEF Script
<1>4. ScriptOverI2c("do_salinity_comp_from_ec", p, f) = Applied(f, OverI2c(look), OverI2c(apply))
  BY DEF ScriptOverI2c, DoSalinityCompLookI2c, DoSalinityCompApplyI2c
<1> HIDE DEF look, apply
<1>5. look \in Seq(AnyStep) /\ apply \in Seq(AnyStep)
  BY <1>1, <1>2, InKind
<1>6. /\ SetsSalinity(Applied(f, look, apply))
      /\ SetsSalinity(Applied(f, OverI2c(look), OverI2c(apply)))
  BY <1>1, <1>2, <1>5, AppliedSalinity DEF FindsSalinity
<1>7. /\ Applied(f, look, apply) \in Seq(Measuring)
      /\ Applied(f, OverI2c(look), OverI2c(apply)) \in Seq(Measuring)
  BY <1>1, <1>2, MeasuringKinds, AppliedOf
<1>8. /\ Applied(f, look, apply) \in Seq(Without("temperature"))
      /\ Applied(f, OverI2c(look), OverI2c(apply)) \in Seq(Without("temperature"))
  BY <1>1, <1>2, WithoutKinds, AppliedOf
<1> QED
  BY <1>3, <1>4, <1>6, <1>7, <1>8 DEF Salts

LEMMA DoFullChainHeatsAndSalts ==
  ASSUME NEW p, NEW f
  PROVE  /\ HeatsAndSalts(Script("do_full_compensation_chain", p, f))
         /\ HeatsAndSalts(ScriptOverI2c("do_full_compensation_chain", p, f))
<1> DEFINE look == DoFullChainLook
           apply == DoFullChainApply
<1>1. look \in Seq(Measuring) /\ FindsTemperature(look) /\ FindsSalinity(look)
  <2> DEFINE whats == <<"output", "temperature", "salinity", "pressure", "read">>
             b == Begins(<<"RTD", "EC", "DO">>)
             m == MeasuredCelsius
             e == Asks("EC", <<"output", "read">>)
             a == Asks("DO", whats)
  <2>1. whats \in Seq(Words \ {"celsius"})
    BY AllWords, Five
  <2>2. b \in Seq(Aside)
    BY AllWords, BeginsAside
  <2>3. m \in Seq(Measuring \cap LeavesSalinity) /\ FindsTemperature(m)
    BY MeasuredCelsiusParts
  <2>4. look = b \o m \o e \o a
    BY DEF DoFullChainLook
  <2>5. e \in Seq(Measuring) /\ a \in Seq(Measuring)
    BY <2>1, AsksSalinity, AsksLeaveSalinity
  <2> HIDE DEF whats, b, m
  <2>6. b \in Seq(Measuring \cap LeavesSalinity)
    <3>1. Aside \subseteq Measuring \cap LeavesSalinity
      BY AsideKinds
    <3> QED
      BY <2>2, <3>1, SeqMonotonic
  <2>7. b \o m \in Seq(Measuring \cap LeavesSalinity)
    BY <2>3, <2>6, Joint
  <2> DEFINE c == b \o m
  <2> HIDE DEF c
  <2>8. c \o e \o a \in Seq(Measuring) /\ FindsSalinity(c \o e \o a)
    BY <2>1, <2>7, LooksAtSalinity DEF c
  <2> HIDE DEF e, a
  <2>9. FindsTemperature(c) /\ c \in Seq(AnyStep) /\ e \in Seq(AnyStep) /\ a \in Seq(AnyStep)
    <3>1. b \in Seq(LeavesTemperature) /\ m \in Seq(AnyStep) /\ e \in Seq(AnyStep) /\ a \in Seq(AnyStep)
      BY <2>2, <2>3, <2>5, InKind
    <3>2. c \in Seq(AnyStep)
      BY <2>7, InKind DEF c
    <3> QED
      BY <2>3, <3>1, <3>2, FindsTemperatureAfter DEF c
  <2>10. FindsTemperature(c \o e) /\ c \o e \in Seq(AnyStep)
    BY <2>9, FindsTemperatureThen, Joint
  <2> DEFINE d == c \o e
  <2> HIDE DEF d
  <2>11. FindsTemperature(d \o a)
    BY <2>9, <2>10, FindsTemperatureThen DEF d
  <2> QED
    BY <2>4, <2>8, <2>11 DEF d, c
<1>2. apply \in Seq(Measuring) /\ After(apply, NeedsSalinity, Sets("salinity"))
  <2> DEFINE n == Need("EC", "salinity measured")
             t == Set("DO", "temperature", "celsius")
             s == Set("DO", "salinity", "ppt")
             r == Set("DO", "pressure", "planned")
             a == Asks("DO", <<"temperature", "salinity", "pressure", "read">>)
  <2>1. <<"temperature", "salinity", "pressure", "read">> \in Seq(Words \ {"celsius"}) /\ "DO" \in Words
    BY AllWords, Four
  <2>2. /\ n \in Seq(Measuring \cap LeavesTemperature) /\ n \in Seq(AnyStep)
        /\ Has(n, NeedsSalinity) /\ After(n, NeedsSalinity, Sets("salinity"))
    BY NeedFirst
  <2>3. /\ s \in Seq(Measuring \cap LeavesTemperature) /\ t \in Seq(Measuring \cap LeavesSalinity)
        /\ r \in Seq(Aside)
    BY <2>1, SetsInKind
  <2>4. a \in Seq(Measuring) /\ a \in Seq(AnyStep)
    BY <2>1, AsksLeaveSalinity
  <2>5. apply = n \o t \o s \o r \o a
    BY DEF DoFullChainApply
  <2> HIDE DEF n, t, s, r, a, apply
  <2>6. /\ n \in Seq(Measuring) /\ t \in Seq(Measuring) /\ s \in Seq(Measuring) /\ r \in Seq(Measuring)
        /\ t \in Seq(AnyStep) /\ s \in Seq(AnyStep) /\ r \in Seq(AnyStep)
    BY <2>2, <2>3, InKind
  <2> DEFINE Good(u) == /\ u \in Seq(Measuring) /\ u \in Seq(AnyStep) /\ Has(u, NeedsSalinity)
                        /\ After(u, NeedsSalinity, Sets("salinity"))
  <2>7. ASSUME NEW u, NEW v, Good(u), v \in Seq(Measuring), v \in Seq(AnyStep)
        PROVE  Good(u \o v)
    BY <2>7, Joint, HasThen
  <2>8. Good(n)
    BY <2>2, <2>6
  <2> HIDE DEF Good
  <2>9. Good(n \o t)
    BY <2>6, <2>7, <2>8
  <2>10. Good(n \o t \o s)
    BY <2>6, <2>7, <2>9
  <2>11. Good(n \o t \o s \o r)
    BY <2>6, <2>7, <2>10
  <2>12. Good(n \o t \o s \o r \o a)
    BY <2>4, <2>7, <2>11
  <2> QED
    BY <2>5, <2>12 DEF Good
<1>3. Script("do_full_compensation_chain", p, f) = Applied(f, look, apply)
  BY DEF Script
<1>4. ScriptOverI2c("do_full_compensation_chain", p, f) = Applied(f, OverI2c(look), OverI2c(apply))
  BY DEF ScriptOverI2c, DoFullChainLookI2c, DoFullChainApplyI2c
<1> HIDE DEF look, apply
<1>5. look \in Seq(AnyStep) /\ apply \in Seq(AnyStep)
  BY <1>1, <1>2, InKind
<1>6. /\ SetsSalinity(Applied(f, look, apply))
      /\ SetsSalinity(Applied(f, OverI2c(look), OverI2c(apply)))
  BY <1>1, <1>2, <1>5, AppliedSalinity DEF FindsSalinity
<1>7. /\ SetsTemperature(Applied(f, look, apply))
      /\ SetsTemperature(Applied(f, OverI2c(look), OverI2c(apply)))
  BY <1>1, <1>5, AppliedTemperature DEF FindsTemperature
<1>8. /\ Applied(f, look, apply) \in Seq(Measuring)
      /\ Applied(f, OverI2c(look), OverI2c(apply)) \in Seq(Measuring)
  BY <1>1, <1>2, MeasuringKinds, AppliedOf
<1> QED
  BY <1>3, <1>4, <1>6, <1>7, <1>8 DEF HeatsAndSalts

(* What a step makes known, and what it changes.                           *)
Asked(p) == {s \in AnyStep : s.op = "ask" /\ s.on = p /\ s.when = "always" /\ s.failing = "stops"}

SameFacts(old, new, x) == (x \in DOMAIN new <=> x \in DOMAIN old) /\ (x \in DOMAIN old => new[x] = old[x])

LEMMA LearntIs ==
  ASSUME NEW facts, NEW what, NEW value
  PROVE  what \in DOMAIN Learnt(facts, what, value) /\ Learnt(facts, what, value)[what] = value
  BY DEF Learnt

LEMMA LearntFacts ==
  ASSUME NEW facts, NEW what, NEW value, NEW x
  PROVE  what # x => SameFacts(facts, Learnt(facts, what, value), x)
  BY DEF Learnt, SameFacts

LEMMA KnownStep ==
  ASSUME Typed, program \in Examples, NEW p \in DOMAIN config, [Next]_vars,
         Due("ask") /\ Head(todo).on = p => bus = "i2c" \/ line[p] = <<>>
  PROVE  \/ /\ \A x : x # "codes" => SameFacts(known[p], known'[p], x)
            /\ todo # <<>> /\ (Head(todo) \in Asked(p) \/ (p = "RTD" /\ Head(todo) \in Converts)) =>
                 UNCHANGED todo \/ todo' = <<>>
         \/ /\ Due("ask") /\ Head(todo).on = p
            /\ known'[p] = Learnt(known[p], Head(todo).what,
                                  Filed(p, Head(todo).what, Answer(p, Head(todo).what)))
         \/ /\ Due("celsius") /\ p = "RTD"
            /\ known'[p] = Learnt(known[p], "celsius", ToCelsius(known[p].read))
<1>1. p \in DOMAIN known
  BY DEF Typed, ProgramTypeOK
<1>2. CASE Query /\ Head(todo).on = p
  <2>1. PICK what : what = Head(todo).what
    OBVIOUS
  <2>2. Due("ask")
    BY <1>2 DEF Query
  <2>3. \/ Fails /\ UNCHANGED known
        \/ known' = [known EXCEPT ![p] = Learnt(known[p], what, Filed(p, what, Answer(p, what)))]
    BY <1>2, <2>1, <2>2, QueryReads
  <2>4. CASE Fails /\ UNCHANGED known
    <3>1. Head(todo) \in Asked(p) => todo' = <<>>
      BY <2>4 DEF Fails, Stops, Asked
    <3>2. Head(todo) \notin Converts
      BY <2>2 DEF Due, Converts
    <3>3. \A x : SameFacts(known[p], known'[p], x)
      BY <2>4 DEF SameFacts
    <3> QED
      BY <3>1, <3>2, <3>3
  <2>5. CASE known' = [known EXCEPT ![p] = Learnt(known[p], what, Filed(p, what, Answer(p, what)))]
    <3> DEFINE v == Learnt(known[p], what, Filed(p, what, Answer(p, what)))
    <3>1. v = Learnt(known[p], Head(todo).what, Filed(p, Head(todo).what, Answer(p, Head(todo).what)))
      BY <2>1
    <3>2. known'[p] = v
      BY <1>1, <2>5
    <3> QED
      BY <1>2, <2>2, <3>1, <3>2
  <2> QED
    BY <2>3, <2>4, <2>5
<1>3. CASE ConvertToCelsius /\ p = "RTD"
  BY <1>1, <1>3 DEF ConvertToCelsius
<1>4. CASE ~(Query /\ Head(todo).on = p) /\ ~(ConvertToCelsius /\ p = "RTD")
  <2>1. known'[p] = known[p] \/ known'[p] = [known[p] EXCEPT !.codes = "on"]
    <3>1. CASE Query
      BY <1>1, <1>4, <3>1 DEF Query
    <3>2. CASE ReadOk
      BY <1>1, <3>2 DEF ReadOk
    <3>3. CASE ConvertToCelsius
      BY <1>1, <1>4, <3>3 DEF ConvertToCelsius
    <3>4. CASE ~Query /\ ~ReadOk /\ ~ConvertToCelsius
      <4>1. UNCHANGED known
        BY <3>4 DEF Next, Skip, OpenSession, Discard, Command, SendExport,
           ReadChunkUart, ReadChunkI2c, ImportResultUart, ImportResultI2c, Decide,
           RaiseFirstError, Finish, Ended, vars
      <4> QED
        BY <4>1
    <3> QED
      BY <3>1, <3>2, <3>3, <3>4
  <2>2. \A x : x # "codes" => SameFacts(known[p], known'[p], x)
    BY <2>1 DEF SameFacts
  <2>3. ASSUME todo # <<>>, Head(todo) \in Asked(p) \/ (p = "RTD" /\ Head(todo) \in Converts)
        PROVE  UNCHANGED todo
    <3>1. /\ Holds(Head(todo).when, Head(todo).on)
          /\ \/ Head(todo).op = "ask" /\ Head(todo).on = p
             \/ Head(todo).op = "celsius" /\ p = "RTD"
      BY <2>3 DEF Asked, Converts, Holds
    <3>2. CASE Next
      BY <1>4, <2>3, <3>1, <3>2 DEF Next, Skip, OpenSession, Discard, Query, Command, ReadOk, SendExport,
         ReadChunkUart, ReadChunkI2c, ImportResultUart, ImportResultI2c, ConvertToCelsius, Decide,
         RaiseFirstError, Finish, Ended, vars, Due
    <3>3. CASE UNCHANGED vars
      BY <3>3 DEF vars
    <3> QED
      BY <3>2, <3>3
  <2> QED
    BY <2>2, <2>3
<1> QED
  BY <1>2, <1>3, <1>4

LEMMA EffectOnSetting ==
  ASSUME NEW c, NEW what, NEW value
  PROVE  /\ "scale" \in DOMAIN c /\ what # "scale" => Effect(c, what, value).scale = c.scale
         /\ "output" \in DOMAIN c /\ what \notin {"output", "output_on", "output_off"} =>
              Effect(c, what, value).output = c.output
         /\ "temperature" \in DOMAIN c =>
              Effect(c, what, value).temperature = IF what = "temperature" THEN value ELSE c.temperature
         /\ "salinity" \in DOMAIN c =>
              Effect(c, what, value).salinity = IF what = "salinity" THEN value ELSE c.salinity
  BY DEF Effect

(* A setting other than the mode is changed by a command alone. *)
LEMMA SettingStep ==
  ASSUME Typed, program \in Examples, [Next]_vars, NEW p \in DOMAIN config
  PROVE  \/ \A x \in DOMAIN config[p] : x # "mode" => config'[p][x] = config[p][x]
         \/ /\ Due("tell") /\ todo # <<>> /\ Head(todo).op = "tell" /\ Head(todo).on = p
            /\ config'[p] = Effect(config[p], Head(todo).what, Sent(Head(todo)))
<1>1. Changes
  BY StepChanges
<1> DEFINE q == Head(todo).on
<1>2. CASE q # p
  BY <1>1, <1>2 DEF Changes
<1>3. CASE q = p
  <2>1. CASE UNCHANGED config
    BY <2>1
  <2>2. CASE /\ todo # <<>> /\ Due("tell")
             /\ config' = [config EXCEPT ![Head(todo).on]
                             = Effect(config[Head(todo).on], Head(todo).what, Sent(Head(todo)))]
    BY <1>3, <2>2 DEF Due
  <2>3. CASE config' = [config EXCEPT ![Head(todo).on] = [config[Head(todo).on] EXCEPT !.mode = "awake"]]
    <3>1. config'[p] = [config[p] EXCEPT !.mode = "awake"]
      BY <1>3, <2>3
    <3> QED
      BY <3>1
  <2> QED
    BY <1>1, <2>1, <2>2, <2>3 DEF Changes
<1> QED
  BY <1>2, <1>3

(* The scale and the outputs are never changed by these programs.          *)
LEMMA MeasuringKeeps ==
  ASSUME Typed, program \in Examples, [Next]_vars, NEW p \in DOMAIN config, todo \in Seq(Measuring)
  PROVE  /\ "scale" \in DOMAIN config[p] => config'[p].scale = config[p].scale
         /\ "output" \in DOMAIN config[p] => config'[p].output = config[p].output
<1>1. CASE \A x \in DOMAIN config[p] : x # "mode" => config'[p][x] = config[p][x]
  BY <1>1
<1>2. CASE /\ Due("tell") /\ todo # <<>> /\ Head(todo).op = "tell" /\ Head(todo).on = p
           /\ config'[p] = Effect(config[p], Head(todo).what, Sent(Head(todo)))
  <2>1. Head(todo) \in Measuring
    BY <1>2, HeadTailProperties
  <2>2. PICK c, what, value : c = config[p] /\ what = Head(todo).what /\ value = Sent(Head(todo))
    OBVIOUS
  <2>3. what \notin {"scale", "output", "output_on", "output_off"}
    BY <1>2, <2>1, <2>2 DEF Measuring, Measures
  <2>4. config'[p] = Effect(c, what, value)
    BY <1>2, <2>2
  <2> QED
    BY <2>2, <2>3, <2>4, EffectOnSetting
<1> QED
  BY <1>1, <1>2, SettingStep

(* What a compensation program knows of the temperature is what the RTD    *)
(* circuit measures, and it asks for what it does not know before it needs *)
(* it.                                                                     *)
Reading(c) == [value |-> InScale(Water.temperature, c.scale), scale |-> c.scale]

WarmFacts(k, c) ==
  /\ "scale" \in DOMAIN k => k.scale = c.scale
  /\ "read" \in DOMAIN k => k.read = Reading(c)
  /\ "celsius" \in DOMAIN k => k.celsius = Water.temperature

HasScale(c) == "scale" \in DOMAIN c /\ "read" \notin DOMAIN c /\ c.scale \in {"c", "k", "f"}

Warm ==
  /\ "RTD" \in DOMAIN config /\ HasScale(config["RTD"])
  /\ WarmFacts(known["RTD"], config["RTD"])
  /\ After(todo, AsksFor("RTD", "scale"), AsksFor("RTD", "read")) \/ "scale" \in DOMAIN known["RTD"]
  /\ After(todo, AsksFor("RTD", "read"), Converts) \/ "read" \in DOMAIN known["RTD"]
  /\ After(todo, Converts, Sets("temperature")) \/ "celsius" \in DOMAIN known["RTD"]

LEMMA ReadsInCelsius ==
  ASSUME NEW c, HasScale(c)
  PROVE  ToCelsius(Reading(c)) = Water.temperature
<1>1. Water.temperature = 2500
  BY DEF Water
<1>2. CASE c.scale = "c"
  BY <1>1, <1>2 DEF ToCelsius, Reading, InScale
<1>3. CASE c.scale = "k"
  BY <1>1, <1>3 DEF ToCelsius, Reading, InScale
<1>4. CASE c.scale = "f"
  BY <1>1, <1>4 DEF ToCelsius, Reading, InScale
<1> QED
  BY <1>2, <1>3, <1>4 DEF HasScale

(* A step that is due is made, and not left out. *)
LEMMA DueAlways ==
  ASSUME todo \in Seq(Measuring), NEW op \in {"ask", "celsius", "need"}, Due(op)
  PROVE  /\ todo # <<>> /\ Head(todo) \in AnyStep /\ Head(todo).op = op /\ Measures(Head(todo))
         /\ Head(todo).when = "always" /\ Head(todo).failing = "stops"
<1>1. todo # <<>> /\ Head(todo).op = op /\ Holds(Head(todo).when, Head(todo).on)
  BY DEF Due
<1>2. Head(todo) \in AnyStep /\ Measures(Head(todo))
  <2>1. Head(todo) \in Measuring
    BY <1>1, HeadTailProperties
  <2> QED
    BY <2>1 DEF Measuring
<1>3. Head(todo).when # "never"
  BY <1>1 DEF Holds
<1> QED
  BY <1>1, <1>2, <1>3 DEF Measures

LEMMA WarmKnown ==
  ASSUME Typed, program \in Examples, todo \in Seq(Measuring), Warm, [Next]_vars,
         Due("ask") /\ Head(todo).on = "RTD" => bus = "i2c" \/ line["RTD"] = <<>>
  PROVE  /\ WarmFacts(known'["RTD"], config["RTD"])
         /\ \A x \in {"scale", "read", "celsius"} : x \in DOMAIN known["RTD"] => x \in DOMAIN known'["RTD"]
         /\ (todo # <<>> /\ Head(todo) \in AsksFor("RTD", "scale")) =>
              UNCHANGED todo \/ todo' = <<>> \/ "scale" \in DOMAIN known'["RTD"]
         /\ (todo # <<>> /\ Head(todo) \in AsksFor("RTD", "read")) =>
              UNCHANGED todo \/ todo' = <<>> \/ "read" \in DOMAIN known'["RTD"]
         /\ (todo # <<>> /\ Head(todo) \in Converts) =>
              UNCHANGED todo \/ todo' = <<>> \/ "celsius" \in DOMAIN known'["RTD"]
<1>1. PICK k, k2, c : k = known["RTD"] /\ k2 = known'["RTD"] /\ c = config["RTD"]
  OBVIOUS
<1>2. "RTD" \in DOMAIN config /\ HasScale(c) /\ WarmFacts(k, c) /\ todo \in Seq(AnyStep)
  BY <1>1, InKind DEF Warm
<1> DEFINE Kept(x) == SameFacts(k, k2, x)
<1>3. CASE /\ \A x : x # "codes" => Kept(x)
           /\ todo # <<>> /\ (Head(todo) \in Asked("RTD") \/ Head(todo) \in Converts) =>
                UNCHANGED todo \/ todo' = <<>>
  <2>1. Kept("scale") /\ Kept("read") /\ Kept("celsius")
    BY <1>3
  <2>2. WarmFacts(k2, c)
    BY <1>2, <2>1 DEF SameFacts, WarmFacts
  <2>3. AsksFor("RTD", "scale") \subseteq Asked("RTD") /\ AsksFor("RTD", "read") \subseteq Asked("RTD")
    BY DEF AsksFor, Asked
  <2> QED
    BY <1>1, <1>3, <2>1, <2>2, <2>3 DEF SameFacts
<1>4. CASE /\ Due("ask") /\ Head(todo).on = "RTD"
           /\ known'["RTD"] = Learnt(known["RTD"], Head(todo).what,
                                     Filed("RTD", Head(todo).what, Answer("RTD", Head(todo).what)))
  <2>1. PICK what, v : what = Head(todo).what /\ v = Filed("RTD", Head(todo).what, Answer("RTD", Head(todo).what))
    OBVIOUS
  <2>2. k2 = Learnt(k, what, v)
    BY <1>1, <1>4, <2>1
  <2>3. /\ todo # <<>> /\ Head(todo) \in AnyStep /\ Head(todo).op = "ask" /\ Measures(Head(todo))
        /\ Head(todo).when = "always" /\ Head(todo).failing = "stops"
    BY <1>4, DueAlways
  <2>4. what # "celsius" /\ Head(todo) \notin Converts
    BY <2>1, <2>3 DEF Measures, Converts
  <2>5. Kept("celsius") /\ (what # "scale" => Kept("scale")) /\ (what # "read" => Kept("read"))
    BY <2>2, <2>4, LearntFacts
  <2>6. /\ what = "scale" => "scale" \in DOMAIN k2 /\ k2.scale = v
        /\ what = "read" => "read" \in DOMAIN k2 /\ k2.read = v
    <3>1. what \in DOMAIN k2 /\ k2[what] = v
      BY <2>2, LearntIs
    <3> QED
      BY <3>1
  <2>7. CASE what = "scale"
    <3>1. v = c.scale
      BY <1>1, <1>2, <2>1, <2>7 DEF Filed, Answer, HasScale
    <3>2. Head(todo) \notin AsksFor("RTD", "read")
      BY <2>1, <2>7 DEF AsksFor
    <3> QED
      BY <1>1, <1>2, <2>4, <2>5, <2>6, <2>7, <3>1, <3>2 DEF SameFacts, WarmFacts
  <2>8. CASE what = "read"
    <3>1. Head(todo) \in AsksFor("RTD", "read") /\ Head(todo) \notin AsksFor("RTD", "scale")
      BY <1>4, <2>1, <2>3, <2>8 DEF AsksFor
    <3>2. "scale" \in DOMAIN k
      <4>1. ~After(todo, AsksFor("RTD", "scale"), AsksFor("RTD", "read"))
        BY <1>2, <2>3, <3>1, AfterTail
      <4> QED
        BY <1>1, <4>1 DEF Warm
    <3>3. v = Reading(c)
      <4>1. Answer("RTD", "read") = InScale(Water.temperature, c.scale)
        BY <1>1, <1>2 DEF Answer, HasScale
      <4>2. v = [value |-> Answer("RTD", "read"), scale |-> k.scale]
        BY <1>1, <2>1, <2>8 DEF Filed
      <4>3. k.scale = c.scale
        BY <1>2, <3>2 DEF WarmFacts
      <4> QED
        BY <4>1, <4>2, <4>3 DEF Reading
    <3> QED
      BY <1>1, <1>2, <2>4, <2>5, <2>6, <2>8, <3>1, <3>3 DEF SameFacts, WarmFacts
  <2>9. CASE what \notin {"scale", "read"}
    <3>1. Head(todo) \notin AsksFor("RTD", "read") /\ Head(todo) \notin AsksFor("RTD", "scale")
      BY <2>1, <2>9 DEF AsksFor
    <3> QED
      BY <1>1, <1>2, <2>4, <2>5, <2>9, <3>1 DEF SameFacts, WarmFacts
  <2> QED
    BY <2>7, <2>8, <2>9
<1>5. CASE /\ Due("celsius")
           /\ known'["RTD"] = Learnt(known["RTD"], "celsius", ToCelsius(known["RTD"].read))
  <2>1. /\ todo # <<>> /\ Head(todo) \in AnyStep /\ Head(todo).op = "celsius" /\ Measures(Head(todo))
        /\ Head(todo).when = "always"
    BY <1>5, DueAlways
  <2>2. Head(todo) \in Converts
    BY <2>1 DEF Measures, Converts
  <2>3. "read" \in DOMAIN k
    <3>1. ~After(todo, AsksFor("RTD", "read"), Converts)
      BY <1>2, <2>1, <2>2, AfterTail
    <3> QED
      BY <1>1, <3>1 DEF Warm
  <2>4. PICK v : v = ToCelsius(k.read)
    OBVIOUS
  <2>5. v = Water.temperature
    BY <1>2, <2>3, <2>4, ReadsInCelsius DEF WarmFacts
  <2>6. k2 = Learnt(k, "celsius", v)
    BY <1>1, <1>5, <2>4
  <2>7. Kept("scale") /\ Kept("read") /\ "celsius" \in DOMAIN k2 /\ k2.celsius = v
    BY <2>6, LearntFacts, LearntIs
  <2>8. Head(todo) \notin AsksFor("RTD", "read") /\ Head(todo) \notin AsksFor("RTD", "scale")
    BY <2>1 DEF AsksFor
  <2> QED
    BY <1>1, <1>2, <2>5, <2>7, <2>8 DEF SameFacts, WarmFacts
<1> QED
  BY <1>1, <1>2, <1>3, <1>4, <1>5, KnownStep

LEMMA StaysWarm ==
  ASSUME Typed, program \in Examples, todo \in Seq(Measuring), Warm, [Next]_vars,
         Due("ask") /\ Head(todo).on = "RTD" => bus = "i2c" \/ line["RTD"] = <<>>
  PROVE  Warm'
<1>1. Moves /\ DOMAIN config' = DOMAIN config /\ todo \in Seq(AnyStep)
  BY StepMoves, StepConfig, InKind
<1>2. "RTD" \in DOMAIN config /\ HasScale(config["RTD"])
  BY DEF Warm
<1>3. config'["RTD"].scale = config["RTD"].scale /\ DOMAIN config'["RTD"] = DOMAIN config["RTD"]
  BY <1>2, MeasuringKeeps, StepConfig DEF HasScale
<1>4. HasScale(config'["RTD"]) /\ WarmFacts(known'["RTD"], config'["RTD"])
  <2>1. WarmFacts(known'["RTD"], config["RTD"])
    BY WarmKnown
  <2> QED
    BY <1>2, <1>3, <2>1 DEF HasScale, WarmFacts, Reading
<1>5. \A e \in AsksFor("RTD", "read") \cup Converts \cup Sets("temperature") : e.op # "chunk"
  BY DEF AsksFor, Converts, Sets
<1>6. After(todo', AsksFor("RTD", "scale"), AsksFor("RTD", "read")) \/ "scale" \in DOMAIN known'["RTD"]
  <2>1. CASE "scale" \in DOMAIN known["RTD"]
    BY <2>1, WarmKnown
  <2>2. CASE After(todo, AsksFor("RTD", "scale"), AsksFor("RTD", "read")) /\ "scale" \notin DOMAIN known'["RTD"]
    <3>1. todo # <<>> /\ Head(todo) \in AsksFor("RTD", "scale") => UNCHANGED todo \/ todo' = <<>>
      BY <2>2, WarmKnown
    <3> QED
      BY <1>1, <1>5, <2>2, <3>1, AfterMove
  <2> QED
    BY <2>1, <2>2 DEF Warm
<1>7. After(todo', AsksFor("RTD", "read"), Converts) \/ "read" \in DOMAIN known'["RTD"]
  <2>1. CASE "read" \in DOMAIN known["RTD"]
    BY <2>1, WarmKnown
  <2>2. CASE After(todo, AsksFor("RTD", "read"), Converts) /\ "read" \notin DOMAIN known'["RTD"]
    <3>1. todo # <<>> /\ Head(todo) \in AsksFor("RTD", "read") => UNCHANGED todo \/ todo' = <<>>
      BY <2>2, WarmKnown
    <3> QED
      BY <1>1, <1>5, <2>2, <3>1, AfterMove
  <2> QED
    BY <2>1, <2>2 DEF Warm
<1>8. After(todo', Converts, Sets("temperature")) \/ "celsius" \in DOMAIN known'["RTD"]
  <2>1. CASE "celsius" \in DOMAIN known["RTD"]
    BY <2>1, WarmKnown
  <2>2. CASE After(todo, Converts, Sets("temperature")) /\ "celsius" \notin DOMAIN known'["RTD"]
    <3>1. todo # <<>> /\ Head(todo) \in Converts => UNCHANGED todo \/ todo' = <<>>
      BY <2>2, WarmKnown
    <3> QED
      BY <1>1, <1>5, <2>2, <3>1, AfterMove
  <2> QED
    BY <2>1, <2>2 DEF Warm
<1> QED
  BY <1>1, <1>2, <1>4, <1>6, <1>7, <1>8 DEF Warm

(* The same of the salinity and the EC circuit.                            *)
SaltyFacts(k, c) ==
  /\ "output" \in DOMAIN k => k.output = c.output
  /\ "read" \in DOMAIN k => k.read = [value |-> Water.salinity, outputs |-> c.output]

HasOutput(c) == "output" \in DOMAIN c /\ "read" \notin DOMAIN c

Salty ==
  /\ "EC" \in DOMAIN config /\ HasOutput(config["EC"])
  /\ SaltyFacts(known["EC"], config["EC"])
  /\ After(todo, AsksFor("EC", "output"), AsksFor("EC", "read")) \/ "output" \in DOMAIN known["EC"]
  /\ After(todo, AsksFor("EC", "read"), NeedsSalinity) \/ "read" \in DOMAIN known["EC"]
  /\ \/ After(todo, NeedsSalinity, Sets("salinity"))
     \/ "read" \in DOMAIN known["EC"] /\ "S" \in config["EC"].output

LEMMA SaltyKnown ==
  ASSUME Typed, program \in Examples, todo \in Seq(Measuring), Salty, [Next]_vars,
         Due("ask") /\ Head(todo).on = "EC" => bus = "i2c" \/ line["EC"] = <<>>
  PROVE  /\ SaltyFacts(known'["EC"], config["EC"])
         /\ \A x \in {"output", "read"} : x \in DOMAIN known["EC"] => x \in DOMAIN known'["EC"]
         /\ (todo # <<>> /\ Head(todo) \in AsksFor("EC", "output")) =>
              UNCHANGED todo \/ todo' = <<>> \/ "output" \in DOMAIN known'["EC"]
         /\ (todo # <<>> /\ Head(todo) \in AsksFor("EC", "read")) =>
              UNCHANGED todo \/ todo' = <<>> \/ "read" \in DOMAIN known'["EC"]
<1>1. PICK k, k2, c : k = known["EC"] /\ k2 = known'["EC"] /\ c = config["EC"]
  OBVIOUS
<1>2. "EC" \in DOMAIN config /\ HasOutput(c) /\ SaltyFacts(k, c) /\ todo \in Seq(AnyStep)
  BY <1>1, InKind DEF Salty
<1> DEFINE Kept(x) == SameFacts(k, k2, x)
<1>3. CASE /\ \A x : x # "codes" => Kept(x)
           /\ todo # <<>> /\ Head(todo) \in Asked("EC") => UNCHANGED todo \/ todo' = <<>>
  <2>1. Kept("output") /\ Kept("read")
    BY <1>3
  <2>2. SaltyFacts(k2, c)
    BY <1>2, <2>1 DEF SameFacts, SaltyFacts
  <2>3. AsksFor("EC", "output") \subseteq Asked("EC") /\ AsksFor("EC", "read") \subseteq Asked("EC")
    BY DEF AsksFor, Asked
  <2> QED
    BY <1>1, <1>3, <2>1, <2>2, <2>3 DEF SameFacts
<1>4. CASE /\ Due("ask") /\ Head(todo).on = "EC"
           /\ known'["EC"] = Learnt(known["EC"], Head(todo).what,
                                    Filed("EC", Head(todo).what, Answer("EC", Head(todo).what)))
  <2>1. PICK what, v : what = Head(todo).what /\ v = Filed("EC", Head(todo).what, Answer("EC", Head(todo).what))
    OBVIOUS
  <2>2. k2 = Learnt(k, what, v)
    BY <1>1, <1>4, <2>1
  <2>3. /\ todo # <<>> /\ Head(todo) \in AnyStep /\ Head(todo).op = "ask"
        /\ Head(todo).when = "always" /\ Head(todo).failing = "stops"
    BY <1>4, DueAlways
  <2>5. (what # "output" => Kept("output")) /\ (what # "read" => Kept("read"))
    BY <2>2, LearntFacts
  <2>6. /\ what = "output" => "output" \in DOMAIN k2 /\ k2.output = v
        /\ what = "read" => "read" \in DOMAIN k2 /\ k2.read = v
    <3>1. what \in DOMAIN k2 /\ k2[what] = v
      BY <2>2, LearntIs
    <3> QED
      BY <3>1
  <2>7. CASE what = "output"
    <3>1. v = c.output
      BY <1>1, <1>2, <2>1, <2>7 DEF Filed, Answer, HasOutput
    <3>2. Head(todo) \notin AsksFor("EC", "read")
      BY <2>1, <2>7 DEF AsksFor
    <3> QED
      BY <1>1, <1>2, <2>5, <2>6, <2>7, <3>1, <3>2 DEF SameFacts, SaltyFacts
  <2>8. CASE what = "read"
    <3>1. Head(todo) \in AsksFor("EC", "read") /\ Head(todo) \notin AsksFor("EC", "output")
      BY <1>4, <2>1, <2>3, <2>8 DEF AsksFor
    <3>2. "output" \in DOMAIN k
      <4>1. ~After(todo, AsksFor("EC", "output"), AsksFor("EC", "read"))
        BY <1>2, <2>3, <3>1, AfterTail
      <4> QED
        BY <1>1, <4>1 DEF Salty
    <3>3. v = [value |-> Water.salinity, outputs |-> c.output]
      <4>1. Answer("EC", "read") = Water.salinity
        BY <1>1, <1>2 DEF Answer, HasOutput
      <4>2. v = [value |-> Answer("EC", "read"), outputs |-> k.output]
        BY <1>1, <2>1, <2>8 DEF Filed
      <4>3. k.output = c.output
        BY <1>2, <3>2 DEF SaltyFacts
      <4> QED
        BY <4>1, <4>2, <4>3
    <3> QED
      BY <1>1, <1>2, <2>5, <2>6, <2>8, <3>1, <3>3 DEF SameFacts, SaltyFacts
  <2>9. CASE what \notin {"output", "read"}
    <3>1. Head(todo) \notin AsksFor("EC", "read") /\ Head(todo) \notin AsksFor("EC", "output")
      BY <2>1, <2>9 DEF AsksFor
    <3> QED
      BY <1>1, <1>2, <2>5, <2>9, <3>1 DEF SameFacts, SaltyFacts
  <2> QED
    BY <2>7, <2>8, <2>9
<1> QED
  BY <1>1, <1>2, <1>3, <1>4, KnownStep

(* The decision passes only if the EC circuit reports the salinity. *)
LEMMA DecidesMeasured ==
  ASSUME todo \in Seq(Measuring), Salty, [Next]_vars, todo # <<>>, Head(todo) \in NeedsSalinity
  PROVE  \/ UNCHANGED todo \/ todo' = <<>>
         \/ "read" \in DOMAIN known["EC"] /\ "S" \in config["EC"].output
<1>1. /\ Head(todo).op = "need" /\ Head(todo).on = "EC" /\ Head(todo).what = "salinity measured"
      /\ Holds(Head(todo).when, Head(todo).on)
  BY DEF NeedsSalinity, Holds
<1>2. "read" \in DOMAIN known["EC"]
  <2>1. todo \in Seq(AnyStep)
    BY InKind
  <2>2. ~After(todo, AsksFor("EC", "read"), NeedsSalinity)
    BY <2>1, AfterTail
  <2> QED
    BY <2>2 DEF Salty
<1>3. known["EC"].read.outputs = config["EC"].output
  BY <1>2 DEF Salty, SaltyFacts
<1>4. CASE Decide
  <2>1. CASE Holds(Head(todo).what, Head(todo).on)
    <3>1. "S" \in known["EC"].read.outputs
      BY <1>1, <2>1 DEF Holds
    <3> QED
      BY <1>2, <1>3, <3>1
  <2>2. CASE ~Holds(Head(todo).what, Head(todo).on)
    BY <1>4, <2>2 DEF Decide, Stops
  <2> QED
    BY <2>1, <2>2
<1>5. CASE Next /\ ~Decide
  BY <1>1, <1>5 DEF Next, Skip, OpenSession, Discard, Query, Command, ReadOk,
     SendExport, ReadChunkUart, ReadChunkI2c, ImportResultUart, ImportResultI2c,
     ConvertToCelsius, RaiseFirstError, Finish, Ended, vars, Due
<1>6. CASE UNCHANGED vars
  BY <1>6 DEF vars
<1> QED
  BY <1>4, <1>5, <1>6

LEMMA StaysSalty ==
  ASSUME Typed, program \in Examples, todo \in Seq(Measuring), Salty, [Next]_vars,
         Due("ask") /\ Head(todo).on = "EC" => bus = "i2c" \/ line["EC"] = <<>>
  PROVE  Salty'
<1>1. Moves /\ DOMAIN config' = DOMAIN config /\ todo \in Seq(AnyStep)
  BY StepMoves, StepConfig, InKind
<1>2. "EC" \in DOMAIN config /\ HasOutput(config["EC"])
  BY DEF Salty
<1>3. config'["EC"].output = config["EC"].output /\ DOMAIN config'["EC"] = DOMAIN config["EC"]
  BY <1>2, MeasuringKeeps, StepConfig DEF HasOutput
<1>4. HasOutput(config'["EC"]) /\ SaltyFacts(known'["EC"], config'["EC"])
  <2>1. SaltyFacts(known'["EC"], config["EC"])
    BY SaltyKnown
  <2> QED
    BY <1>2, <1>3, <2>1 DEF HasOutput, SaltyFacts
<1>5. \A e \in AsksFor("EC", "read") \cup NeedsSalinity \cup Sets("salinity") : e.op # "chunk"
  BY DEF AsksFor, NeedsSalinity, Sets
<1>6. After(todo', AsksFor("EC", "output"), AsksFor("EC", "read")) \/ "output" \in DOMAIN known'["EC"]
  <2>1. CASE "output" \in DOMAIN known["EC"]
    BY <2>1, SaltyKnown
  <2>2. CASE After(todo, AsksFor("EC", "output"), AsksFor("EC", "read")) /\ "output" \notin DOMAIN known'["EC"]
    <3>1. todo # <<>> /\ Head(todo) \in AsksFor("EC", "output") => UNCHANGED todo \/ todo' = <<>>
      BY <2>2, SaltyKnown
    <3> QED
      BY <1>1, <1>5, <2>2, <3>1, AfterMove
  <2> QED
    BY <2>1, <2>2 DEF Salty
<1>7. After(todo', AsksFor("EC", "read"), NeedsSalinity) \/ "read" \in DOMAIN known'["EC"]
  <2>1. CASE "read" \in DOMAIN known["EC"]
    BY <2>1, SaltyKnown
  <2>2. CASE After(todo, AsksFor("EC", "read"), NeedsSalinity) /\ "read" \notin DOMAIN known'["EC"]
    <3>1. todo # <<>> /\ Head(todo) \in AsksFor("EC", "read") => UNCHANGED todo \/ todo' = <<>>
      BY <2>2, SaltyKnown
    <3> QED
      BY <1>1, <1>5, <2>2, <3>1, AfterMove
  <2> QED
    BY <2>1, <2>2 DEF Salty
<1>8. \/ After(todo', NeedsSalinity, Sets("salinity"))
      \/ "read" \in DOMAIN known'["EC"] /\ "S" \in config'["EC"].output
  <2>1. CASE "read" \in DOMAIN known["EC"] /\ "S" \in config["EC"].output
    BY <1>3, <2>1, SaltyKnown
  <2>2. CASE /\ After(todo, NeedsSalinity, Sets("salinity"))
             /\ ~("read" \in DOMAIN known["EC"] /\ "S" \in config["EC"].output)
    <3>1. todo # <<>> /\ Head(todo) \in NeedsSalinity => UNCHANGED todo \/ todo' = <<>>
      BY <2>2, DecidesMeasured
    <3> QED
      BY <1>1, <1>5, <2>2, <3>1, AfterMove
  <2> QED
    BY <2>1, <2>2 DEF Salty
<1> QED
  BY <1>1, <1>2, <1>4, <1>6, <1>7, <1>8 DEF Salty

(* The inductive invariant of a compensation program. *)
Measured ==
  Compensates =>
    /\ todo \in Seq(Measuring)
    /\ todo \in Seq(Without("temperature")) \/ Warm
    /\ todo \in Seq(Without("salinity")) \/ Salty

LEMMA StepMeasured ==
  ASSUME Typed, Steady, Measured, [Next]_vars
  PROVE  Measured'
<1>1. program \in Examples /\ program' = program
  BY StepExamples, StepGiven
<1> SUFFICES ASSUME Compensates
             PROVE  /\ todo' \in Seq(Measuring)
                    /\ todo' \in Seq(Without("temperature")) \/ Warm'
                    /\ todo' \in Seq(Without("salinity")) \/ Salty'
  BY <1>1 DEF Measured, Compensates
<1>2. todo' \in Seq(Measuring)
  BY MeasuringKinds, StepKeeps DEF Measured
<1>3. ASSUME NEW what, todo \in Seq(Without(what)) PROVE todo' \in Seq(Without(what))
  BY <1>3, WithoutKinds, StepKeeps
<1>4. ASSUME Warm PROVE Warm'
  <2>1. Due("ask") /\ Head(todo).on = "RTD" => bus = "i2c" \/ line["RTD"] = <<>>
    BY <1>1, <1>4, AsksInStep DEF Warm
  <2> QED
    BY <1>1, <1>4, <2>1, StaysWarm DEF Measured
<1>5. ASSUME Salty PROVE Salty'
  <2>1. Due("ask") /\ Head(todo).on = "EC" => bus = "i2c" \/ line["EC"] = <<>>
    BY <1>1, <1>5, AsksInStep DEF Salty
  <2> QED
    BY <1>1, <1>5, <2>1, StaysSalty DEF Measured
<1> QED
  BY <1>2, <1>3, <1>4, <1>5 DEF Measured

LEMMA InitMeasured ==
  ASSUME Init
  PROVE  Measured
<1> SUFFICES ASSUME Compensates
             PROVE  /\ todo \in Seq(Measuring)
                    /\ todo \in Seq(Without("temperature")) \/ Warm
                    /\ todo \in Seq(Without("salinity")) \/ Salty
  BY DEF Measured
<1> DEFINE n == program.name
           on == program.on
<1>1. DOMAIN config = Uses(n, on) /\ \A p \in DOMAIN config : config[p] \in Circuits[p]
  BY DEF Init, SettingsOf
<1>2. todo \in {Script(n, on, flags), ScriptOverI2c(n, on, flags)}
  BY DEF Init
<1>3. \A p \in DOMAIN config : DOMAIN known[p] = {}
  <2>1. \A p \in DOMAIN config : known[p] = <<>>
    BY DEF Init
  <2>2. DOMAIN <<>> = {}
    OBVIOUS
  <2> QED
    BY <2>1, <2>2
<1>4. ASSUME "RTD" \in DOMAIN config, SetsTemperature(todo) PROVE Warm
  <2>1. config["RTD"] \in Circuits["RTD"] /\ "RTD" \in Products
    BY <1>1, <1>4 DEF Products
  <2>2. HasScale(config["RTD"])
    BY <2>1, ProgramAssumption DEF HasScale
  <2> QED
    BY <1>3, <1>4, <2>2 DEF Warm, WarmFacts, SetsTemperature
<1>5. ASSUME "EC" \in DOMAIN config, SetsSalinity(todo) PROVE Salty
  <2>1. config["EC"] \in Circuits["EC"] /\ "EC" \in Products
    BY <1>1, <1>5 DEF Products
  <2>2. HasOutput(config["EC"])
    BY <2>1, ProgramAssumption DEF HasOutput
  <2> QED
    BY <1>3, <1>5, <2>2 DEF Salty, SaltyFacts, SetsSalinity
<1>6. CASE n \in {"ph_temp_comp_from_rtd", "ec_temp_comp_from_rtd", "do_temp_comp_from_rtd"}
  <2>1. "RTD" \in DOMAIN config
    BY <1>1, <1>6 DEF Uses
  <2>2. Heats(todo)
    BY <1>2, <1>6, PhTempCompHeats, EcTempCompHeats, DoTempCompHeats
  <2> QED
    BY <1>4, <2>1, <2>2 DEF Heats
<1>7. CASE n = "do_salinity_comp_from_ec"
  <2>1. "EC" \in DOMAIN config
    BY <1>1, <1>7 DEF Uses
  <2>2. Salts(todo)
    BY <1>2, <1>7, DoSalinityCompSalts
  <2> QED
    BY <1>5, <2>1, <2>2 DEF Salts
<1>8. CASE n = "do_full_compensation_chain"
  <2>1. "EC" \in DOMAIN config /\ "RTD" \in DOMAIN config
    BY <1>1, <1>8 DEF Uses
  <2>2. HeatsAndSalts(todo)
    BY <1>2, <1>8, DoFullChainHeatsAndSalts
  <2> QED
    BY <1>4, <1>5, <2>1, <2>2 DEF HeatsAndSalts
<1> QED
  BY <1>6, <1>7, <1>8 DEF Compensates

LEMMA MeasuredStep ==
  ASSUME Typed, Measured, program \in Examples, Compensates, [Next]_vars, NEW p \in DOMAIN config
  PROVE  /\ "temperature" \in DOMAIN config[p] =>
              config'[p].temperature \in {config[p].temperature, Water.temperature}
         /\ "salinity" \in DOMAIN config[p] =>
              \/ config'[p].salinity = config[p].salinity
              \/ config'[p].salinity = <<Water.salinity, "ppt">> /\ "S" \in config["EC"].output
<1>1. CASE \A x \in DOMAIN config[p] : x # "mode" => config'[p][x] = config[p][x]
  BY <1>1
<1>2. CASE /\ todo # <<>> /\ Head(todo).op = "tell" /\ Head(todo).on = p
           /\ config'[p] = Effect(config[p], Head(todo).what, Sent(Head(todo)))
  <2> DEFINE s == Head(todo)
  <2>1. todo \in Seq(Measuring) /\ todo \in Seq(AnyStep)
    BY InKind DEF Measured
  <2>2. s \in AnyStep /\ Measures(s)
    <3>1. s \in Measuring
      BY <1>2, <2>1, HeadTailProperties
    <3> QED
      BY <3>1 DEF Measuring
  <2>3. PICK c, what, value : c = config[p] /\ what = s.what /\ value = Sent(s)
    OBVIOUS
  <2>4. config'[p] = Effect(c, what, value)
    BY <1>2, <2>3
  <2>5. /\ "temperature" \in DOMAIN c => config'[p].temperature = IF what = "temperature" THEN value ELSE c.temperature
        /\ "salinity" \in DOMAIN c => config'[p].salinity = IF what = "salinity" THEN value ELSE c.salinity
    BY <2>4, EffectOnSetting
  <2>6. what = "temperature" => value = Water.temperature
    <3> SUFFICES ASSUME what = "temperature" PROVE value = Water.temperature
      OBVIOUS
    <3>1. s \in Sets("temperature")
      BY <1>2, <2>2, <2>3 DEF Sets
    <3>2. Warm
      <4>1. s \notin Without("temperature")
        BY <3>1 DEF Without
      <4>2. todo \notin Seq(Without("temperature"))
        BY <1>2, <4>1, HeadTailProperties
      <4> QED
        BY <4>2 DEF Measured
    <3>3. "celsius" \in DOMAIN known["RTD"]
      <4>1. ~After(todo, Converts, Sets("temperature"))
        BY <1>2, <2>1, <3>1, AfterTail
      <4> QED
        BY <3>2, <4>1 DEF Warm
    <3>4. value = known["RTD"].celsius
      BY <1>2, <2>2, <2>3 DEF Measures, Sent
    <3> QED
      BY <3>2, <3>3, <3>4 DEF Warm, WarmFacts
  <2>7. what = "salinity" => value = <<Water.salinity, "ppt">> /\ "S" \in config["EC"].output
    <3> SUFFICES ASSUME what = "salinity"
                 PROVE  value = <<Water.salinity, "ppt">> /\ "S" \in config["EC"].output
      OBVIOUS
    <3>1. s \in Sets("salinity")
      BY <1>2, <2>2, <2>3 DEF Sets
    <3>2. Salty
      <4>1. s \notin Without("salinity")
        BY <3>1 DEF Without
      <4>2. todo \notin Seq(Without("salinity"))
        BY <1>2, <4>1, HeadTailProperties
      <4> QED
        BY <4>2 DEF Measured
    <3>3. "read" \in DOMAIN known["EC"] /\ "S" \in config["EC"].output
      <4>1. ~After(todo, NeedsSalinity, Sets("salinity"))
        BY <1>2, <2>1, <3>1, AfterTail
      <4> QED
        BY <3>2, <4>1 DEF Salty
    <3>4. value = <<known["EC"].read.value, "ppt">>
      BY <1>2, <2>2, <2>3 DEF Measures, Sent
    <3>5. known["EC"].read = [value |-> Water.salinity, outputs |-> config["EC"].output]
      BY <3>2, <3>3 DEF Salty, SaltyFacts
    <3> QED
      BY <3>3, <3>4, <3>5
  <2> QED
    BY <2>3, <2>5, <2>6, <2>7
<1> QED
  BY <1>1, <1>2, SettingStep

(* A compensation program (do_full_compensation_chain.c and the others)    *)
(* sets a circuit to the temperature in degrees Celsius and the salinity   *)
(* that the other circuits measured, in whatever scale and with whatever   *)
(* outputs they report them, on both transports and whatever goes wrong.   *)
THEOREM CompensationIsMeasured == Spec => AppliedIsMeasured
<1>1. Init => Typed /\ Steady /\ Measured
  BY InitTyped, InitSteady, InitMeasured
<1>2. Typed /\ Steady /\ Measured /\ [Next]_vars => Typed' /\ Steady' /\ Measured'
  BY StepTyped, StepSteady, StepMeasured
<1>3. Typed /\ Steady /\ Measured /\ [Next]_vars =>
        [Compensates =>
           \A p \in DOMAIN config :
             /\ "temperature" \in DOMAIN config[p] =>
                  config'[p].temperature \in {config[p].temperature, Water.temperature}
             /\ "salinity" \in DOMAIN config[p] =>
                  \/ config'[p].salinity = config[p].salinity
                  \/ config'[p].salinity = <<Water.salinity, "ppt">> /\ "S" \in config["EC"].output]_vars
  BY StepExamples, MeasuredStep
<1> QED
  BY <1>1, <1>2, <1>3, PTL DEF Spec, AppliedIsMeasured
=============================================================================
