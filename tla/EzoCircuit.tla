----------------------------- MODULE EzoCircuit -----------------------------
(***************************************************************************)
(* What a circuit answers to a command, from the product pages under       *)
(* docs/ezo and the payloads of the tests.  An answer is a text with what  *)
(* it means: the values, one for each thing a typed read hands out.        *)
(***************************************************************************)
EXTENDS EzoProducts

Answer(text, means) == [text |-> text, means |-> means]

(* "?HEAD,word,..." means its words. *)
WithHead(head, words) == <<head>> \o words

Labelled(heads, wordss) == {Answer(WithHead(h, w), w) : h \in heads, w \in wordss}

-----------------------------------------------------------------------------
ValueOf == [i \in 1 .. EZO_SCHEMA_MAX_FIELDS |-> <<"n1", "n2", "n3", "n4">>[i]]

(* The words of the enabled outputs, in schema order. *)
Enabled(mask, n) ==
  CHOOSE i \in DOMAIN mask : mask[i] = "on" /\ Cardinality(EnabledUpTo(mask, i)) = n

OfEnabled(words, mask) == [n \in 1 .. CountEnabled(mask) |-> words[Enabled(mask, n)]]

(* One value for each enabled output; RTD gives its value in its scale. *)
Reading(product, mask, scale) ==
  CASE product = "RTD" -> Answer(<<"n1">>, <<"n1", scale>>)
    [] product \in {"PH", "ORP"} -> Answer(<<"n1">>, <<"n1">>)
    [] OTHER -> IF "on" \in ToSet(mask)
                THEN Answer(OfEnabled(ValueOf, mask),
                            [i \in DOMAIN mask |-> IF mask[i] = "on" THEN ValueOf[i] ELSE "absent"])
                ELSE Answer(<<"no output">>, <<>>)

(* The vendor's form of the answer to O,?, and the one like all others. *)
OutputAnswers(product, mask) ==
  {Answer(form \o OfEnabled(Outputs[product], mask), mask) : form \in {<<"?", "O">>, <<"?O">>}}

Levels ==
  [PH |-> {"0", "1", "2", "3"}, ORP |-> {"0", "1"}, EC |-> {"0", "1", "2"},
   DO |-> {"0", "1", "2"}, RTD |-> {"0", "1"}, HUM |-> {}]

Bits == {<<"0">>, <<"1">>}

ProductAnswers(product, cmd, mask, scale) ==
  CASE cmd[1] \in {"r", "rt"} -> {Reading(product, mask, scale)}
    [] cmd[1] = "O"      -> OutputAnswers(product, mask)
    [] cmd[1] = "T"      -> Labelled({"?T"}, {<<"n1">>})
    [] cmd[1] = "K"      -> Labelled({"?K"}, {<<"n2">>})
    [] cmd[1] = "TDS"    -> Labelled({"?TDS"}, {<<"n3">>})
    [] cmd[1] = "Cal"    -> Labelled(CalHeads, {<<l>> : l \in Levels[product]})
    [] cmd[1] = "Slope"  -> Labelled({"?Slope", "?SLOPE"}, {<<"n1", "n2", "n3">>})
    [] cmd[1] = "pHext"  -> Labelled({"?pHext"}, Bits)
    [] cmd[1] = "ORPext" -> Labelled({"?ORPext"}, Bits)
    [] cmd[1] = "Tcal"   -> Labelled({"?Tcal"}, Bits)
    [] cmd[1] = "P"      -> Labelled({"?P"}, {<<"n4">>}) \cup {Answer(<<"?", "P", "n4">>, <<"n4">>)}
    [] cmd[1] = "S" /\ product = "DO"  -> Labelled({"?S"}, {<<"n1", "uS">>, <<"n1", "ppt">>})
    [] cmd[1] = "S" /\ product = "RTD" -> Labelled({"?S"}, {<<scale>>})
    [] cmd[1] = "D"      -> Labelled({"?D"}, {<<"1">>})
    [] cmd = <<"M", "?">> -> Labelled({"?M"}, {<<"2">>})
    [] cmd = <<"M">>      -> {Answer(<<"1", "n1">>, <<"1", "n1", scale>>)}
    [] cmd = <<"M", "all">> ->
         {Answer(SubSeq(ValueOf, 1, n), SubSeq(ValueOf, 1, n) \o <<scale>>) : n \in 1 .. 3}

CodeOnDevice ==
  [PH |-> "pH", ORP |-> "ORP", EC |-> "EC", DO |-> "D.O.", RTD |-> "RTD", HUM |-> "HUM"]

ControlAnswers(product, cmd) ==
  CASE cmd[1] = "i"      -> {Answer(<<h, CodeOnDevice[product], "n1">>, <<product, "n1">>) :
                               h \in {"?I", "?i"}}
    [] cmd[1] = "Name"   -> Labelled({"?Name", "?NAME"}, {<<"TANK">>, <<"">>})
    [] cmd[1] = "Status" -> Labelled({"?Status", "?STATUS"}, {<<"P", "n1">>})
    [] cmd[1] = "L"      -> Labelled({"?L"}, Bits)
    [] cmd[1] = "Plock"  -> Labelled({"?Plock", "?PLOCK"}, Bits)
    [] cmd[1] = "Baud"   -> Labelled({"?Baud", "?BAUD"}, {<<"3">>})
    [] cmd[1] = "*OK"    -> Labelled({"?*OK"}, {<<"1">>})

-----------------------------------------------------------------------------
ControlWords == {"i", "Name", "Status", "L", "Find", "Plock", "Baud", "*OK"}

ProductWords ==
  [PH  |-> {"r", "rt", "T", "Cal", "Slope", "pHext"},
   ORP |-> {"r", "Cal", "ORPext"},
   EC  |-> {"r", "rt", "O", "T", "K", "TDS", "Cal"},
   DO  |-> {"r", "rt", "O", "T", "S", "P", "Cal"},
   RTD |-> {"r", "S", "Cal", "D", "M"},
   HUM |-> {"r", "O", "Tcal"}]

Asks(cmd) ==
  \/ cmd[1] \in {"r", "rt", "i", "Status"}
  \/ cmd \in {<<"M">>, <<"M", "all">>}
  \/ cmd[Len(cmd)] = "?"

Answers(product, cmd, mask, scale) ==
  IF cmd[1] \in ControlWords THEN ControlAnswers(product, cmd)
  ELSE ProductAnswers(product, cmd, mask, scale)

(* The lines of the reply: the pH circuit acknowledges a compensated read  *)
(* first, and nobody acknowledges the response-code query.                 *)
ReplyLines(product, bus, cmd) ==
  IF cmd[1] \notin ControlWords \cup ProductWords[product] THEN <<"ERROR">>
  ELSE IF ~Asks(cmd) THEN <<"OK">>
  ELSE IF bus = "i2c" \/ cmd[1] = "*OK" THEN <<"DATA">>
  ELSE IF cmd[1] = "rt" /\ product = "PH" THEN <<"OK", "DATA">>
  ELSE <<"DATA", "OK">>

(* Milliseconds until the reply, from the product pages. *)
ProcessingTime(product, bus, cmd) ==
  CASE cmd[1] = "rt" -> 900
    [] cmd[1] = "r"  ->
         [PH |-> 900, ORP |-> 1000, EC |-> 600, DO |-> 600,
          RTD |-> IF bus = "uart" THEN 1000 ELSE 600,
          HUM |-> IF bus = "uart" THEN 1000 ELSE 300][product]
    [] cmd[1] = "Cal" /\ cmd[Len(cmd)] \notin {"?", "clear"} ->
         [PH |-> 900, ORP |-> 900, EC |-> 600, DO |-> 1300, RTD |-> 600, HUM |-> 300][product]
    [] OTHER -> 300
=============================================================================
