------------------------------ MODULE EzoText ------------------------------
(***************************************************************************)
(* The parsers shared by the product modules.  A response text is the      *)
(* sequence of its comma-separated fields, trimmed; a field is a word.     *)
(* A parser yields a result code and, with OK, the words it took out.      *)
(***************************************************************************)
EXTENDS Naturals, Sequences, FiniteSets, SequencesExt

Uints == {"0", "1", "2", "3"}

Decimals == Uints \cup {"n1", "n2", "n3", "n4"}

Parsed(v) == [result |-> "OK", value |-> v]

Refused(r) == [result |-> r, value |-> <<>>]

AllIn(words, S) == \A i \in DOMAIN words : words[i] \in S

-----------------------------------------------------------------------------
(***************************************************************************)
(* src/ezo_parse.c                                                         *)
(***************************************************************************)
ParseCsv(text, cap) ==
  IF text = <<>> THEN Refused("PARSE")
  ELSE IF Len(text) > cap THEN Refused("TOO_SMALL")
  ELSE Parsed(text)

(* The first word of a query response starts with a question mark. *)
QueryHeads ==
  {"?", "?T", "?K", "?TDS", "?O", "?S", "?P", "?D", "?M", "?Cal", "?CAL", "?Slope", "?SLOPE",
   "?pHext", "?PHEXT", "?ORPext", "?Tcal", "?I", "?i", "?Name", "?NAME", "?Status", "?STATUS",
   "?L", "?Plock", "?PLOCK", "?Baud", "?BAUD", "?*OK"}

(* Yields the head followed by the fields. *)
ParseQuery(text, cap) ==
  IF text = <<>> \/ text[1] \notin QueryHeads THEN Refused("PARSE")
  ELSE IF Len(text) - 1 > cap THEN Refused("TOO_SMALL")
  ELSE Parsed(text)

(* Mutant: whatever it answers, the fields are taken. *)
ParseAnyPrefix(text, heads, cap) ==
  LET q == ParseQuery(text, cap) IN
  IF q.result # "OK" THEN q ELSE Parsed(Tail(text))

(* Yields the fields of a response whose head is one of the spellings. *)
ParsePrefixed(text, heads, cap) ==
  LET q == ParseQuery(text, cap) IN
  IF q.result # "OK" THEN q
  ELSE IF text[1] \notin heads THEN Refused("PARSE")
  ELSE Parsed(Tail(text))

-----------------------------------------------------------------------------
(***************************************************************************)
(* The forms the product modules and the control plane parse.              *)
(***************************************************************************)
(* Exactly n fields, each a member of the set the code accepts there. *)
Exactly(text, heads, accepted) ==
  LET p == ParsePrefixed(text, heads, Len(accepted)) IN
  IF p.result # "OK" THEN p
  ELSE IF Len(p.value) = Len(accepted) /\ \A i \in DOMAIN accepted : p.value[i] \in accepted[i]
       THEN p ELSE Refused("PARSE")

OneNumber(text, head) == Exactly(text, {head}, <<Decimals>>)

Flag(text, heads) == Exactly(text, heads, <<{"0", "1"}>>)

CalHeads == {"?Cal", "?CAL"}

Level(text, accepted) == Exactly(text, CalHeads, <<accepted>>)

-----------------------------------------------------------------------------
(***************************************************************************)
(* src/ezo_schema.c.  A mask marks the outputs, in schema order.           *)
(***************************************************************************)
EZO_SCHEMA_MAX_FIELDS == 4

Scalar(text) ==
  IF Len(text) = 1 /\ text[1] \in Decimals THEN Parsed(text) ELSE Refused("PARSE")

EnabledUpTo(mask, i) == {j \in 1 .. i : mask[j] = "on"}

CountEnabled(mask) == Cardinality(EnabledUpTo(mask, Len(mask)))

(* Mutant: values are filed from the first output on, whichever are on. *)
MultiInOrder(text, mask) ==
  IF CountEnabled(mask) = 0 THEN Refused("INVALID")
  ELSE LET p == ParseCsv(text, EZO_SCHEMA_MAX_FIELDS) IN
       IF p.result # "OK" THEN p
       ELSE IF Len(text) # CountEnabled(mask) \/ ~AllIn(text, Decimals) THEN Refused("PARSE")
       ELSE Parsed([i \in DOMAIN mask |-> IF i <= Len(text) THEN text[i] ELSE "absent"])

(* The values of the enabled outputs, in order; the others are absent. *)
Multi(text, mask) ==
  IF CountEnabled(mask) = 0 THEN Refused("INVALID")
  ELSE LET p == ParseCsv(text, EZO_SCHEMA_MAX_FIELDS) IN
       IF p.result # "OK" THEN p
       ELSE IF Len(text) # CountEnabled(mask) \/ ~AllIn(text, Decimals) THEN Refused("PARSE")
       ELSE Parsed([i \in DOMAIN mask |->
                      IF mask[i] = "on" THEN text[Cardinality(EnabledUpTo(mask, i))] ELSE "absent"])

(* The fields of an answer to O,?, in either of its two shapes. *)
OutputFields(text) ==
  IF text[1] = "?O" THEN Parsed(Tail(text))
  ELSE IF text[1] = "?" /\ Len(text) > 1 /\ text[2] = "O" THEN Parsed(SubSeq(text, 3, Len(text)))
  ELSE Refused("PARSE")

(* Mutant: the fields are taken for the first outputs of the schema. *)
OutputConfigInOrder(text, outputs) ==
  LET q == ParseQuery(text, EZO_SCHEMA_MAX_FIELDS) IN
  IF q.result # "OK" THEN q
  ELSE LET f == OutputFields(text) IN
       IF f.result # "OK" THEN f ELSE Parsed([i \in DOMAIN f.value |-> "on"])

(* EC and HUM: each field is the name of an enabled output. *)
OutputConfig(text, outputs) ==
  LET q == ParseQuery(text, EZO_SCHEMA_MAX_FIELDS) IN
  IF q.result # "OK" THEN q
  ELSE LET f == OutputFields(text) IN
       IF f.result # "OK" THEN f
       ELSE IF ~AllIn(f.value, ToSet(outputs)) THEN Refused("PARSE")
       ELSE Parsed([i \in DOMAIN outputs |->
                      IF outputs[i] \in ToSet(f.value) THEN "on" ELSE "off"])
=============================================================================
