--------------------------- MODULE EzoTypedProps ---------------------------
(***************************************************************************)
(* What the typed operations promise the programs that use them.           *)
(***************************************************************************)
EXTENDS EzoTyped

Results == {"none", "OK", "PARSE", "TOO_SMALL", "INVALID", "PROTOCOL", "TRANSPORT"}

(* Types; a believed mask has a mark for each output of the product. *)
TypedTypeOK ==
  /\ careful \in Programs /\ product \in Used /\ bus \in Buses
  /\ outputs \in Masks(product) /\ scale \in Scales \cup {"none"}
  /\ asked = "none" \/ asked \in DOMAIN Operations(product, bus)
  /\ mask = Unknown \/ mask \in Masks(product)
  /\ unit \in Scales \cup {"unknown"}
  /\ got.result \in Results
  /\ phase \in {"idle", "wait", "read", "failed"}
  /\ late \in 0 .. MaxLate /\ sent \in 0 .. MaxCommands[careful]

(* Payloads without a head, which nothing but their form tells apart. *)
Bare == {"read", "read_with_temp_comp", "memory_next", "memory_all"}

(* A typed query that succeeds has taken an answer to the same question,   *)
(* however stale the line is: no parser accepts the answer to another      *)
(* query of its product, short of the readings, whose payloads say nothing *)
(* of what they are.  (The answer may be that of an earlier, equal query.) *)
OwnAnswer ==
  (got.result = "OK" /\ got.line # NoLine) =>
    \/ got.line.to \in Operations(product, bus)[got.op].cmds
    \/ got.op \in Bare /\ \E o \in Bare \cap DOMAIN Operations(product, bus) :
                             got.line.to \in Operations(product, bus)[o].cmds

(* In a careful program a typed result is what the circuit meant: each     *)
(* value belongs to the output, and each temperature to the scale, that    *)
(* the circuit had when it answered, although it is filed under the mask   *)
(* or scale the program passed in.                                         *)
MeansWhatItSays ==
  (careful /\ got.result = "OK") => got.value = got.line.means

(* Unless a reply is late, each exchange leaves the line as it found it,   *)
(* whether its payload could be parsed or not: a reading under a stale     *)
(* mask is refused, but the next query gets its own answer.                *)
QuietStaysInStep ==
  (late = 0 /\ phase \in {"idle", "failed"}) => arrived = <<>> /\ coming = <<>>

(* What may be refused although nothing went wrong: a reading when every   *)
(* output is off, and more memory than there is room for.                  *)
MayBeRefused ==
  \/ got.op \in {"read", "read_with_temp_comp"} /\ outputs # <<>> /\ "on" \notin ToSet(outputs)
  \/ got.op = "memory_all" /\ Len(got.line.text) > MemoryCapacity

(* The vendor's form of the output configuration with all EC outputs on. *)
FourInVendorForm == got.op = "output_query" /\ Len(got.line.text) - 1 > EZO_SCHEMA_MAX_FIELDS

(* Unless a reply is late, every operation of a careful program succeeds:  *)
(* its hint is long enough, its read helper takes the lines the circuit    *)
(* sends, its parser knows their heads and shapes.                         *)
QuietSucceeds ==
  (careful /\ late = 0 /\ got.result \notin {"none", "OK"}) => MayBeRefused \/ FourInVendorForm

(* docs/ezo/products/ec.md:53: the EC parser accepts the vendor-shaped     *)
(* answer to O,? directly, whichever outputs it lists.                     *)
OutputsQueryable ==
  (late = 0 /\ got.op = "output_query") => got.result = "OK"
=============================================================================
