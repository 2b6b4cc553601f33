# ezo-driver in TLA+

TLA+ models of the ezo-driver library: a C99 driver for Atlas Scientific EZO
circuits over UART and I2C, and the example programs written on it. TLC checks
the models on small instances; TLAPS proves the invariants of the UART core and
its session, the I2C core, the serial adapter, the device facade, the typed
operations and the example programs for every value of their constants.
Source paths below are relative to the repository.

## The system

The library is synchronous and allocates nothing. Its state is small: a device
object per circuit, the operating system's descriptors and terminals, and, what
makes it hard, the bytes that are on their way between a circuit and the host.
Nothing in a reply names the command it answers.

| Component | State | Operations | What makes it correct |
|---|---|---|---|
| UART core, `src/ezo_uart.c` | `last_response_kind`; during a read `used`, `overflowed` and the buffer | send a command (text, then carriage return), read a line, read a terminal line, read `*OK`, discard input | a line handed out is one line of the circuit, or what an interrupted read left of it, up to its carriage return; its text alone makes it a token; a line too long is drained |
| POSIX serial adapter, `platform/linux/ezo_uart_posix_serial.c` | descriptor, saved termios, read timeout | open, close, write (short writes, `EINTR`), read with a timeout, flush | writes send the buffer or a prefix of it; reads return; settings are put back |
| Linux facade, `platform/linux/ezo_linux_device.c` | device objects that own a descriptor | open, reopen, close, for UART and I2C | no descriptor leaks or is closed twice; a failed reopen keeps the session |
| I2C core, `src/ezo_i2c.c` | address, `last_device_status` | set the address, send, read text, read raw | text is whole or refused; the cached status belongs to the latest command |
| Linux I2C transport, `platform/linux/ezo_i2c_linux_i2c.c` | descriptor, the address selected on it | select, write, read | a transfer reaches the circuit meant |
| Product modules, `src/ezo_{ph,orp,rtd,ec,do,hum}.c`, and control plane, `src/ezo_control.c` | none of their own; their callers keep the output mask and the scale | a send and a read helper per operation and transport: payload line then `*OK`, on I2C a text with status success | the value returned answers this query and means what the circuit meant; the line is left in step |
| Response-code bootstrap, `examples/linux/common/example_uart.c` | none of its own | discard, query, enable if off | afterwards typed reads are acknowledged, and nothing stale is left to trip over |
| Arduino adapters, `src/ezo_i2c_arduino_wire.cpp`, `src/ezo_uart_arduino_stream.cpp` | Wire's and the stream's buffers | write, then request and read; read what is there | a frame that does not fit Wire's buffer is cut nowhere else |
| Calibration transfer, `src/ezo_calibration_transfer.c` | none; the loop is the caller's | ask for the chunks one by one, import one, read its result | an export is printed whole and in order |
| Example programs, `examples/linux` | what they have read of each circuit | look, then with `--apply` send settings and look again; compensation chains, calibrations, workflows, switch of transport, calibration transfer | they report what is so, apply what was measured, succeed only when their commands did |
| Text, schema and numbers, `src/ezo_parse.c`, `src/ezo_schema.c`, `src/ezo_common.c` | sequence counters | split fields, match a label, file values under a mask, decimal numbers | no answer passes for another; values belong to their outputs |
| Product metadata, `src/ezo_product.c`, timing, `src/ezo.c` | constant tables | look up hints and names | hints cover what the circuit takes |
| C++ wrapper, Python binding | little | forwarding | see *Not modelled* |

How they interact: a product module formats a command and calls the UART or
I2C core, which calls a transport through a table of function pointers. Calls
are synchronous; the caller sleeps for a timing hint between a send and its
read. Every reply crosses a queue nobody controls: the circuit's own, the wire,
and the host's input buffer, which `ezo_uart_discard_input` empties of what has
arrived, not of what is still coming.

The hard behaviours: a read that times out in the middle of a line, the rest of
which may look like a token; replies
later than their hint; a command whose carriage return could not be written; a
program killed between a command and its reply; a circuit that restarts or
talks unasked; a device reopened while another thread opens and closes; system
calls that fail one by one; two devices on one I2C bus; a program of a dozen
exchanges of which any may be refused, lost or late. `PROJECT.json` lists
the hazards at their lines with the properties that cover them.

## Modules

| Module | Models |
|---|---|
| `EzoLine` | the abstract promise of the UART core: lines are consumed in order, delivered, rejected or torn |
| `EzoUart` | `src/ezo_uart.c` byte by byte, and the typed read built on it |
| `EzoUartProps` | its properties, and the refinement mapping to `EzoLine` |
| `EzoUartProofs`, `EzoUartSessionProofs`, `EzoI2cProofs`, `EzoPosixSerialProofs`, `EzoLinuxDeviceProofs`, `EzoTypedProofs`, `EzoProgramProofs`, `EzoProgramOutcomeProofs` | theorems about the component named |
| `EzoUartSession`, `EzoUartSessionProps` | bootstrap and typed queries of a program and its restarts, on top of `EzoLine` |
| `EzoPosixSerial`, `EzoPosixSerialProps` | the adapter's write, read and discard, one system call per step |
| `EzoLinuxDevice`, `EzoLinuxDeviceProps` | open, reopen and close of the facade and the adapter |
| `EzoI2c`, `EzoI2cProps` | the I2C core over the Linux and the Arduino Wire transport, and the circuits on the bus |
| `EzoText` | the parsers of `src/ezo_parse.c` and `src/ezo_schema.c`, and the forms of answer built on them |
| `EzoProducts` | the six product modules, the control plane and the timing registry as tables of operations |
| `EzoCircuit` | what circuits answer, in which lines, and how long they take (external) |
| `EzoTyped`, `EzoTypedProps` | programs that use the typed operations on one circuit |
| `EzoScript` | the calls an example program is made of |
| `EzoExamplesUart`, `EzoExamplesI2c` | the programs of `examples/linux/uart` and `examples/linux/i2c` as scripts, with their options |
| `EzoProgram`, `EzoProgramProps` | a run of such a program with its circuits: exchanges, failures, the export loop |
| `MC*` | the instances TLC checks |

**EzoUart.** A byte is a position in a line, so a buffer knows which part of
which line it holds. `lastKind` is `last_response_kind`, `buf` and `over` are
`used` characters of the buffer and `overflowed`, `op`, `step` and `cap` say
which call is running, `rx` is the host's input queue and `air` what has not
arrived. One iteration of the loop in `ezo_uart_read_line` is one action, chosen
by the next byte: `StoreByte`, `DropByte`, `EndOfNothing`, `EndOfLongLine`,
`EndOfLine`, or `TimeOut` and `ReadFault` without one. `Accept` says what each
caller makes of the kind of a line; a typed read goes on from `EndOfLine`
through `BeginReadOk` to the line of its `*OK`. `Classify` compares what the code
compares, the characters: a text that is the end of a data line is the token it
spells. Of a data line that matters only in which token it ends (`ending`, one of
`Endings`): `?NAME,A*OK` ends in `*OK`, since a name may have a `*` in it.

**EzoLine and the composition.** `EzoLine` forgets the bytes. `ImplementsPromise`
checks that every step of `EzoUart` is a step of `EzoLine` under the mapping in
`EzoUartProps`, `KeepsPromise` proves it for all sizes, and `EzoUartSession` builds
on `EzoLine` alone: what the session relies on is what the byte-level reader
delivers. The pending lines are those from the first pending byte's to the last
one emitted; the head is torn when the first byte the read in progress has got of
it, or the next one pending, is not its first. A torn line is seen as data or as the
token it ends in (`Seen`): more the promise cannot say, since how much is left of the
line is what it forgets. The lines of `EzoUartSession` end in no token: its programs
ask for response codes and readings, and neither answer has a `*` in it.

**EzoUartSession.** The circuit keeps its unterminated input, the frames it has
still to answer and whether it sends `*OK`; the program keeps its command and
how far it got. Commands carry a stamp only so that the properties can tell
whose reply is whose. Any failed call ends the program and the next run begins
with a bootstrap.

**EzoLinuxDevice.** One action is one system call. `file` is the process's
descriptor table, with the lowest free number given out first, `line` the
settings of each serial line, `session` what a device object holds, `next` the
`next_serial` or `next_context` of the call in progress.

**EzoPosixSerial.** `wire` holds the bytes sent by their place in their write;
`CastToInt` is the cast of the timeout, over an int of `IntBits` bits.

**EzoI2c.** `slave` is the address selected on a device's descriptor, `circuit`
what each circuit is doing. The length of a frame, of its payload and of the
buffer are modelled as the code computes them; a reply's text is its length.
`transport` is `"linux"`, where every device has a descriptor and a thread and a
transfer takes two system calls, or `"wire"`, where one thread shares one Wire:
it delivers at most `WireBuffer` bytes, `requestFrom` that gets nothing is a
frame without a status to the core (`EZO_ERR_PROTOCOL`), and a command for which
it has no room is sent as far as it fits although the call fails
(`WriteFails`).

**EzoText, EzoProducts, EzoCircuit and EzoTyped.** A text is the sequence of its
fields, a field a word. For each operation, `EzoProducts` has the commands the
send helper may write, the kind that selects the timing hint, the kinds of line
the read helper takes, and the parser it hands the payload to; names are those
of the source without product and transport (`ezo_ec_send_output_set_uart` is
`output_set` in `EcUart`). `EzoCircuit` pairs every answer with what the circuit
means by it, so that properties can compare that with what a parser made of it.
In `EzoTyped`, `Send` is a send helper, `Wait` the caller's sleep, during which
lines arrive or do not, and `Read` a read helper: it takes lines while their
kinds match, a wrong one included, and parses a complete exchange only. `mask`
and `unit` are what the program passes in. `careful` programs follow the
examples: stop at a failure, start again after a bootstrap, and query again what
they changed. The compensated temperature reading is taken as a command of its
own; it does not change the stored temperature.

**EzoScript, EzoExamples\* and EzoProgram.** An example program is a fixed
sequence of calls, each made if all before it succeeded; with its options it is
a script, and `todo` in `EzoProgram` is what is left of it. A step asks, tells,
waits for `*OK`, computes or decides; `when` is the condition on which it is made,
`failing` says whether its failure ends the program (`readiness_check` and
`inspect_device` go on and report the first error at the end: `GoingOn`,
`RaiseFirstError`). `EzoExamplesI2c` derives a program from its UART twin by
`OverI2c`, which keeps the steps I2C has no use for and never makes them, except
where the two differ. `Examples` are the programs with the products they are
written for (`MadeFor`). `config` holds the
settings of each circuit, from which it answers; `line` what a circuit has sent
and the program has not read; `known` what the program has read. One exchange is
one action here, since `EzoTyped` and `EzoUart` take exchanges apart; an exchange
may go wrong in that a query is refused or not answered in time, or a command is
refused, lost, not acknowledged, or fails to be sent although it may have
arrived. No document says whether a circuit still acknowledges the command that
turns response codes off, nor how it ends the answers of an export: all
possibilities are taken (`Acknowledged`, `Endings`). The I2C programs never read
the status of a setting, so that success there does not mean that it was
applied, only that what they read afterwards is so; `SuccessMeansApplied` is
about UART alone.

## Runs

| Run | Shows | Bounds |
|---|---|---|
| `uart_lines` | line integrity, framing, boundaries, acknowledgement and exhaustion of the byte-level reader; it implements `EzoLine`; every call returns | three lines of three kinds; a token shorter than a data line, which may end in it; buffers too small, large enough and refused |
| `uart_one_byte` | *violation*: a one-byte buffer | one line |
| `session` | a typed query gets its own reply across late replies, failures and restarts, and queries are answered for good once faults cease | two late reads, one fault, one unsolicited line |
| `i2c_bus` | text is whole, the status current and the reply the device's own, over both transports: failures, absent circuits, restarts, addresses changed between calls, buffers of every size around the limits | two commands, two faults; a Wire buffer of three bytes; see below |
| `i2c_raw` | *violation*: raw reads over the Linux transport | one command |
| `linux_devices` | descriptors and terminal settings under interleaved opens and closes | two UART devices on three lines, one I2C device, four descriptors |
| `linux_reopen` | *violation*: reopening on the same path | one line, two baud rates |
| `posix_serial` | writes and bounded reads | two writes of up to three bytes, two bytes of input, two signals |
| `typed` | values mean what the circuit meant, the line stays in step, nothing fails without a cause, and a labelled query gets the answer to that query whatever went wrong before | six products on both transports in every configuration; five commands of a careful program, three of another; one late reply; memory for two values, which one response has room for |
| `typed_outputs` | *violation*: the vendor's answer with four EC outputs | EC alone, one command |
| `examples` | every Linux example program, on both transports: what it reports is so, success means that its commands were obeyed and nothing is left on the line, undisturbed it succeeds, a compensation applies what was measured, an export is whole, nothing is applied without `--apply`, a locked circuit is not switched | up to three options, one exchange that goes wrong; two preview samples, two recalls; memory for two values in a response, for three in the program; exports of two chunks; EC outputs in both forms of listing, up to all four |
| `examples_probe_k` | *violation*: `ec_calibration` with the probe K alone | that program, no fault |

Why the bounds are enough. A read in `EzoUart` involves at most the line it
tears and the line it then reads, a typed read one more: three lines let a torn
line, a stale one and an acknowledgement follow each other, and `EMPTY` and
`OK` lines stand for the kinds that behave alike. A data line has three characters
of which the last two may be the token, so that the rest of it is a token, data
shorter than one, or nothing. A byte that arrives later
than a read is a state in which `air` is not empty, so lateness needs no bound.
In the session, one fault and two late reads already leave up to three
abandoned commands behind a bootstrap; stamps are taken modulo `Stamps`, and
`SessionTypeOK` checks that fewer commands are outstanding than there are
stamps. Descriptors are scarcer than the devices could use, so that `open`
fails for want of one. With three texts shorter than, as long as and longer
than a buffer the I2C lengths cover every branch, and with a Wire buffer of
three bytes a frame is shorter than it, fills it or is cut. `SharedBusIsPlain`
keeps the run small: buffer sizes, absent circuits and faults are explored with
one device in use, and two devices in use share a bus with one buffer size and no
fault, which is where one could reach the other's circuit; on Arduino there is
one thread and the bus is told the address in the transfer itself, so that two
devices add nothing (the theorem `RepliesOwn` has no such bound). A typed program learns the configuration, changes it, learns it
again and reads: four commands; a fifth follows a failure. A stale one needs
three: learn, change, read, or a late reply, the query that trips over it, and
the next. A query whose answer is one word has one answer, since its parser
only asks whether the word is a number; flags, levels, scales, units and masks
take all their values. An example program meets one fault: a second one changes
nothing until the first has been overlooked, and what is overlooked is what the
properties are about. Each of its circuits is set up in every way that a program
distinguishes (outputs, scale, logger and memory, codes, protocol lock), with an
acknowledgement of an earlier program on the line or not. `MayOpen` assumes that two
devices do not share a serial line and that device objects start closed.

Fairness. `EzoUart`: weak fairness of the driver's own steps, because
`read_bytes` returns with a byte or by its timeout, which the adapter bounds;
no fault is fair. `EzoUartSession`: the circuit answers, the line delivers and
the program runs on; late replies, faults and chatter are not fair and
bounded, which is what "once faults cease" means. `EzoPosixSerial`: a system
call returns, `poll` only with input or after a timeout that is not negative.

## What disagrees with the documentation

1. `uart_one_byte`: with `buffer_len` 1 every character of a line is dropped
   and `used` is still 0 at the carriage return, a test that comes before that
   of `overflowed` (`src/ezo_uart.c:230`): the result is `EZO_ERR_PROTOCOL`,
   where rule 15 of `docs/api-contract.md` promises `EZO_ERR_BUFFER_TOO_SMALL`.
2. `i2c_raw`: `ezo_read_response_raw` requests `buffer_len + 2` bytes
   (`src/ezo_i2c.c:257`) and the Linux transport reports that many, so that
   every raw read is too long for its buffer, whatever the circuit says. The
   tests pass because their transport delivers short frames.
3. `linux_reopen`: `ezo_linux_uart_device_open` on the path already open
   configures the line, then closes the old session, which restores the
   settings from before the first open (`platform/linux/ezo_linux_device.c:184`).
   The device reports success on an unconfigured line.
4. `typed_outputs`: `ezo_ec_parse_output_config` has room for four fields after
   the prefix, and in `?,O,EC,TDS,S,SG` there are five
   (`src/ezo_ec.c:280`): the configuration with every output enabled cannot be
   read in the form `docs/ezo/products/ec.md` says is accepted. `QuietSucceeds`
   excepts it by name (`FourInVendorForm`), and so does `UndisturbedSucceeds` of the
   programs that ask for it (`LongListing`).
5. `examples_probe_k`: over UART, `ec_calibration status --probe-k ... --apply`
   sets K and reads its acknowledgement, and then waits for that of a
   calibration it never sent
   (`examples/linux/uart/advanced/ec_calibration.c:302`): it ends with an error
   although K is set. Its I2C twin has no such read. `UndisturbedSucceeds`
   excepts it by name (`OnlyProbeK`).

After a timeout or a discard in the middle of `?NAME,A*OK` what is left to read may be
`*OK`, which the circuit never sent; the reader compares the text it has got
(`src/ezo_uart.c:255`) and reports `EZO_UART_RESPONSE_OK`, where
`docs/api-contract.md` says that a line which is no exact token is data.
`LineIntegrity` says so (`Spells`), and the promise `EzoLine` passes it on (`Seen`).
By `BoundaryAfterLine` only the first line handed out after the interruption can be
such a rest, and by `TypedIsAcknowledged` it acknowledges no payload; a setting,
whose only line is its `*OK`, it would.

`ReadBounded` holds for timeouts up to `INT_MAX`, to which the runs keep: `open`
refuses only zero, and a larger `read_timeout_ms` is negative once cast for
`poll` (`platform/linux/ezo_uart_posix_serial.c:195`), which then waits for ever.

`OwnReply` and `BootstrapFences` hold under one condition, kept in the history
variable `alone`: while the answer to an earlier response-code query is still
to come, the bootstrap takes it for its own. The code cannot avoid it, since
both answers are the same text.

`OwnAnswer` excepts what carries no label: a reading and a memory recall are
bare numbers, so that a late one passes for another. The answer to an earlier,
equal query passes as well. `MeansWhatItSays` therefore speaks of careful
programs, whose bootstrap leaves nothing late behind.

Exceptions the example programs need, each named in `EzoProgramProps`:
`control_workflow` does not look again after sleep or factory reset, nor
`transport_switch` after the switch (`LooksAgain`); every UART program turns the
response codes on, with `--apply` or without (`InspectionChangesNothing`);
circuits with all outputs off cannot be read (`AllOff`); an EC circuit with all four
on, which lists them in the vendor's form, cannot be asked for them (`LongListing`);
`rtd_workflow` recalls up to 64 memory values in one response, whose text has room
for fewer, and fails if there are too many (`LongMemory`); `--set-response-codes=0`
waits for an acknowledgement that may not come (`TurnsCodesOff`). `control_workflow`
takes 0 or 1 for the protocol lock and the response codes, and both are modelled
(`SetLock`, `SetCodes`). An export that an earlier
program broke off goes on where it stood: over UART the program notices, because
a `*DONE` comes without a chunk, over I2C the text `*DONE` is printed as one
(`ExportIsWhole`). A circuit that sends `*DONE` after the acknowledged last chunk
leaves it to be read as the result of the import (`SuccessLeavesNothing`).
`byte_count` is never compared with what was received.

`TextIsWhole` excepts texts that fill Wire's buffer: they are cut there, and
handed out with `EZO_OK`.

## Proofs

`EzoUartProofs` proves, for all buffer sizes, line lengths and kinds that satisfy
`UartAssumption`, and for any number of lines:

- `TypeCorrect`: `Spec => []TypeOK`, with the room for the terminating NUL;
- `InputFramed`: `Spec => []Framing`;
- `LinesIntact`: `Spec => []LineIntegrity`;
- `BoundaryKept`: `Spec => []BoundaryAfterLine`;
- `TypedAcknowledged`: `Spec => []TypedIsAcknowledged`;
- `ExhaustionIsReported`: `LongEnough => (Spec => ExhaustionReported)`, where
  `LongEnough` says that no buffer has one byte: `uart_one_byte` refutes it for
  those.

None of `LineIntegrity`, `BoundaryAfterLine` and `TypedIsAcknowledged` is inductive: that a buffer is the tail of one line when
the read ends depends on what was still pending while it ran. The inductive
invariant `UartInv` therefore adds `Framing` to the types and the three
properties: what is pending (`rx \o air`) are lines in the order they were
emitted, complete but for the beginning of the first; during a read, the text so
far is a run of consecutive characters of one line and the next byte pending
continues it; and in a typed read the pending line, or the text so far, comes
from the line right after the payload's. Emitting appends a whole line at the
end; arriving moves a byte from `air` to `rx` and leaves the concatenation
alone; discarding drops a prefix of it, which keeps a suffix framed; each step
of the reader takes its first byte. The proof has one lemma per action, on top
of lemmas about `Chained`, `IsRun` and `IsTail`.

It also proves `KeepsPromise`: `Spec => ImplementsPromise`. Neighbouring
bytes that fit together (`Chained`) do not say without an induction over the
stream that line numbers grow along it, so `RefinementInv` adds that to `UartInv`
as a statement about all pairs of bytes (`Rows`): numbers grow, bytes with one
number are of one line from left to right, and none is missing. Each step keeps it
because lines are appended whole and bytes leave from the front (`RowsLine`,
`RowsSuffix`), and with it the list of pending lines grows and shrinks as the
promise says (`LinesLine`, `LinesSuffix`). `ReadsOn` adds that a text that has
begun, even one that has overflowed, goes on in the line of the next byte. Then:
the carriage return is `Deliver` or `Reject`; a timeout, a fault and the first
dropped byte of a line are `Break`; starting a read or sending is `Begin`;
discarding is `Drop`; storing a byte and its arrival are not seen.

`EzoUartSessionProofs`, for any number of stamps, late replies, faults and
unsolicited lines:

- `OwnReplies`: `Spec => []OwnReply`;
- `Fences`: `Spec => []BootstrapFences`;
- `CodesOn`: `Spec => []ReadyMeansCodes`.

With more stamps than a run has commands no stamp is used twice, so `OwnReplies`
needs no argument about stamps; the run reuses a few and checks that as well.
`SessionInv` says what may still come, in the circuit and on the line, at each
stage: once a probe is on its way alone, its answer is the last thing asked for
(`ProbeIsLast`), so that accepting it leaves nothing to come (`Clear`); after an
enable only its acknowledgement or its rejection (`EnableIsAll`); after a query
its reading and then its acknowledgement, or its rejection (`ReadingThenAck`), and
once the reading is read only the acknowledgement (`AckIsAll`). `*OK` cannot come
first, so the line before it is the query's own. To this it adds that `*OK` and
"codes on" are only on the line while the codes are on (`CodesAreOn`), that what
nobody asked for looks like neither (`Genuine`), and that no remains of a failed
write stand before the commands after the fence (`Stages`).

`EzoI2cProofs`, for any number of devices, addresses and circuits, all buffer
sizes and reply lengths, any number of faults:

- `I2cTypeCorrect`, `TextsWhole`, `StatusCurrent`, `StatusReported`: `I2cTypeOK`,
  `TextIsWhole`, `StatusIsCurrent` and `TextReportsStatus` hold always;
- `RepliesOwn`: `Spec => TypedReadIsOwn`.

`I2cInv` adds what is known during a call: a read has a buffer, a send a number,
and what is selected is the device's address until the transfer is made
(`CallValid`); and `WorkOwned`: whatever a circuit works or has worked on was
given to it by a device whose latest command to it that is. With it a reply that
reports success at an address no other device uses can only be the device's own.

`EzoPosixSerialProofs`, for all message lengths, timeouts and numbers of writes
and signals: `SerialTypeCorrect` and `WritesAreWhole`. `SerialInv` adds the write
in progress: the bytes on the wire end at `written`, or belong to earlier writes
while it is 0. `ReadBounded` is liveness and stays with TLC.

`EzoLinuxDeviceProofs`, for any number of devices, lines, paths and descriptors:

- `DeviceTypeCorrect`, `DescriptorsAreOwned`, `FailedOpensKeepSessions`;
- `LinesConfigured`, `LinesRestored`: `Spec => [](~SamePath => ...)`, since finding
  3 refutes them when a device is reopened on its own path; `SamePath` is the
  variable in which the model remembers that. Where devices and lines keep apart,
  the two hold.

`FilesInv` adds to the types where each call has got to (`Shape`), that every
open descriptor is held, once, and on the holder's path; `LineInv` adds that two
sessions are on different lines and what the line of a session is set to at
each step of an open.

`EzoTypedProofs` begins with the tables alone, with no state: every operation of
every product on both transports, with every mask and scale and every reading:

- `OperationsFit`: the read helper takes the lines the circuit sends, in number and
  order, and the timing hint is long enough for them;
- `QueriesUnderstood`: the parser takes every form of the circuit's answer for what
  the circuit meant, but for the three exceptions of `QuietSucceeds`;
- `ParsersTakeTheirOwn`: a text the parser takes begins as an answer to its own
  query does.

The parsers are followed field by field: what a text splits into (`Fields`), which
labels match, how values are filed under a mask.

The rest of the module carries them over to programs, for any number of commands, of late
replies, and any room for memory: `TypesHold`, `AnswersAreOwn`,
`ResultsMeanWhatTheySay`, `QuietLinesStayInStep` and `QuietOperationsSucceed`, that
is, every invariant `typed` checks. They are the conjuncts of one invariant or
follow from it,
`TypedInv == TypedTypeOK /\ Stages /\ Lines /\ InStep /\ Fresh /\ Kept`.
`Lines` says that whatever is on the line is a line of an answer to some command of
this product: with it a parser that takes a text, however stale, takes an answer to
its own question. `InStep` says that with no reply late the line holds the expected
reply and nothing else, and `Fresh` that a careful program knows the configuration as
it is or not at all, and reads the reply to its latest command, given by the circuit
as it still is. `Kept` is what the latest result promised, which the next command
must not undo.

`EzoProgramProofs` and `EzoProgramOutcomeProofs` are about every example program on both transports, with every set
of options, circuits with any settings and any number of faults:

- `ProgramTypesHold` (`ProgramTypeOK`): a circuit keeps the settings its product has.
- `InspectionHolds` (`InspectionChangesNothing`): without `--apply` no step changes a
  setting of a circuit but the response codes.
- `SuccessIsApplied` (`SuccessMeansApplied`): over a UART a program that succeeds has
  lost no command but those it does not wait for. Every command that may be lost is
  followed by the acknowledgement of it, and none is awaited twice.
- `SwitchesAreUnlocked` (`SwitchedUnlocked`): a circuit that is switched to another
  transport has its protocol lock off. A program that switches has asked for the lock
  and decided on it before it does, and does not set the lock in between.
- `CompensationIsMeasured` (`AppliedIsMeasured`): a compensation program sets a
  temperature to that of the water in degrees Celsius, whatever scale the RTD circuit
  reports it in, and a salinity to that of the water, if the EC circuit reports it.
- `ExportsAreWhole` (`ExportIsWhole`): a program that succeeds has printed every chunk
  of a circuit's calibration once and in order, however the circuit ends its answers.
- `SuccessLeavesClean` (`SuccessLeavesNothing`): over a UART a program that succeeds
  leaves no answer on a line, and no acknowledgement but those of the commands it
  does not wait for.
- `ReportsAreTrue` (`ReportIsTrue`): what a program that succeeds has read last of a
  circuit's settings is what the circuit is set to, whether or not its commands were
  obeyed, unless it was told to put the circuit to sleep, to reset it or to switch
  it over.

`ProgramAssumption` says of the constants what the programs take for granted: they
are run on a product they are written for, and a circuit has the settings of its
product and is awake; a reading, a record of the memory, a converted temperature and
a command are not settings, only a pH circuit has a slope, an RTD circuit has one of
three scales and an EC circuit a set of
outputs and a form in which it lists them, a response has room for at least one
memory value, and a circuit whose calibration is transferred has a number of chunks.

A script is a sequence of some twenty to fifty steps. What the proofs need of it is
said in two forms: that all its steps are of a kind (`Seq(Inspecting)`, `Seq(Calm)`),
and that one kind of step comes only after another (`After`, `Never`, `Acked`). Both
are put together from the parts of a script (`Joint`, `AfterJoint`, `AckedJoint`) as
the script is, and both survive a step, which takes the first one away or, in an
export, puts one in front (`StepKeeps`, `AfterTail`, `AfterMove`).

`InspectionHolds` follows from `Untouched`: without `--apply` every step left
inspects, or turns the response codes on. `SuccessIsApplied` needs `Steady`. A
refusal is found out only because the next line read is the one refused, so the line
must be in step whenever a command is sent: it is empty, or a discard comes before
anything that needs it empty, or its one line is the acknowledgement awaited next
(`InStep`). `Flows` says that a script is such that this goes on: it stops at a
failure, an acknowledgement is awaited right after the command, and nothing that
leaves lines unread comes before anything that needs the line empty. `FoundOut` is
then the point: no command was missed, or the program ended with an error, or the
step it is at cannot succeed. `SwitchesAreUnlocked` divides the programs. All but one
never switch a circuit over (`Calm`); in `transport_switch` the lock is asked for
before it is decided by, and decided by before the switch (`Guarding`), no step sets
it in between, and because the line is in step what the program takes for the lock
is the circuit's answer to that question. `CompensationIsMeasured` needs `Measured`: of
the scale, the reading and the temperature in degrees Celsius each is known, and
right (`WarmFacts`), or is still asked for, or converted, before what is made from
it; and the same of the outputs, the reading and the decision on the salinity
(`SaltyFacts`). A reading is filed under the scale the program knows, so that a scale
learnt too late would go unnoticed; that it is not is `SetsTemperature`, three orders
between the steps of a script, and that no step changes the scale is `Measuring`.

`EzoProgramOutcomeProofs` is about what is there when a program ends well.
`ExportsAreWhole` follows a calibration transfer from phase to phase
(`Transferring`): before the number of chunks is asked for nothing is exported;
then, between two answers, the chunks asked for are those printed, and the line is
empty, or has the *DONE of a circuit that the program no longer listens to; within an
answer the next line is the chunk asked for last, or no chunk at all, and then the
program fails; after the export what is printed is the whole of it. A step of each
phase ends in that phase or in the next one, and that is one lemma each. It needs
`InStep` no less than the rest: an export that found a line of an earlier command
would take it for its first answer. `SuccessLeavesClean` needs `Cleanly` of the other
programs: each line is still to be discarded, or holds nothing but what a circuit
sends on a command that nobody waits for, or the program is about to read its one
line. Of the scripts it needs that every step stops at a failure (`Plain`) and that
every circuit's line is discarded once (`Tidy`). For the calibration transfer it
follows from the last of its phases.

`ReportsAreTrue` needs `Truthful`. Of what is left of a script, every change of a
setting is followed by a question about it that must be answered, or the setting is
neither known nor asked for (`Reviewed`); and what is known of a setting is what it
is, or is about to be asked for (`Current`). A command that changes a setting takes
it from the first of these to the second, lost or not, and the answer back, because
the line is in step and the answer is the circuit's own. The response codes are the
exception: the bootstrap knows them to be on from the acknowledgement, which is right
only if the circuit obeyed (`RightlyAcked`), and that takes an empty line before the
command and the acknowledgement right after it (`Paired`). That every script asks
again after what it changes is `Reviews`, one lemma for each part of a script, over
both transports; over I2C a script must not change what only a UART can be asked for
(`Kept`). The part that imports a calibration never asks for it (`Conveys`), which is
why a program may neither know nor ask.

Assumptions are those on the constants alone, named in the components' modules
(`UartAssumption`, `I2cAssumption` and so on).

Only model-checked: liveness of the UART core (`CallReturns`), the recovery of the
session (`Recovers`) and `ReadBounded`, since liveness is outside what the provers
support; and of the example
programs `UndisturbedSucceeds`, which needs to know of every line what it holds at
each step, and of every answer whether what the program knows lets it be parsed.
`SessionTypeOK` counts outstanding commands against `Stamps`, which the bounds of
its run limit and nothing else does.

## Not modelled, and why

- Argument checks against `NULL`, formatting, printing and `last_errno`: no
  state, or state nothing reads.
- Support tiers, capability tables and result names: constants.
- Decimal parsing and formatting (`src/ezo_common.c`): 64-bit integers and
  doubles, which TLC does not have and whose scaled-down twins would say nothing
  about rounding. A number is one of a few words.
- `ezo_uart_sequence_push_line`: a counter nothing but its tests calls.
- The Arduino stream transport: its read never waits, so that what it hands out
  is a byte or nothing, both outcomes `EzoUart` takes; whether a sketch waits
  long enough is the sketch's affair. The sketches themselves;
  `calibration_transfer.ino`, unlike the Linux programs, insists on `*OK` after
  every chunk.
- The I2C address change of the control plane: the circuit moves and the device
  object is left where it was; a program has to open it again.
- The C++ wrapper and the Python binding forward to the C functions and add the
  lifetime of a handle, which their languages decide.
- The minimal, raw and multi-device example programs: one or two of the
  exchanges the others are made of.

What could come next: that property of the example programs, and
the address change of the control plane together with
the device object it leaves behind.
