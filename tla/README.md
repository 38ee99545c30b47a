# A verification project for sub-navi

sub-navi is the on-board program of an underwater vehicle: a single-threaded
Linux process around a libev loop that reads its configuration (a CSV table
and a JSON file), serves HTTP/JSON-RPC to the pilot's station, and is meant to
read an attitude sensor, run a control law and drive a motor board over a
serial line.  Some of these parts are wired together and run today; others exist
as libraries and handlers that `main.c` does not call yet.

This directory holds TLA+ modules that model both, the TLC configurations that
check them on small instances, and TLAPS proofs, for every value of the constants,
about the connection server, the CSV loader, the method table, the starts and the
thruster file, the sensor's driver, the control law, and the commands and answers of
the motor board down to the bytes of nanopb.

    tlc -workers 2 -config conn_live.cfg MCJrpcConnection.tla
    tlapm JrpcConnectionProofs.tla

Paths below are relative to `src/`.

## 1. The system

| part | code | state it keeps | operations |
|---|---|---|---|
| connection server | `3rd/jsonrpc-c/jsonrpc-c.c` | a listening socket; per connection a heap buffer, its size, a fill count `pos` | `jrpc_server_init`, `accept_cb`, `connection_cb`, `send_response`, `close_connection` |
| method table, dispatcher | `3rd/jsonrpc-c/mjsonrpc.c` | `cb_array`, `cb_count` | `mjrpc_add_method`, `mjrpc_del_method`, `mjrpc_process_cjson` |
| registration | `user/jrpc_server.c` | one server | `navi_jrpc_server_start`, `navi_jrpc_server_stop` (uncalled) |
| JSON trees and texts | `3rd/cJSON` | linked items on the heap | create, add, insert, replace, detach, delete, copy, compare, parse, print |
| struct2json | `3rd/struct2json` | none | macros that fill a struct from a tree and back |
| CSV push parser | `3rd/csv_parser/csv_parser.c` | `state`, `row`, `col` | `csv_parser_init`, `csv_parser_execute` |
| frame factor table | `user/csv-json-config-sys/csv_frame_factor.c` | a read buffer, the table | `frame_factor_get_from_file`, `field_cb` |
| thruster file | `user/csv-json-config-sys/json_thruster.c`, `file_rw.c` | a file | check, read, write, default |
| start and loop | `user/main.c` | locals of `init` | `init`, `sigint_cb` |
| control | `user/control/control.c`, `control_jrpc_func.c`, `3rd/PID/pid.c` | set points in statics, PID memory | `input2dir_get`, `dir2output_get`, `output2send_get`, `axis_handler` |
| attitude sensor | `3rd/wit_c_sdk`, `user/peripheral/wt_jy901.c` | frame buffer, register array and index, callbacks, the words shown | `WitInit`, `WitSerialDataIn`, `WitCanDataIn`, `WitReadReg`, `WitWriteReg`, `WitSet...`, `WitStart...` |
| motor board messages | `user/protobuf-commu`, `3rd/nanopb` | none | `msg2byte`, `byte2msg`, `pb_encode`, `pb_decode` |
| command line | `user/arg_parse.c` | none | `navi_parse_arguments` |

**How they interact.**  Everything happens in one thread.  `main` parses the
command line; with a command it sends one message over the serial line and
ends.  Without one it calls `init`, which reads the table and the thruster file
and then starts the server; from then on libev calls `accept_cb` for the
listening socket, `connection_cb` for a readable connection and `sigint_cb` for
SIGINT.  `connection_cb` reads once, finds the body, parses it, hands the value to
the dispatcher, which calls the registered function, and writes the reply with a
*blocking* `write` before it returns.  So handlers are atomic with respect to each
other except for one thing: a write to a client whose socket is full holds up
the loop, while the clients go on.  The only registered function is
`axis_handler`, which is to set the sticks of the control law; the cycle that
would run the law, and the loop that would feed the sensor's driver, are not
written yet (`user/control/ctrl_routine.c` is empty).

**What is hard about it.**

* TCP cuts the stream anywhere.  `connection_cb` works out from where the JSON
  parser stopped whether a request is complete, incomplete or wrong, keeps what
  follows a request by moving it, and recounts what it keeps.
* Several connections, clients that half-close, close, reset, or do not read.
* `read` cuts the CSV file anywhere; the parser's place in a field, a row and a
  line end has to survive every cut, and so does the number under way.
* The table's count and its array are changed at different points of functions
  that may fail in between.
* A file that is emptied, written and closed in three steps, while the power
  may go between any two, and whose mere existence is taken to mean that the
  user has seen it.
* A serial line that loses and changes bytes under a driver that has to find
  frames again, and answers that do not say which register they answer.
* A tree in which every list's first item points to its last, through every
  edit, copy and parse that may run out of memory half way.
* Four controllers made of one text four times over, with set points that live
  from one cycle to the next; dead zones, limits and reversed thrusters.

**What makes each part correct.**

| part | properties |
|---|---|
| connection server | requests are dispatched in order, none twice, none skipped, each answered at most once and with its own result, whatever the pieces; no byte is lost; `read` is never asked for 0 bytes; every connection whose client is done is closed; every complete request is settled |
| method table | after any operations it holds exactly the live registrations; an argument is freed once, with its registration; a batch is answered request by request |
| CSV parser and table | each character is reported once and at its row and column; only cells of the table are written; a number is the one in the file; loading ends |
| start, thruster file | a user's file is never overwritten; a start that had to write the file does not serve; restarts come to an end; a start runs with what the file stands for |
| JSON | no item is lost, shared or freed twice; an operation does to the values what it promises and to the others nothing; text is read back as what was printed; equal is equal |
| sensor | no intact frame is missed, an answer is filed under the register asked for, what is shown follows the registers |
| control | each axis holds its own last measurement, within its limits, independent of the others; a thruster turns as the frame asks and never beyond its limits |
| motor link | a command that reports success arrived as given; what is read from an answer stands in it; a message comes back as it went in |

`PROJECT.json` lists every component, the hazards with their lines, and maps
each definition to the lines it models.

## 2. The modules

| module | models | checked by |
|---|---|---|
| `JrpcConnection` | the connection server with its clients and sockets | `MCJrpcConnection`: `conn_*.cfg` |
| `RpcChannel` | what the server promises: no bytes, buffers or callbacks | refined in `conn_pipelined.cfg` |
| `JrpcConnectionProofs` | theorems about `JrpcConnection`: buffers, order of service, replies, and that it implements `RpcChannel` | TLAPS |
| `MjsonRpc` | method table and dispatcher | `MCMjsonRpc`: `rpc_table.cfg` |
| `MjsonRpcProofs` | theorems about `MjsonRpc` | TLAPS |
| `CsvFrameFactor` | CSV parser, read loop, `field_cb` | `MCCsvFrameFactor`: `csv_load.cfg` |
| `CsvFrameFactorProofs` | theorems about `CsvFrameFactor` | TLAPS |
| `CjsonTree`, `CjsonText` | the items of cJSON; its parser and its printer | through the next two |
| `JsonDoc` | a program that edits documents | `MCJsonDoc`: `json_doc.cfg` |
| `ThrusterConfig` | thruster parameters as struct, tree and text; uses `CjsonText` | through `MCStartup` |
| `Startup` | `init`, the two files, crashes and restarts; the conversions of the file are constant operators | `MCStartup`, with those of `ThrusterConfig`: `start_restarts.cfg` |
| `StartupProofs` | theorems about `Startup` | TLAPS |
| `WitSdk` | the sensor's driver, its callbacks, the sensor and the line | `MCWitSdk`: `wit_stream.cfg` |
| `WitSdkProofs` | theorems about `WitSdk` | TLAPS |
| `PbWire` | the protobuf library: streams, varints, tags, values of single fields | through `NanoPb` |
| `NanoPb` | the protobuf library: messages by their field tables, one level of nesting; uses `PbWire` | through `MotorLink` |
| `MotorLink` | commands and answers of the motor board; uses two instances of `NanoPb` | `MCMotorLink`: `motor_link.cfg` |
| `MotorLinkProofs` | theorems about `MotorLink`, `NanoPb` and `PbWire` | TLAPS |
| `HoldAxis` | what holding one axis means, for any controller | refined four times in `control_loop.cfg` |
| `ControlLoop` | control cycle, PID, `axis_handler` | `MCControlLoop`: `control_loop.cfg`, `axis_crash.cfg` |
| `ControlLoopProofs` | theorems about `ControlLoop`, and that each axis implements `HoldAxis` | TLAPS |
| `Induction` | lemmas the proofs share: induction over an interval, what a recursive function on it does, lists of one item | TLAPS |

Three modules are compositions: `MCStartup` runs `main.c` (`Startup`) over `ThrusterConfig` over
the JSON text over the JSON tree; `MotorLink` runs `arg_parse.c` over the union messages over
`NanoPb` over `PbWire`; `ControlLoop` runs the method, the law and four controllers.

Each module also holds, next to the definition it differs from, a few variants
of it that are *wrong* (`ReadEndsIgnored`, `OutOfTableLate`, `IsMatchNewest`, ...).
No specification uses them.  They are the plausible bugs that show that a
property can fail: put in the place of the right definition (`mutants` in
`PROJECT.json`), each makes TLC report its property.

### JrpcConnection

*Bytes.*  A byte is the number of its message and its offset there.  `Shape`
gives every byte one of six classes, which are all that `strnstr` and
`cJSON_ParseWithOpts` tell apart: header, end of header, three kinds of body
byte that differ in what the parser does when its input ends right after them
(it stops at the end of the input; it falls back to the start of the token; it
has a value), and a byte that is wrong.  The second of these kinds matters:
inside a string or literal cJSON reports the *start* of the token as the place it
stopped at, and `connection_cb` compares that with the end of the buffer.

*Variables and code.*  `buffer[c]`, `buffer_size[c]` are the members of
`struct jrpc_connection`; `pos` is `Len(buffer[c])`.  `pc`, `cur`, `out`, `end_ptr` say
whose callback is stopped in which `send_response`, with what in hand.
`stream`, `received`, `replies`, `reset`, `conn` are the two directions of the socket and
its state in the kernel; `peer`, `sent`, `taken` the client.  `served` and `torn` are
history.

| action | code |
|---|---|
| `accept_cb` | `accept_cb`; a failing `accept` only logs and changes nothing |
| `ReallocFails`, `ReadEnds` | the early returns of `connection_cb` |
| `ServeRequest` | the body parses: dispatch; without a reply the shift is part of the step, with one the step stops in `send_response` |
| `AwaitMore`, `RefuseInput` | the two outcomes of the `else` branch |
| `send_response` | the write returns; the rest of `connection_cb` (shift, or close) is part of the step |
| `Sigpipe` | the write raises SIGPIPE, which nothing handles |
| `Connect`, `Send`, `HalfClose`, `Leave`, `TakeReply` | clients (external) |

*The shift.*  After a request of `e` bytes with `R` bytes behind it, the code moves
`R + 2` bytes from `end_ptr` to the front and **then** takes `pos = strlen(end_ptr)`.
If the moved bytes reach `end_ptr`, that measures something else.  The operator
`Kept` works this out: `R` bytes stay if `R < e - 1`; none if `R = e - 1` (unless the
buffer was full and the byte moved last came from behind it); `R - e` if `R >= e`.
`memset` clears the others.  A connection that lost bytes is in `torn`.  From there on what
the parser makes of the remains depends on the actual text, so the model lets it
find any request (its replies carry number 0), fail or wait: more than the
code can do, never less.

*Assumptions.*  Clients send no NUL byte; the value of a request ends with its
last byte; allocations fail only where the code has a path for it (`realloc`).
That closing a socket with unread bytes may make the kernel drop the error
reply is left out.  So is SIGINT, whose effect on the process is in `Startup`.

### RpcChannel

Per client: the requests asked, how many are settled, the answers, and whether
the connection is garbled or closed.  `Settle` is the only way to answer: the next
request, in order, with its own outcome.  A connection may get garbled only when
a request is settled while a later one waits - the abstract form of "only
pipelining clients lose anything".  `JrpcConnection!Channel` is the refinement
mapping; a request counts as settled when its reply leaves the loop's hands.

### CsvFrameFactor

A step is one iteration of the loop of `csv_parser_execute` in one state, one `read`, or
the return.  A number is the sequence of its digits.  `atof` gets a pointer and no
length, so `Atof` reads on in the buffer, through bytes an earlier read left there,
and behind what was ever written it may or may not find one more digit.
`told` is history: for every byte of the file the rows and columns it was reported
at.  The reference definition, `Place`, counts line beginnings and commas without
any parser.

### MjsonRpc

`cb_array` and `cb_count` are kept apart as in the code, since a failing allocation
makes them disagree.  A slot that was counted but never written is `Wild`;
reading or writing one sets `faulted`, after which nothing is claimed.  The
function registered for a method is a model value that returns a result, an error or NULL.
`queue`, `adds` and `freed` are history: the registrations that should be there, the
calls made and the frees per argument.  Requests differ in the kind of id
(one a reply can carry, null, none, of a wrong type), in whether the version is right and
in the method.  The cJSON beside it tells integers from other numbers (`cJSON.h:91`), so that of the numbers
only integers are ids, and a fraction counts as an id of a wrong type (`mjsonrpc.c:119`).  `mjrpc_process_str`, which nothing calls, and failing allocations of
replies are not modelled.

### CjsonTree, CjsonText, JsonDoc

`CjsonTree` has the heap: live items with `child`, `next` and `prev` as in the code, where the
`prev` of a list's first item is its last.  Every operator takes a heap and gives one back;
`left` says how many allocations succeed before one fails, so that every error path is a
value of an argument.  A freed item is gone from the heap, and touching it is a `fault`.
A double counts tenths, a string is its bytes.  `CjsonText` parses and prints texts
that are sequences of tokens; inside strings they are bytes, escapes and all, and a number
is its spelling (an integer, or digits with a fraction or an exponent).

`JsonDoc` is a program that holds the roots of documents and calls any
operation on any item, as cJSON's header allows.  Its properties speak of *values*
(`Value`, a nested record without pointers): `Promise` says, call by call, how the values
after it come from those before it, `Reread` what a trip through a text changes.  That is not
nothing: a text nested deeper than the parser goes cannot be read back; whole doubles come
back as ints; infinities are printed as `null`.  `Equal` is what `cJSON_Compare` should decide,
and is claimed only where no two members go by the same name (otherwise `cJSON_Compare`
looks at the first of them only).

Left out: references, constant keys, raw items, hooks, `cJSON_Minify`, printing into
the caller's buffer, values changed in place.

### ThrusterConfig and Startup

`ThrusterConfig` is `json_thruster.c` with the macros of struct2json, on `CjsonText`.  What is
read by name without regard to case, what stays zero when a member is missing, what an int and
a bool take from any number, and which failing allocation is checked, come from the macros.

`Startup` has the thruster file as a *text* and a program counter over the system calls of `init`.
What a text is read as and what the default is written as, with each allocation that may fail, are its
constant operators `ReadThrusters` and `DefaultText`; the run gives them the operators `ThrustersRead` and
`DefaultWritten` of `ThrusterConfig`, the proofs say what they need of them.
`OpenFile` and `WriteFile` are the halves of `navi_write_to_file`; a full disk leaves part of the
text or none and still returns success, as the code does (`file_rw.c:80-87`).  What `fclose`
handed to the kernel is taken to reach the disk.  The power may go between any two steps, any
allocation of a conversion may fail, and a user may put any of `UserFiles` in place of the file.
`meant` is history: the parameters that the file stands for.  The log file, the root check and
the command-line mode, which end before `init`, are left out.

### WitSdk

Every function of the driver is one step.  `buff` is the used part of `s_ucWitDataBuff`, with the
real headers, checksums and CRC; only its size is smaller.  `sReg` holds the registers that were
written, also behind the array: an answer always carries four registers, so one to a read of the last
registers goes up to three places behind it (`wit_c_sdk.c:126`).  The sensor (`DeviceWord`) answers
with words that tell its registers apart and look like frame starts; the line delivers, loses and
changes bytes.  `seen` and `taken` are history: the bytes since `WitInit`, and where frames were taken.
`FramesFound` compares that with `FrameEnds`, which looks for frames in the whole sequence without any
buffer: each intact frame that does not overlap one already taken is taken with its last byte.

Environment assumptions: the program reads again, or changes the protocol, only when the
line is silent, since an answer does not say what it answers; a 905x CAN frame is one of the known kinds
(others use an uninitialized `ucTemp`).  An I2C callback may return anything (`I2cResults`).

### PbWire, NanoPb and MotorLink

`PbWire` is nanopb bit by bit: a byte is the set of its bits and an integer the set of its bits in two's
complement, at its real width, so overlong varints, sign extension, zigzag and the size checks are those of
the code.  Streams carry the bytes left, as in the code, which is what limits nested lengths.  The loops of
the code are written as what they come to: `VarintUpTo` takes the first byte that ends the integer
or is refused.

`NanoPb` encodes and decodes messages on field tables.  The code calls itself for a message in a message;
here an instance of the module is one level, and the level below it a parameter.  `MotorLink` has two:
`Flat`, for messages without messages in them, and `Nested`, over `Flat`.  That is as deep
as the tables of the program go; a deeper one would be a third instance.

`MotorLink` is one run of a command (`Parse`, `Convert`, `SerialOpen`, `WriteOut`), one answer taken apart
(`Receive`, `byte2msg`, which nothing calls yet) or one message through the library (`Carry`).
The memory for the decoded message is taken to be there; the code does not look, and would write through NULL
(`convert_msg.c:40`, `46`).
The reference is `Meaning`: what bytes mean by the encoding's own description, worked out from the
whole sequence with no stream, field iterator or default.  `Whole` says where an integer, and a field, ends; `Starts` are the places
that fields begin at, from the first on; `Fields` are the fields found so.

### HoldAxis and ControlLoop

`HoldAxis` says what holding an axis is, for any controller `Update`: open, the target follows the
measurement, nothing is added and the controller rests; closed, the target stays, the controller is
called once with the target and the axis' measurement, and what it puts out is added.  `ControlLoop`
has the code's four branches, its statics and its controllers; each axis by itself is shown to be a
`HoldAxis` with `PIDUpdate` under that axis' own gains: a branch that looks at another axis' sensor,
static, gains or memory is no step of it.
Numbers are integers in a unit that makes the gains exact; rounding and NaN are left out.  Locks and
measurements, which nothing sets yet, are the environment.

Two things follow from the code and are part of the model: an axis that is locked before it ever was
open holds 0, and a controller's memory is not reset when the lock closes again.

## 3. The runs

| run | instance | states | shows |
|---|---|---|---|
| `conn_pipelined` | 2 clients, one with up to 3 requests in flight and one with a call, 4 kinds of request, buffers of 3 bytes that grow, socket room for 1 reply | 412 121 | types; `ReadHasRoom`, `ServedInOrder`, `OnlyShiftsTear`, `RepliesMatchRequests`, `NoReplyForgotten`; `ImplementsChannel`: the server implements `RpcChannel` |
| `conn_live` | 2 clients, up to 2 requests of each, the second after the reply to the first, fair | 19 616 | `NothingLost`, `ConnectionsEnd`, `EachRequestSettled` |
| `conn_refusal` | 1 client, 1 valid request | - | finding 1 |
| `conn_loss` | 1 client, 2 equal requests | - | finding 2 |
| `csv_load` | every file of up to 6 bytes over comma, line feed and two digits, reads of 5 bytes, any of which may fail, a 1 x 1 table, fair | 123 443 | types; `WritesInTable`, `ReportedInPlace`, `AllReported`, `WholeFieldsLoad`, `LoadEnds` |
| `rpc_table` | 2 names, 3 functions, 2 arguments (symmetric), up to 3 additions, any number of deletions and batches | 131 005 | types; `NothingMislaid`, `ArgsFreedOnce`, `CallsAnswered` |
| `start_restarts` | 2 thrusters, 4 user files, 1 power loss, 2 failures of any of 50 allocations, writes or binds, 1 edit, fair | 35 674 | types; `UserFileKept`, `WriterNeverServes`, `ConfigSurvives`, `ServesInTheEnd` |
| `json_doc` | 2 documents with 2 names: 4 items with arrays, 3 of all types, or 6 of one type; any of the first 5 allocations of a call failing | about 14 300 | `WellFormed` (types and links), `ComparesValues`, `ActsOnValues` |
| `wit_stream` | all seven protocols and an unknown one, 3 calls, 1 unasked frame, 1 fault of the line, a buffer of 16 bytes | 1 373 724 | types; `FramesFound`, `AnswersTaken`, `RegistersTrue`, `DataUpToDate` |
| `motor_link` | 6 first words, 18 channels, 11 values, whole and damaged answers, every field type at the edges of its width | 8 516 | types; `CommandArrives`, `AnswersRead`, `CarriedWhole` |
| `control_loop` | 6 thrusters, other gains on every axis, 3 cycles, 5 changes | 215 151 | types; `ThrustersFollow`, `EachAxisAlone` |
| `axis_crash` | the same, the method registered with NULL | - | finding 3 |

**Why these bounds are enough.**

* *Requests.*  `call` has a byte of every harmless class, `notice` has no reply, `broken` fails,
  `partial` never ends, `fatal` makes its handler fault.  With three in flight every relation of `R` to `e`
  in `Kept` occurs, with a full buffer and without, and a shift follows a shift.
* *Clients.*  Two suffice for one to hold up, or to end, the other's service.  The second sends one call
  (`OneBeside`), so that it is served, waits and is answered at every point of the first one's conversation.
* *Buffer.*  3 instead of 1500 bytes makes the buffer full in the header, in the
  body and at the end of a request, and grow once or twice.  The theorems below hold for
  any size.
* *Socket.*  Room for one reply makes a second write block.
* *CSV.*  In six bytes with reads of five (a second read is a short one) there fit a heading, a number, cuts inside
  and beside a field, empty lines, a row or column too many, and a stale byte
  behind a short read.
* *Table.*  Three additions over two names make any two of them shadow each other around a third, leave a gap
  of an unwritten slot at each end and in the middle, and let a moved slot be
  moved or deleted again.
* *Start.*  50 is more than the allocations of any one conversion, so every one of them fails in some
  start.  The user's files are an edited default, one written by hand on one line in another order and case with
  members missing and of other types, the same without its last brace (no document), and without its first (whose first
  value is a string, and which counts as a document without members).  With two failures a bind may
  fail after a write did.
* *Documents.*  A run keeps to heaps of three kinds (`MCRoom`), and goes between them.  Four items, of which one
  may have a name, make arrays of up to three, nested up to four deep (one more than
  the parser's limit of three here), and every edit at the head, in the middle, at the tail and beyond.  Three items of any
  type but arrays, with a null and two values each of bools, numbers and strings, take every branch of the comparison, the printer and the
  parser; 2.0 reads back as an int and 1.5 does not, and a string needs escapes.  Six items of
  one type make two objects of two members, named alike and in either order.  A parser makes its items after the two
  allocations of the printer, so five allocations fail in the middle of an object that is being read as well.  The `VIEW`
  numbers items by their place in the documents: addresses are compared with nothing but each other, so
  documents that differ in them only go on alike.  Which of them is met first depends on the order of the
  search, and with it the exact number of states.
* *Sensor.*  Three calls and a frame reach a refused read between a request and its answer, two frames in
  a row with the first damaged at any byte, and answers at the end of the registers.  16 bytes
  of buffer hold the longest MODBUS answer asked for, but not two answers.
* *Motor board.*  Channels around both ends of both ranges; values at the edges of a varint's byte, of a
  short and of the sign; answers with every byte removed, changed to each of five others, and every
  beginning and repetition of one; keys, lengths and numbers written with more bytes than they need, up to one too many.
* *Control.*  Three cycles with five changes between them close, open and close a lock over changing
  measurements.  One thruster has no dead zone, one no power forward, two are reversed.

`CHECK_DEADLOCK FALSE` is set throughout: clients that have gone and a server that
has ended, a loaded table, a faulted process, a command that has ended and used-up bounds are
legitimate ends.

**Fairness.**

* Server actions (`accept_cb`, `connection_cb`, `send_response`, per client): libev calls the
  callback of every ready descriptor once per iteration (level-triggered), and a
  blocked write resumes when there is room.  Weak fairness is enough because nothing but the loop
  itself makes a ready descriptor unready; the loop always comes back, or is dead.
* `TakeReply`: a client that stays reads its replies.  This is a real assumption: the
  code's `write` blocks the only thread, so one client that stays and does not read
  stops everybody's service, and nothing can be promised without it.
* `csv_load`: nothing else runs.
* `start_restarts`: a start runs on by itself (`RunsOn`), and the user makes the missing table
  and starts the program again.  Nothing is assumed of the power or the disk beyond the bounds.

`EachRequestSettled` is claimed for clients that wait for each reply (`Window = 1`); two requests of
each (`MaxMsgs = 2`) let one follow another through the same buffer, behind its shift:
of pipelining clients' requests the shift may lose some (finding 2), and what it keeps
is only looked at when more bytes arrive, because one callback serves one
request.

## 4. What is proved

Eight modules hold proofs.  Each theorem holds for all values of the constants that satisfy the
assumptions of the module it is about; in those modules every `ASSUME` is named and TLC evaluates it
in the module's runs.  A hypothesis beyond those stands in the theorem itself.

| module | theorem | statement |
|---|---|---|
| `JrpcConnectionProofs` | `Invariance` | `Spec => []IInv` |
| | `TypeCorrect` | `Spec => []TypeOK` |
| | `ReadAlwaysHasRoom` | `Spec => []ReadHasRoom` |
| | `DispatchInOrder` | `Spec => []ServedInOrder` |
| | `BytesKept` | `Spec => []OnlyShiftsTear` |
| | `PatientClientsLoseNothing` | if `Window <= 1` then `Spec => []NothingLost` |
| | `AnswerInvariance` | `Spec => []AnswerInv` |
| | `EachItsOwnReply` | `Spec => []RepliesMatchRequests` |
| | `NoneForgotten` | `Spec => []NoReplyForgotten` |
| | `ChannelInvariance` | `Spec => []ChannelInv` |
| | `ChannelImplemented` | `Spec => ImplementsChannel` |
| `CsvFrameFactorProofs` | `ScanInvariance` | `Spec => []IInv` |
| | `TypeCorrect` | `Spec => []TypeOK` |
| | `TableBounds` | `Spec => []WritesInTable` |
| | `InPlace` | `Spec => []ReportedInPlace` |
| | `NoneLeftOut` | `Spec => []AllReported` |
| | `FieldsLoad` | `Spec => []WholeFieldsLoad` |
| `MjsonRpcProofs` | `TableInvariance` | `Spec => []IInv` |
| | `FreedOnce` | `Spec => []ArgsFreedOnce` |
| | `NewestAnswers` | `Spec => []AnswersDue` |
| | `RegistrationsKept` | `Spec => []NothingMislaid` |
| | `BatchesAnswered` | `Spec => []CallsAnswered` |
| | `TypeCorrect` | `Spec => []TypeOK` |
| `StartupProofs` | `WriterStops` | `Spec => []WriterNeverServes` |
| | `UserFileSafe` | `Spec => UserFileKept` |
| | `ParametersSurvive` | if `ReadsBack` then `Spec => []ConfigSurvives` |
| | `TypeCorrect` | if `OutcomesTyped` then `Spec => []TypeOK` |
| `WitSdkProofs` | `NeverBehind` | `Spec => []DataUpToDate` |
| | `EveryFrameFound` | `Spec => []FramesFound` |
| | `EveryAnswerTaken` | `Spec => []AnswersTaken` |
| | `TypeCorrect` | `Spec => []TypeOK` |
| | `RegistersFiled` | if `REGSIZE >= 86` and `REGVALUE \notin Outputs` then `Spec /\ [][StartsBetweenFrames]_vars => [](faults = 0 => RegistersTrue)` |
| `MotorLinkProofs` | `AnswersTrue` | `Spec => []AnswersRead` |
| | `CommandsArrive` | `Spec => []CommandArrives` |
| | `TypeCorrect` | `Spec => []TypeOK` |
| | `FixedDecodes` | a message of four fixed fields decodes exactly if its bytes have a meaning, and then to it |
| | `SentMeans` | the bytes of a command mean the command, and no proper beginning of them means anything |
| `ControlLoopProofs` | `ControlInvariance` | `Spec => []IInv` |
| | `MemoryKeepsLimits` | `Spec => []TypeOK` |
| | `AxesAlone` | `Spec => EachAxisAlone`: each axis implements `HoldAxis` |
| | `ThrustersObey` | `Spec => []ThrustersFollow` |

### The connection server

*Why the properties are not inductive.*  That requests are dispatched in order
says nothing of the buffer, and it is the buffer the next dispatch is taken
from.  `IInv` adds what ties them together:

* `StreamInv`: the stream is the messages' bytes, one message after the other.
* `WindowInv`: as long as a connection has lost nothing, its buffer is a window
  on the stream which begins where message `First(c)` begins - the first that is not
  served, or, while its reply is being written, the last that is - and ends
  at the last byte read.
* `RoomInv`, `FreshInv`: the buffer keeps a byte of room; connections not yet accepted are
  untouched.
* `LoopInv`: a reply in hand answers the request at the buffer's head, whose end
  is `end_ptr`.

*The argument.*  `ParsesFirst` is its heart: if a window that begins at message `k` parses,
what was parsed is exactly message `k`, since a message has one end of header and
completes its value with its last byte.  So a dispatch serves `First(c)`.
`Reading` shows that a read extends the window, `Keeping` and `Shifting` that a shift which
keeps all the bytes moves the window's start to the next message;
`SendStep` that new messages extend the stream and leave windows alone.  One
lemma per action then gives `NextIInv`.  For patient clients `PatientInv` adds that at most the
one unanswered request is in the buffer or on its way, so that nothing is ever
behind a request when it is shifted out, and `Kept` keeps all of it.

*Replies.*  `AnswerInv` relates replies to `served` in both directions: a numbered reply answers a request
that was dispatched and is not in hand, with its result, and the numbers grow (`RepliesInv`); a dispatched
request that asks for a reply has it or is in hand, or its client has gone or the process
has ended (`RepliedInv`).  With `LoopInv`, which numbers what is in hand, a write keeps both.

*The refinement.*  The mapping of `ImplementsChannel` reads the channel's state off the server's.
`AsAsk`, `AsSettle`, `AsLeave` and their like say which step of the channel a change of the mapped state is;
one lemma per action of the server finds the change it makes.  `HandInv` is what the steps need
beyond `IInv`: what is written to a connection that lost bytes is the outcome of *some* request and carries
no number, and who is refused has sent something.

### The CSV loader

`ReportedInPlace` compares what the parser tells with `Place`, which counts in the whole file; the
parser has counters, and a state in which the next byte may be looked at again.  `IInv` says that these are the file's:
`RowInv` and `ColInv` that row and column are those of the next byte (less one where the state has yet to count
it), `BeginInv` that a line begins behind a line end, `FieldInv` that the part of the field that is in the present piece lies at that place and was not reported yet,
`BehindInv` that all that is further back is reported and `AheadInv` that nothing ahead is.  `RowNext` and
`ColNext` say how places go on from one byte to the next, `ReportTells` and `ReportCompletes` what one callback adds,
and one lemma per state of the parser does the rest.  After a failed callback the parser stops, and only
`ReportedInPlace` itself is kept.

*Numbers.*  `WholeFieldsLoad` needs where the field under way began (`StartInv`, `EndColInv`), that every piece but the last fills the
buffer (`PieceInv`), and that what was told of a whole field is in its cell (`LoadedInv`).  `AtofReadsField` shows that the separator in
the same piece stops `atof`, so that stale bytes behind it do not count, and `SamePlaceSameField` that no later callback
goes to the same cell, since a cell's row and column belong to one field of the file only.

### The method table

Deleting moves the later slots down over the deleted one, and additions may fail half way; slots and registrations
of a name get different numbers all the time.  `InOrder` says that for every name there is an
increasing map from its live registrations onto its slots (`Leads`).  Since it is increasing and onto, it takes the newest to the newest and the
oldest to the oldest: so a deletion, which takes the first slot, takes the oldest registration, and a dispatch,
which scans from the end, finds the newest (`NewestAnswers`).  `ArgsInv` counts: an argument that is live has one
registration and was not freed, one that was given and is not live was freed once.

`NothingMislaid` compares two sequences: slots and live registrations of a name, each filtered out of its array.
`PickedProperties` is what filtering by position does (it is a recursive function, so by induction over the length), and the
increasing map between the two makes them equal item by item.  `CallsAnswered` is `AnswersDue` for each request of
the batch (`ReturnedIsDue`, `RegisteredIsQueue`), put together by the same filter (`ResponsesDue`): the answer given last stays
what was due when it was given, so the invariant carries it through operations that change the table.

### Starts and the thruster file

`FileInv` is what the program counter says of the rest: a start that writes the file has `json_file_error` set and so
gives up (`GivesUp`), and it writes where nothing was (`WritesNew`); `WriterStops` and `UserFileSafe` follow for any
conversions at all.  `ConfigInv` adds that the text in the file is one of the few it can be, and that `meant` is what it
is read as.  For that something must be known of the conversions.  `ReadsBack` says it: each user file is read as what it
stands for, the default as the default, the empty file and each proper part of the default as no document - for those texts,
and for allocations that do not fail.  It is what `ConfigSurvives` needs of `json_thruster.c`, struct2json and cJSON; what the theorem
adds is that no order of crashes, full disks, failures, edits and restarts brings another text into the file.
`OutcomesTyped` is the same for types.  Both were evaluated by TLC for the conversions of `ThrusterConfig` and hold; that takes
some minutes, so it is not part of a run, and `start_restarts` checks the two properties themselves.

### The sensor's driver

*What is shown.*  `FileKeeps` is the one idea: whatever frame it comes from, what is filed is told to the callback whole, and so
all of it that the program shows is copied.  The other steps leave registers and words alone.

*Frames.*  `FrameEnds` looks at the last eleven bytes of each beginning of the stream; the driver has a buffer from which a mismatch
drops one byte, after which it is *not* looked at again before the next byte comes.  `SerialInv` says why that is enough: the buffer is
the end of the stream, behind the last frame taken, and no header in the bytes between that frame and the
buffer can begin a frame any more, since its eleventh byte has come.  So when a frame's last byte comes the
buffer begins at its header, and `EndsUnfold`, by induction, says that `FrameEnds` counts it then and only then.  No value of a checksum
is needed, only that the two compare the same bytes.

*Answers.*  As long as the stream behind the last whole answer is the beginning of one (`Incomplete`), it is the buffer
(`AnswerInv`); `IncompleteBefore` says that every beginning of an answer is one, so its last byte finds it complete.  That the CRC of an
answer is over all but its last two bytes is `IsAnswer`'s definition and the scan's alike.

*Types.*  The bytes of a CRC are bytes because `Xor` keeps 16 bits (`XorWord`), through the table (`ShiftsUnfold`) and through a
message of any length (`CrcUnfolds`).  With `StreamOK`, which says that line and buffer carry bytes and CAN frames
eight of them, every word filed is a pair of bytes that were received (`FoundTypes`, `CanTypes`); a buffer that is full waits
for an answer that does not fit (`BuffBounded`).  The assumption asks for a buffer of at least a frame, which 256 is, and a register array
whose numbers, and those of the three registers behind it, are bytes.

*What the registers hold.*  `RegistersTrue` alone is not inductive: what is filed must be true before it is filed.  `InStep` says that the
buffer and the line together are one whole frame, or nothing, and that this frame is true (`TrueFrame`, `TrueCan`): its words, in the order of its
bytes, are those of the device's registers that `CopeWitData` will file them under, or that were asked for (`Source`).  So there are
three things to prove.  The device's frames are true (`SerialTrue`, `CanFrameTrue`, `AngleTrue`, `ModbusTrue`): checksum and CRC are over
the bytes they should be over, and words come out of bytes as they went in (`WordsBack`).  The scan waits until the last byte of
a true frame and takes it then (`ScanOfTrue`).  And `CopeTrue` says that of all eleven kinds of frame, and of answers, in four words or in three,
with the fourth elsewhere or not, each word goes to its register.  A refused read leaves the index that answers
are filed under alone while one is on its way, which is why `InStep` holds for the *present* index (`ReadTrue`).  `StartsBetweenFrames` leaves
out that the driver is started again, in the protocol it already has, while a frame is on the line; the program starts it once, in `navi_jy901_init`.
`REGSIZE >= 86` is what the last of the device's frames needs (it is 0x90), and `REGVALUE \notin Outputs` says that the device
sends read answers only when asked.

### Commands and answers of the motor board

*Reading.*  The decoder has a stream that shrinks, `Meaning` has the whole sequence; `AtByte(in, s, i)` says that what is left of the stream is
`s` from byte `i` on.  With it `Varint32Reads`, `TagReads` and `FieldSkips` say that each reader of `PbWire` succeeds exactly where
`Int32In`, `StandsAt` and `Payload` say that something stands, gives what they say, and leaves the stream behind it.  `Leads` makes of
`Starts`, a recursive function, the list of places from one field to the next, and the decoder's loop goes along that list: `FixedDecodes` says that a
message of required fixed fields, which both answers are, decodes exactly when it has a meaning, and then to it.  `Byte2msgIs` puts the search before it,
which on whole bytes stops at the first field that is an answer (`Searching`, `Searched`) and on others may go on in the middle of a
field that could not be skipped; what it then stops at still is a key of an answer with a length behind it that the decoder takes.

*Writing.*  `GroupsRead` is the heart of the encoder: the groups of seven bits that a number is written as are read as that number, by the
description, at any place.  From it come the bytes of one command, `Inner` in the union's field `Sent`; the encoder writes
exactly them, because its dry run counts what the real one writes (`Msg2byteIs`), and the 40 and 135 bytes of the generated header
are enough.  `SentMeans` says what they mean.  Since nothing delimits messages on the line, it also says that no proper
beginning of them means anything: a write that was cut short leaves no other command there.

*Steps.*  `Commanding` says what the program counter says of the command line: from `convert` on the message has the one channel set, from `open` on the
bytes are those of the message, and in the end the line has all of them, or not all.  `Typed` and `Replied` are the like for types and for answers.
The theorems assume of the command line and the answers only what `LineAssumption` does: arguments are integers or no numbers at all, and what is received is bytes,
fewer than 2^24.  How a number becomes a float, which is exact below 2^24 only, is `Float` on both sides of the theorem.

### The control law

`IInv` keeps numbers numbers, each controller's memory in its limits, and outputs and message those of the
last direction.  `AxisStep` shows that a cycle calls a locked axis' controller once, with the axis' own set point and
measurement, and adds what it puts out, which is a step of `HoldAxis` for that axis; the axes differ in nothing but their
names.  `IInv` is needed there for the numbers only: the sticks, which are added too, have to cancel.
`ThrustersObey` takes a thruster's power as the row of the frame gives it (`PerRow`), which is the sum over the four directions
that the reference has, and shows what dead zone, limits and reversal make of it.

### Induction

The library's induction theorems take an operator, which no prover at hand can instantiate.  `Induction` states
them for *sets*: a set of numbers that has 0 and each successor has all (`InductionSet`, from the least number that is not
in it).  `RecursionUpTo` then says of a recursive function that it has a value at each number of its domain and follows from one to the next, and
the proofs use it for the sums, checksums, filters and scans that the models define that way.

### Only model-checked

* All liveness (`ConnectionsEnd`, `EachRequestSettled`, `LoadEnds`, `ServesInTheEnd`): out of the prover's reach.
* `RegistersTrue` of `WitSdk` when a byte was lost or changed.  Bytes can then pass for a frame with a right checksum, and what they hold is
  filed as if it were true; the run shows that one fault of the kinds it has does not do that.
* `CarriedWhole` of `MotorLink`: the trip of *any* message of any field table through the library.  That needs the encoder's induction over the elements of arrays,
  packed and not, and over the fields of a message, for each of ten kinds of value; of the messages that the program has, the theorems above
  say the same.
* `WellFormed`, `ComparesValues` and `ActsOnValues` of `JsonDoc`.  The cJSON modules are written with `RECURSIVE` operators,
  on trees like their code; the prover cannot be used in a module that has one, nor in those that use it.

## 5. Findings

1. `conn_refusal` (`jsonrpc-c.c:162`): a valid request that arrives in pieces is refused with
   an error if the first piece ends in the header, or inside a string or a
   literal; the comment above it says to wait for more.  A request larger than
   the room in the buffer is cut by the server itself, at its byte 1499, and meets the same.
2. `conn_loss` (`jsonrpc-c.c:154`): the count of the bytes kept is taken at the place
   they were moved from.  If at least as many bytes as the request has itself
   wait behind it, bytes of the following requests are cleared.
3. `axis_crash` (`control_jrpc_func.c:12`): the only method writes through the NULL it was registered
   with (`jrpc_server.c:24`): the first request for it ends the program.

**Known divergences** that the models contain, without runs of their own; the properties are stated
so that they hold beside them:

* A number that two 64-byte reads share is replaced by its second part (`csv_frame_factor.c:19`; the
  parser's header announces pieces, `csv_parser.h:60-61`).  `WholeFieldsLoad` speaks of fields that one read holds.
* A table with a row or column too many is given out half filled: the parser's error state
  (`csv_parser.h:82-83`) is not looked at (`csv_frame_factor.c:42`).  `AllReported` leaves such loads out.  A table
  of which a read failed is given out half filled too (`csv_frame_factor.c:40`); of this one it says that what was read is in its place.
* `frame_factor_get_from_file` may return NULL, which `main.c:33` does not check.
* Deleting all methods works and returns NOT_FOUND (`mjsonrpc.c:281`, `mjsonrpc.h:116`, `jrpc_server.c:40`).
* After a failed addition the table may touch unwritten slots (`mjsonrpc.c:197`); after such a fault nothing is claimed.
* A file emptied by a power loss counts as configured: the next start serves with NULL for its parameters
  (`main.c:51`); a text of which only a part was written is read as no document, which `ConfigSurvives` confirms.
  A write to a full disk is reported as a success (`file_rw.c:80-87`).
* While the default is made, members without memory are left out of the text, silently, and read as zero later;
  while it is read, a failed allocation is a write through NULL (`s2jdef.h:247-258`).
* A thruster file whose first JSON value is no object counts as one with all members missing, which are zero.
* `wt_jy901.c:86` says an I2C callback returns 1 for success, it returns 0, and the driver compares with 1
  (`wit_c_sdk.c:322`, `382`): over I2C every write is reported as failed, and every read as a success that files nothing.  The model lets the callback
  return either.
* A MODBUS length byte that was corrupted to ask for more than the buffer holds is waited for
  (`wit_c_sdk.c:184`): the bytes run behind the buffer, and the driver need not recover.  `AnswersTaken` speaks of whole answers.
* When the driver is started again in the middle of a frame, what is left of it and the next one may have a frame with a right checksum between
  them, whose words then go to wrong registers (`wit_c_sdk.c:148`): eleven bytes and a sum are all that marks a frame.  `RegistersFiled` leaves such starts
  out.
* Arguments of commands go through `atoi`: `shot 0 0.5` sends 0, and the values' range is not looked at.
* A field that cannot be skipped is not, and the search for an answer goes on in its middle (`union_msg.c:28`); nothing on
  the line delimits messages.  `AnswersRead` says that what comes out still stands in the bytes somewhere.
* Of members with the same name, `cJSON_Compare` and all lookups see the first only.  A replacement whose name
  cannot be copied stays in the object without one (`cJSON.c:2392-2408`).

## 6. Not modelled, and why

* `ctrl_routine.c` is empty; ADRC is called by nothing, and a floating-point law without a
  discrete promise.
* cJSON_Utils (pointers, patches) is included by nothing.  log.c, libev, WiringPi and luckfox_gpio are vendored or pure
  I/O; the models have the results of their calls, and libev's scheduling as fairness.
* Of nanopb pointer, callback and extension fields, UTF-8 validation and release functions (no table of the program
  has them); of struct2json strings, arrays and defaults; of cJSON what section 2 lists.
* The help text, the log file, the root check, and the text that the sensor's numbers are formatted into.
* Floating point: rounding, NaN and the sensor's scaling.

## 7. What is left

* `CarriedWhole` as a theorem, for the tables of the generated header first.
* The lists of `CjsonTree`, which its edits change without recursion, in a module of their own that can be proved about.
* Part of each vendored library that no table or call of the program reaches (section 6) could be modelled the same way,
  if the program comes to use it.
