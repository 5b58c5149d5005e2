# opensrv-mysql in TLA+

A verification project for `src/mysql`, the crate `opensrv-mysql`: a library
that speaks the server side of the MySQL client/server protocol and hands the
client's commands to a backend, an implementation of the trait
`AsyncMysqlShim`. One connection is one task; connections share nothing. What
makes the crate hard is therefore not shared memory but the number of parties
that must agree about one connection - the server's tables, the backend's
cursors, the bytes on the wire and what the client concludes from them - while
callbacks fail, clients pipeline commands, reads end anywhere and timers fire.

## 1. Inventory

### Components, their state and their operations

| component | source (under `src/mysql/src`) | state | operations |
|---|---|---|---|
| connection phase | `lib.rs` 566-610, 774-1149, `tls.rs`, `commands.rs` 34-157 | the last sequence id, the parsed response, `client_capabilities`, the reader's buffered bytes | greeting, response or SSLRequest, TLS, plugin choice, auth switch, authentication, initial database |
| command loop | `lib.rs` 1151-1606, `commands.rs` | `stmts` (parameters, cursor columns, long data, bound types, pending error), `total_long_data_size`, `status_flags` | one arm per command, `read_timeout`, errors |
| result writers | `resultset.rs`, `writers.rs`, `lib.rs` 109-209 | `last_end`, `default_status_flags`, column position, `remaining`, the completion flag, locals they leave for `run()` | the methods a backend calls on each writer |
| packet framing | `packet_writer.rs`, `packet_reader.rs` | buffer, sequence id; buffered bytes | `end_packet`, `write_chunk`; `next_async`, `packet`, `ensure_packet_limit`, `read_packet_with_timeout` |
| buffered output | `packet_writer.rs` 33-197, `lib.rs` 1607-1645 | offsets of `write_chunk`, tokio's `BufWriter`, the socket | partial writes, threshold flush, `flush_all`, `write_timeout` |
| statement parameters | `params.rs`, `value/decode.rs` 74-192 | `bound_types`, `long_data`, the iterator's position | `ParamParser::validate`, `Params::next` |
| request parsing | `commands.rs`, `lib.rs` 214-251, 1174-1253 | none of its own; the stage of the connection decides what is parsed | `client_handshake`, `parse`, `command_parse_error`, the schema of USE |
| value encoding | `value/encode.rs`, `resultset.rs` 574-793 | the row under construction | `to_mysql_bin`, `to_mysql_text_with_column`, `write_col`, `end_row` |
| value decoding | `value/decode.rs` | none | `parse_from`, `TryFrom` |
| error codes | `errorcodes.rs` | none | a table |
| examples and tests | `examples/`, `tests/` | - | accept loops, interoperability suites |

How they meet: the connection phase and the command loop read packets through
`PacketReader` (under `read_packet_with_timeout`) and write through
`PacketWriter`. The command loop calls a method of the shim with a writer that
borrows the `PacketWriter`, the session status and a completion flag; when the
callback returns, `run()` looks at that flag and at locals the writer has set
(a cursor's columns, whether a FETCH exhausted it), updates its table, and
flushes. `PacketReader` changes hands when TLS begins: the acceptor reads
through it, and must be given the bytes it has read ahead.

### What is hard, and what makes each part correct

* **Command loop.** Three parties keep cursors (server, backend, client), two
  keep statements, two keep session status. Long data is accounted in six
  places. SEND_LONG_DATA has no reply and defers its error. CLOSE has no reply
  in a pipeline of commands that have one. A callback may return without
  completing its response. Correct: the parties agree whenever the line is
  quiet, the total equals what is held, limits hold, replies come in order.
* **Result writers.** Whether a result's terminator carries MORE_RESULTS is
  known only later, so it is held back; every method may fail at every packet;
  five grammars (query, execute, cursor, fetch, prepare) times the client's
  capabilities. Correct: the client can decode every prefix, the completion
  flag means delivery, status and cursor flags tell the client what `run()`
  will do.
* **Framing.** Payloads at multiples of the frame size, wrapping sequence ids,
  limits that must hold before the bytes are there, reads that stop anywhere.
  Correct: packets arrive whole and in order, only bad ones are refused, a cut
  stream is no clean end.
* **Connection phase.** Many entrances to authentication, ids that run on
  across SSLRequest, switch and AuthMoreData, read-ahead across the switch to
  TLS, a timer that must cover TLS too. Correct: nobody enters
  unauthenticated, nobody gets two verdicts, an honest client is never lost. A
  client that was told OK is served, and one that is turned away is told ERR, with
  the exceptions the code makes: it says nothing to a client without
  CLIENT_PROTOCOL_41, and hands on an error of `on_init` whatever `on_init` has
  answered before.
* **Buffered output.** A stream takes any part of a header and a chunk; a
  `BufWriter` keeps small packets back; server and client can each wait for the
  other to read. Correct: frames go out byte for byte, nothing is held back
  when the next command is awaited, and a timeout ends every wait.
* **Request parsing.** Fields without tags, whose presence and delimiters
  depend on capabilities and on TLS. Correct: an honest client is understood in
  every dialect, and what is accepted accounts for every byte.
* **Values.** Some thirty types against two dozen column types, with limits of
  widths, dates and times, and a row that must survive a refused value.
  Correct: a client decodes what was meant, and what the column can hold is
  refused only for its Rust type, by a rule a backend can follow: an integer of a
  fixed size goes into a column that is wider or holds all its type's numbers.
* **Parameters.** Everything is decoded twice, and the second time unwrapped;
  types are remembered across EXECUTEs. Correct: what was validated decodes, to
  the values meant.

`PROJECT.json` lists these hazards at their lines, with the properties that
would catch each.

## 2. Plan

| order | module | abstract specification | runs | proofs |
|---|---|---|---|---|
| 1, done | `CommandLoop` | - | `cursor_loop`, `long_data_loop`, `session_loop` | `CommandLoopProofs`: every safety property |
| 2, done | `ResultWriter` | `ResultExchange`, refined | `result_sets`, `broken_wire` | `ResultWriterProofs`: every safety property, and the refinement |
| 3, done | `PacketFraming` | the packets sent, in order (`ReceivedAsSent`) | `framing` | `PacketFramingProofs`: every safety property |
| 4, done | `Handshake` | - | `handshake` | `HandshakeProofs`: every safety property |
| 5, done | `StatementParameters` | decoding against the client's encoding | `parameters` | `StatementParametersProofs`: every property |
| 6, done | `ValueEncoding`, `ValueDecoding`, composed in `RowValues` | what a value means, whatever carries it | `rows`, `wrapped_nulls` | `ValueProofs`: each encoding and conversion, then the rows: every property of `rows` |
| 7, done | `RequestParsing` | the client's encodings | `requests` | - (section 6) |
| 8, done | `BufferedOutput` | the frames of the replies, in order | `output` | `BufferedOutputProofs`: `SentInOrder` |

The plan is carried out. What could follow is a composition: `CommandLoop` with
its callbacks answered through `ResultWriter`, which would derive the outcomes of
a callback that `CommandLoop` assumes. Its states are the product of two of the
larger runs.

## 3. The modules

### `CommandLoop` (with `MCCommandLoop`, `CommandLoopProofs`)

`run()` of `lib.rs`. Server: `conn`, `stmts`, `total_long_data_size`,
`status_flags`. Backend: `open_cursors`. Transport: `inbox`, `outbox`, the
commands and replies in flight. Client: `awaiting`, and what it has learned
from replies it read (`client_status`, `status_known`, `client_stmts`,
`client_cursors`).

`ClientSends`, `ClientReads` are the client; each other action is one arm of the
loop with all its calls, including the flush and, where the connection ends,
the drop of its locals and of the shim (`Leave`). Early returns are actions of
their own (`RefusePrepare`, `UnsupportedExecute`, `ExecutePending`,
`ExecuteBadParams`, `FetchNoCursor`, `IgnoreLongData`, `ResetUnknown`,
`BadSequence`). A callback is its outcome: a response with any status the
backend may report, an ERR, or a failure (`BackendFails`: an error, or an
`Ok(())` with the response unfinished, which `ensure_response_completed` turns
into one). A cursor EXECUTE may have opened the backend's cursor and then
answer ERR. Long data is lengths; whether parameters parse is a choice, made
precise in `StatementParameters`.

Assumed of the environment, each visible in the module: initial status flags
are durable ones (`FlagAssumption`); a backend does not report cursor flags
through a plain result writer (the doc of `set_status_flags` reserves them); a
shim releases its cursors when dropped (the trait's doc asks for RAII); a
client does not CLOSE an id it has not been told of while a PREPARE that may be
given that id is unanswered.

### `ResultWriter` (with `MCResultWriter`, `ResultWriterProofs`), `ResultExchange`

One command and its writer. `writer` is the typestate the backend holds; each
method of each writer is an action that checks what the method checks and puts
the packets it will emit into `outgoing`; `WritePacket` writes one, which may
fail (`PacketFails`), so that every await between two packets is a point of
failure. `client` is a decoder of the grammar the negotiated capabilities
select, fed packet by packet; it is *confused* by any packet that cannot stand
where it does. `handler` is what `run()` makes of the return.

`ResultExchange` is what a writer promises: results submitted reach the client
in order and unaltered, and "answered" means wholly received. `DeliversResults`
is the refinement: `delivered` is the client decoder's list of results,
`outcome` is `handler`.

Column definitions are one packet (`DEFS`) carrying their number, a row is its
number of columns. A backend is assumed to report no cursor flags and, except
in `broken_wire`, to stop after a transport error (`GivesUpWhenTorn`).

### `PacketFraming` (with `MCPacketFraming`, `PacketFramingProofs`)

One direction of a stream: packets of several frames are written (by
`PacketWriter`, or by a client that may skip an id, exceed the limit or send
nothing), read in arbitrary pieces, and parsed as `packet` does, frame headers
first; the stream may be cut anywhere. `ReadTimesOut` is the timer of
`read_packet_with_timeout`: it drops `next_async` while `read_buf` is pending,
and with it the bytes `mem::take` had moved into a local buffer. That is safe
only because both callers end the connection (`AfterTimeout`); a caller that
retried would parse from the middle of a packet, as its mutant shows. Bytes carry the packet they belong to,
so that `ReceivedAsSent` can compare. `U24_MAX` is 2 and ids wrap at 4, so that
packets of zero to three frames, exact multiples and a wrap inside a packet all
occur.

### `Handshake` (with `MCHandshake`, `HandshakeProofs`)

The connection phase, one action per packet the server reads, each through to
the next await. Client packets carry the ids of their first and last frame and
the fields the server looks at; a dishonest client skews an id, sends a
malformed packet, or asks for TLS that was not offered. `ReadAhead` moves client
packets into the reader's buffer, so that a TLS hello may be there before the
acceptor is. The options (`tls_offered`, `auth_timeout`) are variables fixed by
`Init`, so that one run covers them all. The build is the one with the feature
`tls`; the TLS handshake is one message each way; ids do not wrap (a response
of 250 frames is beyond any packet limit in use). Framing errors are
`PacketFraming`'s, and what the server flushes arrives: failed writes are
`ResultWriter`'s and `BufferedOutput`'s. `on_init` may answer OK or ERR through its
`InitWriter`, or not at all, and may return an error after any of these
(`InitFails`). Nothing of its answer is flushed by then, so any number of its
packets, none included, may have left in the buffered stream. What
`client_handshake` makes of bytes is `RequestParsing`'s:
here a response is well formed or not, and has the fields the server checks.

### `StatementParameters` (with `MCStatementParameters`, `StatementParametersProofs`)

One prepared statement and its EXECUTEs, as bytes: NULL bitmap, flag, types,
values. `Validate` is `ParamParser::validate`; `NextParam` is `Params::next`,
which decodes the bytes again and *panics* in the model where the code unwraps
or indexes what is not there. `Altered` is every packet that differs from an
honest one by one byte, one byte more, or a cut. An honest client omits the
types only when its last EXECUTE was answered well with the same types, and
leaves out NULLs and uploaded columns. A bitmap byte is the sum of the bits of a
set (`ByteOf`), and a test of a bit a shift and a remainder (`IsSet`): both are in
`Bits`, which `RowValues` shares. A type entry is one byte (its sign flag
changes no alignment), types are the classes `parse_from` measures differently.

Seen while modelling: an EXECUTE answered with a pending long-data error never
reaches `ParamParser`, so the types it carried are not remembered. A client
that counts them as sent would be misread by its next EXECUTE. The repository
promises nothing on the point, so it is a hazard with a note, not a finding.

### `ValueEncoding`, `ValueDecoding`, `RowValues` (with `MCRowValues`, `ValueProofs`)

`ValueEncoding` has one operator per `ToMysqlValue` implementation: from a value
and a column to the fields of a binary row or the text of a text row, or a
refusal. `ValueDecoding` is the way back: `parse_from`, and the `TryFrom`
conversions with all their range checks. A field keeps its width and what it
holds modulo that width (`Half[w]`, half the values of `w` bytes), so that a cut
or a lost sign shows. A date or time is a record of its parts, and what those may
be is what their Rust types can hold (`Typed`): any bytes in a `Value::Date`, only
days of the calendar in a chrono type.

`RowValues` composes them: `WriteOwn` is `write_col` with a value of the
backend's (NULL bitmap, checkpoint and truncation after a refusal, packet
limit), `WriteEcho` with a parameter the client sent, taken through a Rust type,
`EndRow` sends the row to a client that decodes it by the protocol's rules and
compares it with what was meant. `CanHold` is about the column and what a value
means, whatever Rust type carries it. The binary encoders also look at that type,
and `TypeFits` states what they ask: a `u8` of 5 is refused by a signed TINY, a
`Value::UInt` of 5 by an INT UNSIGNED and a `NaiveDate` by a DATETIME, which could
hold them. `RefusalsJustified` excepts these and says that nothing else a column can
hold is refused. `ReadsRow`, the client, is an operator of the
protocol, the columns and the packet alone, and looks at nothing of the server's
state. `RowAssumption` says what a table, a value and a parameter may be; it is
what the proofs start from, and holds of the code's constants. Calendars are left to chrono (`Calendar`), the
fourteen string types are one, a float is a number that both widths hold
exactly, and four and eight byte integers are cut to what TLC can hold;
`ValueProofs` has no such bound.

### `RequestParsing` (with `MCRequestParsing`)

Bytes to requests. `Response41`, `Response320` and `Parse` follow the nom
parsers field by field, with capabilities as single bits of single bytes;
`Callback` is what `run()` does with a text: UTF-8, `SELECT @@`, and the
trimming of the schema of USE in its order. `stage` is the connection's:
a response, one behind TLS, commands. A client sends what it means in any dialect
(`Encodings`), or a payload cut, lengthened or altered in one byte. Prefixes of a
text stand as one byte; a byte 255 stands for text that is not UTF-8; integers
that are only handed on stay bytes; the limits on statements are `CommandLoop`'s.

### `BufferedOutput` (with `MCBufferedOutput`, `BufferedOutputProofs`)

`write_chunk` over tokio's `BufWriter` over a socket with room for so many
bytes. The two slices and both offsets are the code's; which of them the stream
takes is the `BufWriter`'s rule (flush what leaves no room, keep small slices,
pass on large ones, over vectored writers or not), modelled from its published
behaviour and marked external; a capacity of 0 is a stream without buffer. The
client reads, pipelines (reads only when all its commands are out) or stalls.
Without a write timeout the pipelining client and the server can wait for each
other for ever; `RepliesArrive` excepts exactly that case, and the run reaches
it. Where `PacketFraming` writes a frame in one step, this module shows the steps.

## 4. The runs

| run | properties | shows | bounds |
|---|---|---|---|
| `cursor_loop` | `CursorsAgree`, `CursorViewAgrees`, `StatementViewAgrees` | no cursor is leaked or served after release; the statements agree when quiet, and the client's cursors are the server's | two statements, two messages in flight |
| `long_data_loop` | `LongDataAccounted`, `LongDataBounded`, `LongDataAddressed`, `PendingErrorSticks` | the total never drifts, limits hold, deferred errors stay until reset | two statements of one or two parameters, limits 2 and 3 |
| `session_loop` | `TypeOK`, `RepliesInOrder`, `StatusViewAgrees`, `RepliesKeepComing`, `SilentClientDropped` | every command of the loop, replies in order, status told; a waiting client is answered or dropped, a silent one dropped | one statement in the table, two ids |
| `result_sets` | `ClientUnderstands`, `CompletionIsDelivery`, `SessionStatusTold`, `FetchBounded`, `CursorStateTold`, `DeliversResults` | chains of results and cursor, fetch, prepare and init replies, in every dialect, every call order, every failure | three results, two rows each, row limits 0 to 2 |
| `broken_wire` | `BrokenWireSilent` (violated) | a finding, below | |
| `framing` | `ReceivedAsSent`, `RefusesOnlyBad`, `LimitHolds`, `EndIsClean`, `PacketsArrive` | whole packets or the right refusal, timeouts included; no reader waits for a frame that will not come | two packets of 0 to 5 bytes, frame size 2, limit 4 |
| `handshake` | `AuthenticatedFirst`, `ClientFollows`, `HonestNotRefused`, `OneVerdict`, `RefusalsTold`, `HandshakeEnds`, `HonestClientServed` | the safety properties of section 1, `on_init` failing after it answered included; ends with the timer whatever the client does, without it honest clients are served | every response of `ClientResponses`, three plugins, all options, two frames a packet |
| `parameters` | `NeverPanics`, `ParametersAsSent`, `AllConsumed`, `HonestExecuteAccepted` | what is validated decodes, to what was meant | three parameters over two bitmap bytes |
| `rows` | `RowDecodes`, `RefusalsJustified` | clients decode what was meant; refused is only what the column cannot hold, the protocol cannot represent, the packet has no room for, or a binary row cannot take from that Rust type | every value type at its limits in the first column, a few behind it, two or three columns |
| `wrapped_nulls` | `NullsAreMapped` (violated) | a finding, below | |
| `requests` | `HonestUnderstood`, `NoByteIgnored` | every capability set and every command, honest or altered | strings of 0 to 2 bytes, 2 reserved bytes, one altered byte a payload |
| `output` | `SentInOrder`, `RepliesArrive` | frames in order, nothing held back, every wait ends | three commands, buffers of 0, 4 and 6 bytes, room for 3 bytes in the socket and one command |

Why the bounds are enough: two statements are the least at which one's cursor,
uploads or limit can be charged to another, and statement ids are otherwise
interchangeable (symmetry in the safety runs). Two messages in flight are the
least at which a reply can be matched to the wrong command; every bound named in
a guard (`MaxOutstanding`, `MaxResults`, `MaxRows`, `MaxPackets`, `MaxFrames`)
only stops the environment, never the server. Three commands with room for one are
the least at which a pipelining client and the server wait for each other. Three results are the least with a
middle one, whose terminator both follows and precedes another.

Deadlock is not checked where the system really stops: a closed connection, a
finished response, a returned stream end. `parameters` and `rows` check it.

### The findings

`broken_wire` checks a sentence of `packet_writer.rs` ("A failed transport is
discarded, never retried as a new logical packet or followed by an ERR on the
broken wire", 385-386; the doc comment at 153 says the connection must be
discarded). Nothing enforces it: a row writer stays usable after a failed
`end_row`, `PacketWriter` keeps no record of the failure, and after a write
timeout later writes may succeed; a backend that turns the failed row into
`finish_error` puts an ERR behind a half-written packet, sets the completion
flag, and `run()` serves on. With a backend that gives up on a transport error
(`GivesUpWhenTorn`, the other writer run) nothing of the kind happens.

`wrapped_nulls` checks the comment at `value/encode.rs:78`, "should be handled by
NULL map", above an `unreachable!()`. `write_col` asks `is_null`, but the
implementation for `&T` inherits the default `false`, and `Option`'s looks no
further than `Some`. `write_col(&None::<T>)`, `write_col(&Value::NULL)` and
`write_col(Some(Value::NULL))` therefore panic in a binary row; in a text row
they write NULL. `rows` writes wrapped values that are not NULL.

## 5. Fairness

* `CommandLoop`: weak fairness of serving a command (a task with input is
  polled), of `ReadTimeout` (a tokio timer that stays armed fires) and of
  `ClientReads`. None of the client sending, of a callback succeeding, or of
  the transport failing.
* `PacketFraming`: weak fairness of writing and of reading. None of closing, nor
  of timeouts.
* `BufferedOutput`: weak fairness of the server's step (the task is polled when
  the socket has room), of the write timer, of sending, and of reading unless the
  client stalls.
* `Handshake`: weak fairness of the server's step and of the timer.
  `HonestClientServed` assumes in its antecedent that the client takes its
  turns; `HandshakeEnds` assumes nothing of the client.

## 6. What is proved

The runs show the properties on small instances; the theorems show them for
every value of the constants that the modules' assumptions admit. An assumption
is a named ASSUME of the module it is about, and TLC evaluates it in that
module's runs. Every theorem about behaviours is `Spec => []P`, proved from an
inductive invariant, one step per action.

### The command loop (`CommandLoopProofs`)

Any finite number of statements, any limits, any workload. First the server's table:

* `TypeInvariant`: in particular the session status only ever holds durable flags.
* `LongDataIsAccounted`, `LongDataIsBounded`, `LongDataIsAddressed`,
  `StatementsAreBounded`, `CursorsAlwaysAgree`.
* `PendingErrorsStick`: the action property `PendingErrorSticks`.

The bytes a statement holds are a finite set of pairs, and the connection's are
their disjoint union, so first come lemmas that count such sets: appending to a
buffer adds exactly the new bytes (`AppendAddsBytes`), and the table's bytes
split into one statement's and the rest's (`TableBytesSplit`). `LongDataBounded`
is not inductive, since the limit is checked against the running total and not
against what is held; the inductive invariant `TableInv` joins the accounting,
both bounds, the addressing and the table's size. Rather than split every handler
four times over, `ServeEffect` classifies a step by what it does to the table
(`TableEffect`), and `EffectKeepsTableInv` goes through the six effects.

Then what the client knows:

* `RepliesComeInOrder`: `RepliesInOrder`.
* `StatementViewsAgree`, `CursorViewsAgree`, `StatusViewsAgree`: the three
  properties about a quiet line. The statements agree both ways; of the cursors,
  those a client believes open are among the server's.

A property about a quiet line says nothing of the moments before it. What holds
there (`ViewsInvariant`) is that the views *will* agree: for each
statement, cursor, or the status, either the last reply in the outbox that bears
on it says what the server has, or there is none and the client knows it
already. Replies in order need the same of the pipeline: the replies in the
outbox and the commands in the inbox that have one match the commands awaited,
one by one. What a client may send meanwhile (CLOSE of a statement it was told
of, never of an id a PREPARE under way may be given) is part of it.

### The result writers (`ResultWriterProofs`)

Any sets of capabilities and statuses, any number of results, rows and columns.

* `ClientsUnderstand`, `CompletionsAreDeliveries`, `SessionStatusesAreTold`,
  `CursorStatesAreTold`, `FetchesAreBounded`: the invariants of `result_sets`.
* `ResponsesDeliver`: the refinement, `Spec => Exchange!Spec`. Each packet written
  is a stutter or the delivery of the next result, and the end is an
  answer or a failure.
* `BrokenWireStaysSilent`: nothing is written behind a torn packet.

These are about a backend that gives up on a transport error (`GivesUpWhenTorn`,
the hypothesis of the last two; in the others it is asked for only once a packet
is torn, `Quiet`). With one that goes on they are false, as the run
`broken_wire` shows. `FetchesAreBounded` holds of both.

Between a method's call and its last packet the client is anywhere in the middle
of a response. The inductive invariant (`WritersInvariant`) therefore does not say
where the client stands, but where the packets still outgoing will take its
decoder (`Reaches`): to the place the writer's state assumes (`AtRest`), with the
held-back terminator, the status and the cursor flags it has told. A lemma per
sequence of packets a method emits says what a decoder makes of it.

### The connection phase (`HandshakeProofs`)

Any set of responses, any option, packets of any number of frames.

* `AuthenticationComesFirst`, `ClientsFollow`, `HonestClientsAreNotRefused`,
  `VerdictsAreUnique`, `RefusalsAreTold`: the safety properties of `handshake`.
  The last two name the cases in which a client hears OK and is not served
  (`on_init` failed after it was called) or is turned away without a word (it
  closed, timed out, lacks CLIENT_PROTOCOL_41, or `on_init` failed or did not
  answer); there are no others.

What the server awaits bounds what a client can have sent and what it has yet to
read: at most two packets each way. The invariant (`ConversationHolds`) lists
these meetings phase by phase, with the sequence id each side expects; buffer and
socket are one input in it, because bytes read ahead are still input after the
switch to TLS. The proof showed that two guards of a CASE overlapped in an
earlier form of the module, whose meaning hung on TLC's choosing the first; it is
an IF now, as in the code.

### Packets and bytes (`PacketFramingProofs`, `BufferedOutputProofs`)

* `PacketsComeAsSent`, `OnlyBadIsRefused`, `LimitIsKept`, `EndsAreClean`: the
  safety properties of `framing`, for any frame size of three bytes (2^24 - 1
  among them), any limit, modulus of ids and number of packets.
* `RepliesLeaveInOrder`: `SentInOrder`, for any buffer, threshold, socket and
  frame size.

Both invariants are equations between sequences. `StreamsHold`: what the reader
holds, what is on the wire and what was cut off are, joined, the encodings of the
packets not yet returned; a reader that looks at a prefix of that sees a prefix of
its frames (lemmas about `FrameCount` and `FrameSize`), so what it parses, refuses
or waits for is decided by the first packet. `OutputHolds`: what has left, stands
in the `BufWriter` and is in the socket is, joined, the frames of the chunks done
and, of the one begun, the bytes that the offsets of `write_chunk` count; the
chunks done and those left are the chunks of the replies begun; after a write
timeout what has left stays a prefix. It assumes that a reply holds no empty
packet (`OutputAssumption`), as none of the code's does.

`SequenceInduction` has what the two need of sequences of sequences. Induction
there is stated with sets instead of predicates (`NatInductionOnSet`: a set with 0
and, with each number, the next, holds all of `Nat`), which turns an induction
into an ordinary lemma about a set that the proof defines.

### The parameters (`StatementParametersProofs`)

* `IteratorNeverPanics`: what `validate` accepted, `Params::next` decodes, whatever
  packet arrives.
* `PacketsAreConsumed`: an iterator that has ended gave a value for each
  parameter and read the packet to its last byte.
* `ParametersComeAsSent`: the values a callback is given are, column by column,
  those an honest client meant.
* `HonestExecutesAreAccepted`: no EXECUTE of such a client is rejected for its
  parameters.

`Walk`, what `validate` does, is a recursive function over the columns. By
induction on sets it exists, and an error in it stays; the
invariant (`IteratorFollows`) puts the iterator at a column of that walk, with the
same types and the same rest of the packet. A step of the iterator is a step of
the walk, and the end of the one the end of the other.

What an honest client means is proved from a second invariant over the first,
`HonestInv`: the server remembers the types the client counts on, and the packet
that is served is an encoding of the values meant, of which those before the
iterator's column have been returned. `HonestExecuteAccepted` alone says nothing of
the next EXECUTE, which may rely on types bound by this one. The lemmas under it are
about an encoding: the bit of a column in the bitmap byte is set if and only if the
column is in the set the byte is the sum of (`ByteOf` and `IsSet`, by induction on
the bits in `SequenceInduction`), and `Walk` over an encoding stands, at each
column, before the encodings of the columns left.

### Values (`ValueProofs`)

For every width of the integers `WidthAssumption` admits (the real ones among
them), any tables, values and parameters of their Rust types, and any packet limit.
First each encoding:

* `SizedIntegersReadBack`, `ForgivingIntegersReadBack`: an integer written into
  any column is read back as the same number, through two's complement, widening
  and the change of sign.
* `ValueIntWrittenIfItFits`: `Value::Int` is accepted if and only if the column's
  type holds the number.
* `BinaryCarries`, `TextShows`: whatever `to_mysql_bin` or `to_mysql_text` accepts, of
  any type, for any column, a client reads as what the value means.
* `SuitedWritten`: the converse, `to_mysql_bin` accepts what is in the protocol's
  range, what the column can hold (`CanHold`) and what is of a type that fits it
  (`TypeFits`).
* `ParameterEchoes`: a parameter means the same once `parse_from` has read it and a
  `TryFrom` converted it.

A number in the range of the column's type survives the field (`FieldReadsBack`,
from `Wraps` and `Keeps`); what the encoders accept is in that range (`SizedFits`),
because a wider type of a fitting sign holds as much (`WiderHoldsMore`); and the
smallest type `Value::Int` is cast to exists (`SmallestHolder`). A date or time is a
length and as many parts as it stands for: those left out are zero (`Shown`), those
sent fit their fields, and days, hours, minutes and seconds make up the seconds
they are divided from (`MakesUp`).

Then the rows:

* `RowsDecode`: `RowDecodes`, the rows sent are read as they were meant.
* `RefusalsAreJustified`: `RefusalsJustified`, with the exceptions for Rust types
  that section 3 names.

`RowDecodes` speaks of a row that has been sent; the invariant `RowInv` has to speak of
one that is not finished, which no client can read. It says that the columns
written so far would be read as what was meant *whatever fields follow*
(`Reads`, `RowSoFar`), and that each byte of the NULL bitmap is the sum of the set of
its columns' bits. A value appends fields, and a NULL adds one bit above those that
are set and leaves the fields alone; a refusal cuts the row back to the same fields
(`TruncatedBack`), whatever part of the value the packet limit had let through. The
last column makes the reading whole. That the encodings tell where they end
(`Decodes`) is what makes the appending possible. A justification needs the same
invariant: that a row is under construction, of typed values and columns.

`RowInv` quantifies over every continuation of a row and is not a formula that TLC
can evaluate; TLC checks what it implies.

### Only model-checked

* Liveness, all of it (`RepliesKeepComing`, `SilentClientDropped`, `PacketsArrive`,
  `HandshakeEnds`, `HonestClientServed`, `RepliesArrive`): fairness and ENABLED are
  out of the prover's reach.
* `HonestUnderstood`, `NoByteIgnored`: the two dozen parsers of `RequestParsing` are
  written with folds and selections that take an operator, which the installed
  provers cannot instantiate. Nor are the properties true of every value of the
  module's constants: lengths above `MaxLength` are all one, and a client writes
  a length as one byte, which describes the parsers only for payloads shorter
  than both. Its inputs are finite, and the run enumerates every command and every
  capability set.

## 7. What is not modelled

* The byte layout of replies (OK, ERR, column definitions, the greeting): the
  models keep which packet it is and the fields clients act on. The text form of
  numbers, and decimals, which the code passes through as strings.
* What a writer holds after a row that was refused half-way (`resultset.rs:806`):
  nothing is promised, a hazard with a note.
* In `CommandLoop` and `ResultWriter`, buffering: transport failures may happen
  at any moment there (`TransportFails`, `PacketFails`); `BufferedOutput` has the
  buffer.
* TLS itself, authentication plugins' digests, the generation of scrambles.
* The other constructors, which only pass options on.
* `errorcodes.rs`, the examples, and the tests.
