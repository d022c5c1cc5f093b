# OpenDRDA: a formal model

OpenDRDA is a client library for IBM's DRDA protocol (`src/src/libdrda`), an
ODBC driver on top of it (`src/src/odbc`) and a few utilities. Everything is
synchronous C: one request, one blocking wait, one reply. What is hard is not
parallelism inside the program but the state that survives from one call to the
next, and the byte stream the replies arrive on.

This directory holds TLA+ modules for that state, TLC configurations that check
them on small instances, and proofs for every value of the constants that TLAPS
checks. Paths below are relative to the parent of this directory.

## 1. Inventory

| Component | Where | State it keeps | Operations |
|---|---|---|---|
| Reply exchange | `drda.c`, `ddmread.c: ddm_read_dss` | socket, `out_buf` (request and reply overlay each other) | `drda_excsat` ... `drda_cntqry`, `chain_read` |
| Request framing | `ddmwrite.c`, tops of `drda_*` | `out_buf`, `out_pos`, nested lengths | `ddm_write_*` |
| Reply parameters | `ddmread.c` | `severity_code`, `err_code*`, server attributes, `typdefnam` | `ddm_read_rpymsg_subclass`, `ddm_read_*` |
| FDOCA objects | `fdoca.c` | `sqlca`, `sqlda`, `result_buf/len/pos`, columns' `cur_addr` | `fdoca_read_sqlca/sqlda/qrydsc/qrydta/qrydta_row` |
| Data conversion | `convert.c` | none | `drda_convert*` |
| DRDA handle | `handle.c` | the `DRDA` structure | `drda_init`, `drda_connect`, `drda_disconnect`, `drda_release` |
| Settings and URL | `user.c` | user, password, server, port, database, options | `drda_set_*`, `drda_set_by_url` |
| Connection parameters | `connectparams.c` | one table per connection handle | `LookupDSN`, `SetConnectString`, `ExtractDSN`, `GetConnectParam` |
| ODBC connections | `odbc.c` | one `DRDA` per environment, `lastError` per process | `SQLConnect`, `SQLDriverConnect`, `SQLDisconnect`, `SQLError`, allocation |
| ODBC statements | `odbc.c` | query, list of bindings, row count per statement | `SQLBindCol`, `SQLPrepare`, `SQLExecute`, `SQLFetch`, `SQLGetData`, `SQLFreeStmt` |
| Query rewriting, catalog | `odbc.c` | none | `_odbc_fix_literals`, `SQLTables` |
| Byte order, code pages, debug, utilities | `util.c`, `debug.c`, `tester.c`, `createpkg.c`, `server_info.c`, `unittest.c` | none | |

How they interact. An ODBC call enters `odbc.c` and reaches the `DRDA` of its
environment through statement, connection and environment. Connecting fills the
`DRDA` from the connection's parameter table and URL, opens the socket and
issues four commands. Executing issues PRPSQLSTT and OPNQRY. Each command is an
exchange on the socket; the DSSs of its reply are dispatched by code point, and
the FDOCA readers replace `sqlca`, `sqlda` and `result_buf` in the shared
`DRDA` as a side effect. `SQLFetch` decodes the next row of `result_buf` into
buffers that `SQLBindCol` named. Nothing is called back and no thread is
started; "The SQL engine is presently non-reenterrant and non-thread safe"
(`odbc.c:43`).

Hard behaviours, with what makes each component correct:

* **Exchange**: TCP may cut replies anywhere; whether a reply goes on is read
  from a format byte; the peer may go away between any two DSSs. Correct: each
  command consumes its own reply and all of it, never waits for what nobody
  owes, and returns a result whose sign says whether a reply was heard.
* **Statements**: several statements share one description, one block, one
  position; a reply may leave out any of its objects, and what it leaves out
  keeps its old value. Correct: rows of the statement's own query, once and in
  order, into the buffers bound last; no column points into freed memory; the
  fetch loop ends.
* **Connections**: parameters accumulate per handle, settings per environment,
  the error message per process; a URL is applied as far as it was parsed.
  Correct: the session is the one configured, accepted by the server, and the
  diagnostics are those of the latest attempt.
* **Framing**: lengths of nested parts are added up by hand in every command.
  Correct: the lengths lead through the request, all of it is sent, and it is
  marked as chained where it goes on.
* **Parameters of replies**: they come in any order, and the structure they are
  stored in outlives the connection. Correct: what a reply says is stored,
  whatever was there; a code, severity or diagnostic is never held without
  `err_set`; descriptions are decoded in the byte order of the server they come
  from.
* **Rows and conversion**: the position in the row is kept by adding up sizes
  that depend on type, precision, NULLs and length bytes. Correct: the client is
  at the beginning of a cell when it decodes it; the texts are those of the
  values, with the lengths that `SQLGetData` gives; a display size has room for
  its texts.
* **Texts** (statements, `odbc.ini`, connect strings, URLs): scanners with
  boundary cases at the end of the text and at delimiters in odd places.
  Correct: they give what the text means.

`PROJECT.json` lists the hazards line by line with the properties that cover
them.

## 2. Modules

| Module | Models | Composition |
|---|---|---|
| `RequestReply` | abstract: stop-and-wait, what callers of libdrda rely on | |
| `ReplyChain` | one connection: request, `chain_read`, segments, server, loss | implements `RequestReply` (`RR`, property `StopAndWait`) |
| `RequestFraming` | every command's request, part by part, and its lengths | composed in `Session` |
| `ReplyParams` | the objects of a reply, parameter by parameter, and what they leave | composed in `Session` |
| `Session` | a `DRDA` structure in use: commands, replies, reconnection, release | extends `RequestFraming` and `ReplyParams` |
| `ResultSet` | abstract: the answer to a query gone through once, forwards, what an application relies on | |
| `Cursor` | statements over the shared `DRDA` | implements `ResultSet` (`RS`, property `AnswerSet`); takes an exchange as one atomic step, which `StopAndWait` justifies while in sync |
| `ResultRows` | one result set: its description, its rows, the conversion to text | composed in `MCAlgorithms`; what one fetch of `Cursor` does with its row |
| `Connect` | connection handles over the shared `DRDA` | takes an exchange as one atomic step |
| `ConnectText` | `odbc.ini`, connect strings and URLs, by characters | composed in `MCAlgorithms`; what one attempt of `Connect` does with its texts |
| `QueryText` | rewriting of statements, `SQLTables` | composed in `MCAlgorithms` |
| `..._proofs` | inductive invariants and theorems | extend the module they are named after, and `TLAPS`; `Replies_proofs` extends `Session_proofs`; `Algorithms_proofs` extends `MCAlgorithms` and the proofs about `ResultRows` and `ConnectText`, and proves what `QueryText` does |
| `MC...` | instances for TLC | extend the modules they check |

### ReplyChain

The stream of bytes is a sequence `stream` of DSSs, each with the command it
answers and its format byte; it only grows at its end, and `by` records which
command consumed each DSS. `ReadSegment(j)` is one turn of the outer loop of
`chain_read` whose `read()` returned `j` whole DSSs. `ReadGarbled` is a
`read()` that began or ended inside a DSS: lengths and formats are then taken
from arbitrary bytes, so the command may return, go on or hang. `ReadNothing`
is `read()` returning 0 or -1: the `do ... while` still handles what is at the
front of the buffer, which is the request just written (`front = 0`) or the
first DSS of the previous segment. A command returns what `chain_read` gave it,
as its sign (`ret`), with one exception: `drda_prpsqlstt` ignores it and judges
by the SQLCA it holds. That command's result is `"sqlca"` here, whatever was
read, and what it comes to is in `Cursor` (`PrepareFails`). Each command may be
one or the other (`Results`). `Send` is a `drda_*` command up to its `write()`,
all commands alike; it may be killed by SIGPIPE (`pc = "dead"`) when the peer
has left. `ServerSend` and `ConnectionLost` are the environment.

`torn` and `objcut` are history variables: some read ended inside a DSS, or
right after a chained object. The library has no means against either, so the
promises are conditional on `~cut`, and that they do depend on it is shown by
the run `chained_objects`.

### RequestFraming, ReplyParams, Session

`RequestFraming` has the request of each of the eleven commands as a sequence of
calls of writers (`Requests`), taken from the command's source, with the sizes
of names and statements as parameters. `WritePart` is one call: it moves
`out_pos` and adds what the writer returned to the length being summed up.
`CompletePart` is the end of an object or DSS: its length is written back and
added to the length around it. What a writer writes as length, what it moves
`out_pos` by and what it returns are three fields, as they are three
expressions in `ddmwrite.c`. Contents are left out, and so is the end of
`out_buf`: nothing in the code compares a request with it, and a statement handle
holds up to 4095 bytes of query (`odbc.h:29`), which do not fit behind the
package name. What such a request overwrites is undefined and not modelled.

`ReplyParams` reads an object parameter by parameter, as the loops of
`ddm_read_dss`, `ddm_read_rpymsg_subclass` and `ddm_read_excsatrd` do: which of
them marks an error, which checks the length of its parameter first, that the
severity is taken from the first parameter whatever it is, and which names are
cut. Parameters that are only logged change nothing.

`Session` puts the two together: `Issue` begins a command, `Build` writes its
parts, `Send` writes it to the socket and the server answers, the `Read...`
actions take the reply in. `Connect` is `drda_connect` on the structure as it is,
`Release` is `drda_release` and a new `drda_init`. `Follow` lists the commands the
driver and the utilities issue after a command. Servers differ in byte order, and
a reconnected structure may meet one of the other order.

### Cursor

The state is that of `struct _hstmt` (`stmt`) and of the fields of `DRDA` that
survive (`sqlca`, `sqlda`, `result`, `pos`), the application's buffers (`mem`)
and two history variables (`call`, `latest`). Rows are pairs of an execution
and an index, so a row tells which query it belongs to. `result_pos` is split
into the rows wholly gone past (`pos`) and the place within the next one
(`place`): its beginning, where a fetch with the row's own description always
leaves it (`ResultRows`, `InStep`), or a byte inside it. The server chooses the
replies: PRPSQLSTT may bring an SQLDARD with sqlcode 0, one with another sqlcode
(which replaces the description and fails), an SQLCARD with an error, or no SQLCA
at all; OPNQRY may bring a block or none, an SQLCARD with a sqlcode, or fail. Row
kinds are those `fdoca_read_qrydta_row` tells apart: values, NULLs, and a row
with an SQLCA, where it returns 0.

A row decoded with the description of another query (`FetchMisread`) gives
arbitrary values (`Garbage`), a `cur_addr` that may be past the block, and an
arbitrary position ahead: at a row, at the end, or inside a row. There the byte
may look like the beginning of a row (`"mark"`), so that the next fetch misreads
on, or not (`"text"`), so that every later fetch returns success without moving,
as at a row with an SQLCA (`Stuck`). `FetchExits` is the `exit(1)` at a bound
column that has no type, which happens when no QRYDSC followed the SQLDARD.

### ResultRows

The server writes a row as cells; the client reads bytes. `pos` is where the
client reads, `at` where the server's next cell begins. `fdoca_read_sqlda` and
`fdoca_read_qrydsc` give the columns (`OpenResult`), the latter through a signed
byte; `ReadNull` and `ReadValue` are one turn of the loop of
`fdoca_read_qrydta_row` with the conversion of `convert.c`; `SQLGetData` decodes
again from `cur_addr`. A client that reads where no cell begins is `lost`; an
unsupported column type is `exit`. Values are integers, converted digit by digit
as the code does, with the place of the decimal point and the two bytes a
4-byte integer is read from.

### Connect, ConnectText, QueryText

In `Connect`, `params` is the table of a handle, `drda` the settings, `session`
what is behind `drda->s`. `LookupDSN`, `SetByUrl` and `Settings` say what each
store holds after it was written over. `DoConnect` is `do_connect` up to
`drda_connect`, `Exchange` one of the four commands with its reply; a reply that
is not negative lets `do_connect` go on, whatever it says. A URL with a user but
no password, or without a user, asks for it at the terminal (`Typed`). Socket
numbers and the
sockets that leak are left out: nothing can reach them.

`ConnectText` reads the same texts by characters: `FindSection`, `GetNextItem` and
`SetItem` (one part of a connect string), `SetByUrl` and `SetOption` (one turn of
the option loop). A UID or PWD that is there but empty does not count (`Given`):
what the URL gave stays. `QueryText` has `_odbc_fix_literals` character by
character (`FixCharacter`), the rewritten text taking the place of the query, so
that an execution of the same statement rewrites it once more, and `SQLTables`. A
statement is a sequence of pieces, each with what is written and what it means: a
character, a literal in its quotes, the beginning of an escape with its tag, the
end of one. Escapes may nest, and need not be closed. Words nothing looks into are
one character.

The inputs are constrained by named assumptions, which TLC evaluates for the
instance and the proofs use for every other:

* `ShapesAssumption`: the server's rows fit its description (`Fits`); a decimal
  has no more digits than its precision; a type the client does not know may
  occur anywhere.
* `FilesAssumption`: a file is a sequence of lines of which only the last may
  lack its newline, that is, no line is longer than the buffer of `fgets()`.
* `UrlsAssumption`: no part of a URL has the character that would end it
  (`WellFormed`). `UrlOfFiles`: if a file's section is well formed (`Clean`) and
  gives a URL, it is the one whose text the file was written with.
* `StatementsAssumption`: literals are closed, a tag has at most ten characters
  with its brace and is followed by a blank or by the end, and every "}" outside
  of a literal has a tag somewhere before it. A "}" before any tag, or a "{" that
  begins no escape, is copied by the code as it stands and is not among the
  pieces.

Definitions that repeat something (`Tens`, `Options`, `Start`) are recursive
functions, for the sake of the proofs.

## 3. Runs

| Run | Checks | Instance |
|---|---|---|
| `exchange` | `TypeOK`, `IInv`, `OwnReply`, `NothingLeftOver`, `ServerOwes`, `ResultSound`, `CommandReturns`, `StopAndWait` | 3 commands, replies of up to 2 DSSs, every split into reads, every loss |
| `chained_objects` | `OwnReplyWithChainedObjects` (violated) | a read that ends after a 0x53 DSS ends the reply |
| `session` | `TypeOK`, `IInv`, `LengthsMeet`, `WholeRequestSent`, `ChainedIfContinued`, `ReplyRecorded`, `AttributesRecorded`, `OnlyPointUnmarked`, `ByteOrderOfServer` | 2 connections of 7 commands, names of 1 and 8 bytes, statements of 0 and 3999, servers of both byte orders |
| `cursor` | `TypeOK`, `RowsInOrder`, `FetchFillsBuffers`, `PointersLive`, `AnswerSet` | 2 statements, 2 executions, 2 columns, blocks of up to 2 rows, 2 bindings, one kind of byte inside a row |
| `fetch_loop` | `NoForeignBuffer`, `FetchLoopEnds` | 2 statements, 2 executions, blocks of up to 2 rows without an SQLCA, 1 or 3 columns, 1 binding, both kinds of bytes inside a row |
| `stale_rows` | `RowsOfTheQuery` (violated) | rows of the previous query |
| `silent_prepare` | `SuccessMeansPrepared` (violated) | a stale SQLCA decides |
| `algorithms` | `TypeOK`, `InStep`, `BoundValues`, `GetDataAsBound`, `DisplaySizeSuffices`, `QuerySent`, `ItemsOfSection`, `StringOverrides`, `UrlRead` | 8 shapes of result sets with 2 rows each, 2 executions of 136 statements, 8 files for each of 44 URLs, 4 connect strings |
| `connect` | `TypeOK`, `SessionAsConfigured`, `HandshakeComplete`, `DiagnosticsFresh` | 2 handles, 3 attempts, 6 kinds of sections and one that is missing |
| `refused_login` | `LoginMeansAccepted` (violated) | SQL_SUCCESS for a refused login |
| `merged_dsn` | `CredentialsOfDsn` (violated) | UID and PWD of another data source |
| `uid_as_url` | `TargetOfUrl` (violated) | `SQLDriverConnect` ignores the URL |

What the properties that hold say, and under which conditions:

* `exchange`: while reads respect the framing, a command consumes its own reply
  and all of it, client and server never wait for each other, and the command
  returns. `ResultSound`: the sign of a result tells whether a DSS of the reply
  was handled. It excepts `drda_prpsqlstt`, which returns a positive number if
  the server has gone and it holds no SQLCA or one with sqlcode 0.
* `session`: `LengthsMeet`: whoever walks a request by its lengths meets every
  part at its place. `ReplyRecorded` and `AttributesRecorded`: code, code point,
  diagnostic, byte order, manager levels and names are those of the last parameter
  that gives them, in any order; the severity only if the server code comes first.
  `OnlyPointUnmarked`: no severity, code or diagnostic is held where
  `drda_clear_error()` would not clear it; a code point may be, because its reader
  stores it without setting `err_set`. `ByteOrderOfServer`: `typdefnam` is that of
  the server whose SQLDARD is being read, also after a reconnection.
* `cursor`, `fetch_loop`: for a statement that executed last, whose query was
  answered with rows, and while no other statement fetches: rows come once and in
  order; they go to the buffer bound last and to no other statement's; no column
  points into a freed block (a row that was misread may leave one past the end of
  the present block; `PointersLive` does not exclude that). `AnswerSet` says it
  step by step: as long as it is undisturbed, each fetch of that statement gives
  it the next row of its own answer, or withholds one that carries an SQLCA, and
  `SQL_NO_DATA_FOUND` comes after the last row and not before; once disturbed it
  is promised nothing until a statement executes again. `FetchLoopEnds`: the fetch
  loop ends, unless it meets a row with an SQLCA, or rows of an earlier query
  misread with the layout of another, which may leave the position inside a row
  for good, or end the client.
* `algorithms`: `InStep`: the decoder reads every cell where it was written, for
  result sets of up to 41 columns, decimals of odd precision and fixed lengths
  up to 127. `BoundValues`: the bound buffers hold the texts of the row's values,
  those excepted that the conversion does not keep (`Kept`, see section 4).
  `GetDataAsBound`: `SQLGetData` gives the text a bound buffer got. If the field is
  no longer than the buffer, the length it gives is that of the field; if it is
  longer, the length is that of the buffer and the text is cut to it, but for
  integers, whose text is written whole. The length of a field is that of its
  bytes in the row, which for numbers is not that of their text.
  `DisplaySizeSuffices`: the display size has room for the text, 4-byte integers
  and decimals without a fraction excepted. `QuerySent`: what is sent is
  the statement with its escapes unwrapped, the second time as well.
  `ItemsOfSection`, `StringOverrides`, `UrlRead`: what is stored is what the file,
  the connect string and the URL say, for files in which no item is lost (`Clean`)
  and connect strings whose parts all have a `=` (`IsItem`).
* `connect`: `SessionAsConfigured`: a handle that only ever asked for one data
  source, whose URL can be parsed to its end, has the session it configures when
  it has just connected. It says nothing of a handle after another one has
  connected, nor of a URL that is applied in part. `HandshakeComplete`:
  SQL_SUCCESS means that the server accepted all four commands, or refused one,
  or has gone; a server that refused or left need not have answered the rest, and
  `refused_login` shows that the application is not told. `DiagnosticsFresh`: an
  attempt that is under way or has succeeded leaves no message; one about an
  unknown data source or a failed command is about the latest attempt. The
  messages `url`, `uid` and `connect` are not compared with it.

Why the bounds are enough. `exchange`: a misread needs a command, the next one
that gets its leftovers, and a third that gets theirs; two DSSs per reply
distinguish first, continued and last, and four of the five formats stand for the
two classes the loop condition separates (0x02 behaves as 0x03). `session`: seven
commands take a connection through the handshake, a PRPSQLSTT, an OPNQRY and a
CNTQRY, or to the end of each utility; a second connection is enough to meet what
the first left; sizes are summed, so two per name differ wherever a length was
forgotten. Parameters of SECCHKRM and ACCRDBRM come in every order. `cursor`:
staleness needs two executions, order two rows, rebinding two bindings of one
column. `fetch_loop` has results with three columns, because `_SQLExecute` always
rebinds the first two itself: only in a third could a binding of another statement
survive. `algorithms`: each column type occurs, nullable or not, next to another
whose cell shows whether the position is right; decimals of odd and even precision
with scale 0, between, and equal to the precision; 42 columns are one more than a
QRYDSC's length byte can hold; pieces of statements are paired, and nested two
deep; sections come first and last, alone, with a blank line, with a name given
twice, and with a last line without newline. `connect`: carry-over needs one
attempt to leave something and one to pick it up, by the same handle or by
another; the third follows a success. The sections are one for each path through
`drda_set_by_url` and `SQLConnect`: UID and PWD, credentials in the URL, a user in
the URL whose password is typed, no database, another scheme, no URL, no section.
Two handles, two buffers and two statements are symmetric, which the safety runs
of `Connect` and `Cursor` use; the liveness runs do not.

Deadlock checking is off everywhere: the application may stop calling, the
algorithms end, and a crash is modelled as a state without successors. That
client and server do not wait for each other is the invariant `ServerOwes`.

Fairness. `ReplyChain`: weak fairness of the client's reads (a blocked `read()`
returns when there are bytes or the peer has gone) and of a server that owes a
reply. Nothing makes the application issue commands or the connection fail.
`CommandReturns` excludes a connection lost in the middle of a reply, because
there `chain_read` does not return: it handles the chained DSS at the front of its
buffer again and again. `Cursor`: weak fairness of `SQLFetch`, the loop `while
((retcode = SQLFetch(hstmt)) == SQL_SUCCESS)` of `unittest.c` and `tester.c`;
`FetchLoopEnds` excludes a row with an SQLCA and a position that a misread row
left inside a row, where the loop does not end. The other modules have safety
properties only.

Every property of a passing run is paired with a mutant of a modelled definition
(marked `mutant` in the modules) that TLC must find to violate it.

## 4. Findings

Shown by a run that is violated:

* `chain_read` does not continue after a chained object (`drda.c:465`).
* An execution without a QRYDTA leaves the previous block fetchable (`odbc.c:751`).
* A PRPSQLSTT without an SQLCA in its reply can count as a success (`drda.c:360`).
* A refused handshake command does not stop the connect (`odbc.c:98`).
* Parameters of one DSN leak into the next on the same handle
  (`connectparams.c:345`).
* `SQLDriverConnect` parses the UID as the URL (`odbc.c:145`).

Met while modelling, and kept as conditions of the properties (the model does
what the code does; the property says for which inputs the result is right):

* A negative decimal loses its sign, a decimal of even precision is read from the
  wrong number of bytes ((p+1)/2 instead of p/2+1), and one whose scale equals
  its precision leaves a byte of its text unwritten (`convert.c:123`,
  conditions of `BoundValues` and `Sound`).
* A 4-byte integer is read from two of its bytes, the high ones from a big-endian
  server (`convert.c:174`, `BoundValues`).
* Lengths in a QRYDSC pass through a signed char: more than 41 columns, or fixed
  fields of more than 127 bytes, are misread (`fdoca.c`, `Sound`).
* The display size of a 4-byte integer, and of a decimal with scale 0, is too
  small for its text (`odbc.c:661`, `DisplaySizeSuffices`).
* The severity of an error is taken from the first parameter, even if the server
  code is another one (`ddmread.c:271`, `ReplyRecorded`).
* A line of `odbc.ini` is cut at a second `=`, so options of a URL never come
  through it; a section ends at its first blank or comment line; a last line
  without a newline loses a character (`connectparams.c`, `Clean`).
* The code point of an error is stored without `err_set` (`ddmread.c:169`), so that
  `drda_clear_error()` leaves it (`OnlyPointUnmarked`).
* A request longer than `out_buf` is not noticed; a query of 4095 bytes makes one
  (`odbc.h:29`, `util.c:55`).
* `SQLGetData` does not cut the text of an integer, and of a decimal counts bytes
  of the packed field instead of digits when it decides whether to cut
  (`odbc.c:1068`, `GetDataAsBound`).
* After an execution without a QRYDTA the rows of the previous block are decoded
  with the new layout, which may leave the position inside a row, where every
  fetch succeeds without moving (`fdoca.c:231`, `FetchLoopEnds`).
* A malformed URL option drops all that follow it (`user.c:177`, `UrlRead`).
* A connect string is split at `=` before it is split at `;`: a part without one
  becomes part of the next name (`connectparams.c:128`, `StringOverrides`).
* The text of an escape whose tag is not followed by a blank is dropped
  (`StatementsAssumption`), and `SQLTables` overwrites each name by its
  closing quote, since it counts up the character instead of the pointer
  (`QueryText.SQLTables`).

## 5. Proofs

Each proof module proves one inductive invariant, from one lemma per action with
one step per conjunct the action can disturb, and derives the theorems from it.
They hold for every value of the constants that satisfies the `ASSUME`s of the
module, without the bounds of the runs.

* `ReplyChain_proofs`. `Invariance`: `Spec => []IInv`. None of the properties is
  inductive alone: that a read consumes only its own reply needs to know that
  nothing was left on the stream when the command began (`NothingLeftOver`),
  which needs to know that the reply ends where its last format says
  (`RepliesInOrder`), that the server goes on exactly there (`ServerPosition`),
  and that a reading command has only its own reply ahead (`OwnReplyAhead`).
  `FrontSound` ties the front of the buffer to what was consumed, which
  `ResultSound`, which is about every result but that of PRPSQLSTT, needs when a
  read gives nothing. Hence `TypesHold`,
  `OwnReplyHolds`, `NothingLeftOverHolds`, `ServerOwesHolds`, `ResultSoundHolds`.
  `Refinement`: `Spec => StopAndWait`, by steps under `IInv`: `Send` is `Call`, a
  segment that ends a reply is `HearAll`, another one `HearPart`, a read that
  breaks the framing `LoseSync`, and the rest stutters.
* `Session_proofs`. `FramingCorrect` proves `FramingInv`: what is in the buffer
  mirrors the calls made (`Mirror`), the lengths being summed up are those of the
  parts around the next one (`Enclosing`), and each leads to where the next one
  within it began (`Sums`, `Totals`); `WellBuilt` says that each of the eleven
  requests is balanced and chained as it should be, which is a lemma per command
  over all sizes. `LengthsCorrect`, `RequestSentWhole` and `ChainsCorrect` follow.
  `SessionCorrect` proves `IInv`, which adds
  `OrderAhead`: once access is granted the byte order is known or among the
  parameters still to be read. `TypesCorrect`, `ErrorsMarked` and
  `ByteOrderKnown` follow.
* `Replies_proofs`, on top of it. `RepliesRecorded` and `AttributesHold` follow
  from `Held`: for each thing the structure stores, if any parameter read so far
  gives it, then there is a last such parameter and its value is the one stored.
  That a last one exists is part of the invariant (`LastHeld`), one parameter at a
  time, because the prover has no induction over a list; `LastIsLastOf` then
  identifies it with the one the properties choose.
* `Cursor_proofs`. `CursorInvariant` proves `CInv`. To the properties it adds that
  description and block are of the latest execution or an earlier one, and both
  of the latest if it had rows, with the position at the beginning of a row then
  (`Ages`); that columns carry the bindings the
  statement had at its first fetch (`Copied`), which `FetchFillsBuffers` needs
  from the second row on; and that a column that is bound has a last binding
  (`BindingsSettled`), carried along by every `SQLBindCol` because the prover has
  no induction over a list. An execution falls under one predicate
  (`Executing`), each outcome of a fetch under another (`Fetching`).
  `CursorTypes`, `RowsComeInOrder`, `PointersStayLive`, `BuffersAreOwn` and
  `FetchFills` follow. `AnswerSetRefined`: `Spec => AnswerSet`, under `CInv`. The
  abstract statement holds its answer when some statement is `Undisturbed`;
  `RowsInOrder` makes the rows given as many as the position says, and `Ages`
  rules out a row decoded with another layout. `SQLExecute` is `Execute`, a fetch
  of the statement itself `Give`, `Withhold` or `End`, everything else
  `OtherCall`, or `Unpromised` without the hold.
* `ResultRows_proofs`. `RowsInStep` proves `InStep` from `RowsInv`: the result set
  is sound (`TableOK`), the columns are as described (`AsDescribed`), and the
  reader is as far as its phase says (`Progress`); the lemma behind it compares
  the client's size of a cell with the server's, type by type. `ValuesInv` adds
  what the values need: in a sound result set each cell of the row that has been
  read is held by its column with the address, the length and one of the texts its
  conversion can give (`Held`, `AllHeld`), and what `SQLGetData` gave is such a
  text or, of a field longer than the buffer, the beginning of one, with the
  length of the field or of the buffer (`GotAsBound`). `BoundValuesOfRow`,
  `GetDataGivesBound` and `RoomForTexts` follow from lemmas about the conversion:
  the digits of a number below a power of ten, without its leading zeros, with a
  point put in, are that number (`ReadsAs`), for every precision and scale.
  `RowsTypes` is type correctness.
* `ConnectText_proofs`. `TextInv` says of a file being read that the lines still
  to come are an end of it, that no line so far was the header, or that the table
  holds the items of the section up to here (`Holds`), and of a connect string
  that what is left of it begins at one of its parts and that those before it are
  in the table over the section's items (`Overridden`). `SectionInTable` and
  `StringOverSection` follow, and `TextTypesKept`. `UrlInv` says that the URL that
  is parsed is the text of the one asked for, and how many of its options are in
  the settings (`OptionsRead`); that `SetByUrl` finds each part of that text is a
  chain of lemmas about the first place of a character in texts put together.
  `UrlAsWritten` follows.
* `Algorithms_proofs`. `QueryInv` says that the query is what some sequence of
  pieces is written as, that what it means is known, and that the loop of
  `_odbc_fix_literals` is at a certain character of a certain piece with what the
  pieces before it mean copied (`ReadingAt`). It is what makes the second execution
  safe: the rewritten text is again a sequence of such pieces, each of which
  means itself (`FineAgain`). `SentAsMeant` follows; `QueryTypesKept` adds that the
  position and the copy stay within the text. `TypesKept` puts the types of the
  three algorithms together for the specification that TLC runs.
* `Connect_proofs`. `HInv` (types, the handshake at the step the session has
  accepted, fresh diagnostics) gives `TypesHold`, `HandshakeHolds` and
  `DiagnosticsHold`. `SInv` adds that the table of a handle is that of the section
  it looked up (`Looking`) and that a pending session was opened with the settings
  of that table (`Configured`); it gives `SessionsConfigured`.

Induction over the length of a text is by the least counterexample: a set of
natural numbers that is not empty has a least member (`LeastNumber`, from the
library's theorem on well-founded relations), so that a property that holds at 0
and is passed on by each number to the next holds for all. That recursive
functions such as `Start` satisfy their equation is proved in the same way, from
the existence of their finite beginnings.

Every invariant that a passing run checks and both refinements are stated by a
theorem. Only model-checked are liveness (`CommandReturns`, `FetchLoopEnds`),
which is out of the prover's reach, and the properties that the code violates.

## 6. Not modelled, and why

* Logging and debug output (`debug.c`), what the utilities print, and the ODBC
  functions that only trace and return: no state depends on them.
* Code pages (iconv, or a table, in `util.c`): a text keeps its length, and
  properties compare texts only for equality.
* Which file `odbc.ini` is: a matter of the file system. `DumpParams` prints.
* `SQLDescribeCol`, `SQLNumResultCols`, `SQLRowCount` and the attributes of
  `SQLColAttributes` other than the display size: they copy a field.
* `lastError` of executions: `Connect` has it for connecting, where it is
  cleared; an execution never clears it.
* The end of `out_buf` for a request: see `RequestFraming` in section 2.
* The bytes of a reply against the size of `out_buf`: `chain_read` asks for 8192
  bytes into a buffer of 4096; the models count DSSs and parameters, not bytes.
* Answer sets of several blocks: the driver never calls `drda_cntqry`; `Session`
  has the command as the library offers it.
* Results with one column crash the driver, which binds two without looking:
  modelled (`"crash"` in `Cursor`) and not stated as a property, since no text of
  the repository speaks of it.

## 7. What could follow

The order in which the modules were written is the order in which the others rely
on them: `ReplyChain`, `Cursor`, `Connect`, then `RequestFraming`, `ReplyParams`
and `Session`, then the algorithms. Left to do:

1. `lastError` of executions, in a module that composes `Connect` and `Cursor`.
2. Lengths of the DSSs of a reply in `ReplyChain`, against the size of the buffer.
